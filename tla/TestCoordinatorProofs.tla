------------------------- MODULE TestCoordinatorProofs -------------------------
(***************************************************************************)
(* Proofs about TestCoordinator, for any finite set of suites, any number  *)
(* of iterations, exit codes and failed calls.                             *)
(***************************************************************************)
EXTENDS TestCoordinator, FiniteSetTheorems, TLAPS

Done == {s \in Suites : task[s] = "done"}

(* The task of s has read an exit code and reported it.                    *)
Returned(s) == task[s] = "done" /\ s \notin failed

AllSuitesPassed == \A s \in Suites : Returned(s) /\ status[s] = 0

FailureReported == \E s \in failed : task[s] = "done"

(* Where the main goroutine is tells what the suites of the iteration did. *)
MainInv ==
  /\ main = "forIterations" => AllSuitesPassed
  /\ main = "rangeCodes" => WaitGroup /\ failed = {}
  /\ main = "returned" =>
       IF err THEN FailureReported \/ (AllSuitesPassed /\ MoreIterations)
              ELSE AllSuitesPassed /\ ~MoreIterations
  /\ main = "exited" /\ ~err => WaitGroup
  /\ main \in {"forIterations", "rangeErrors", "rangeCodes"} => ~err
  /\ Running <=> main \notin {"exited", "crashed"}

(* There is at most one report for each task that is done.                 *)
CountInv == errChan + Len(codeChan) <= Cardinality(Done)

(* While the main goroutine has received no error, errChan is empty only   *)
(* if none was reported.                                                   *)
ErrorsInv ==
  /\ errChan > 0 => FailureReported
  /\ main = "rangeErrors" /\ errChan = 0 => ~FailureReported

(* What is in codeChan is the code of a suite that returned; until the     *)
(* main goroutine takes a code that is not zero, all of these are there.   *)
CodesInv ==
  /\ \A i \in 1 .. Len(codeChan) :
       \E s \in Suites : Returned(s) /\ status[s] = codeChan[i]
  /\ main \in {"rangeErrors", "rangeCodes"} =>
       \A s \in Suites : Returned(s) /\ status[s] # 0 =>
         \E i \in 1 .. Len(codeChan) : codeChan[i] = status[s]

CloserInv == closer # "wait" \/ closed # {} => WaitGroup

(* The code that a task has read is, and stays, that of its pod.           *)
PodInv ==
  \A s \in Suites : task[s] \in {"tearDown", "report", "done"} /\ s \notin failed =>
    pods[s] \in {"none", "terminated"} /\ status[s] = podCode[s]

(* A task that is past tearDown has no cluster but an undeleted one, and   *)
(* none before is undeleted yet.                                           *)
ClusterInv ==
  /\ \A c \in clusters : c[1] <= iteration
  /\ \A s \in Suites :
       IF task[s] \in {"report", "done"}
         THEN <<iteration, s>> \in clusters => <<iteration, s>> \in undeleted
         ELSE <<iteration, s>> \notin undeleted

IInv ==
  /\ TypeOK
  /\ MainInv /\ CountInv /\ ErrorsInv /\ CodesInv /\ CloserInv /\ PodInv
  /\ ClusterInv /\ OneIterationAtATime

-----------------------------------------------------------------------------

LEMMA InitIInv == Init => IInv
<1> SUFFICES ASSUME Init PROVE IInv
  OBVIOUS
<1> USE DEF Init
<1>1. TypeOK
  <2>1. Cardinality(Suites) \in Nat
    BY SuitesAssumption, FS_CardinalityType
  <2>2. errChan + Len(codeChan) <= Cardinality(Suites) /\ codeChan \in Seq(ExitCodes \cup {0})
    BY <2>1
  <2>3. env \in Environments /\ podEnv \in [Suites -> Environments]
    BY DEF Environments
  <2>4. faults \in 0 .. MaxFaults
    BY NumbersAssumption
  <2> QED
    BY <2>2, <2>3, <2>4 DEF TypeOK
<1>2. CountInv
  <2>1. Done = Suites
    BY DEF Done
  <2>2. Cardinality(Suites) \in Nat
    BY SuitesAssumption, FS_CardinalityType
  <2> QED
    BY <2>1, <2>2 DEF CountInv
<1>3. MainInv /\ ErrorsInv /\ CodesInv /\ CloserInv
  BY DEF MainInv, ErrorsInv, CodesInv, CloserInv, AllSuitesPassed, Returned, FailureReported,
         WaitGroup, Running
<1>4. PodInv /\ ClusterInv /\ OneIterationAtATime
  BY DEF PodInv, ClusterInv, OneIterationAtATime
<1> QED
  BY <1>1, <1>2, <1>3, <1>4 DEF IInv

-----------------------------------------------------------------------------
(* The tasks that are done, counted.                                       *)
LEMMA DoneBounded ==
  /\ Cardinality(Suites) \in Nat
  /\ IsFiniteSet(Done) /\ Cardinality(Done) \in 0 .. Cardinality(Suites)
  /\ IsFiniteSet(Done') /\ Cardinality(Done') \in 0 .. Cardinality(Suites)
<1>1. Cardinality(Suites) \in Nat
  BY SuitesAssumption, FS_CardinalityType
<1>2. ASSUME NEW D \in SUBSET Suites
      PROVE  IsFiniteSet(D) /\ Cardinality(D) \in 0 .. Cardinality(Suites)
  <2>1. IsFiniteSet(D) /\ Cardinality(D) <= Cardinality(Suites)
    BY SuitesAssumption, FS_Subset
  <2> QED
    BY <2>1, <1>1, FS_CardinalityType
<1> QED
  BY <1>1, <1>2 DEF Done

LEMMA DoneGrows ==
  ASSUME TypeOK, NEW s \in Suites, task[s] # "done", Goto(s, "done")
  PROVE  Cardinality(Done') = Cardinality(Done) + 1
<1>1. Done' = Done \cup {s} /\ s \notin Done
  BY DEF Done, Goto, TypeOK
<1> QED
  BY <1>1, DoneBounded, FS_AddElement

(* A task that goes from one call to another and is not done leaves what   *)
(* the main goroutine relies on as it is.                                  *)
LEMMA TaskMoves ==
  ASSUME IInv, Running, UNCHANGED mainVars, UNCHANGED podCode,
         NEW s \in Suites, task[s] # "done", NEW call, Goto(s, call), call # "done",
         failed' = failed \/ failed' = failed \cup {s},
         \A t \in Suites \ {s} : status'[t] = status[t] /\ pods'[t] = pods[t],
         call \in {"tearDown", "report"} /\ s \notin failed' =>
           pods'[s] \in {"none", "terminated"} /\ status'[s] = podCode[s]
  PROVE  MainInv' /\ CountInv' /\ ErrorsInv' /\ CodesInv' /\ CloserInv' /\ PodInv'
<1> USE DEF IInv, mainVars, channels
<1>1. \A t \in Suites : task'[t] = IF t = s THEN call ELSE task[t]
  BY DEF Goto, TypeOK
<1>2. /\ ~WaitGroup /\ ~AllSuitesPassed
      /\ \A t \in Suites : Returned(t)' <=> Returned(t)
      /\ FailureReported' <=> FailureReported
  BY <1>1 DEF WaitGroup, AllSuitesPassed, Returned, FailureReported, TypeOK
<1>3. \A t \in Suites : Returned(t) => status'[t] = status[t]
  BY DEF Returned
<1>4. MainInv'
  BY <1>2 DEF MainInv, MoreIterations, Running
<1>5. CountInv'
  <2>1. Done' = Done
    BY <1>1 DEF Done
  <2> QED
    BY <2>1 DEF CountInv
<1>6. ErrorsInv'
  BY <1>2 DEF ErrorsInv
<1>7. CodesInv'
  BY <1>2, <1>3 DEF CodesInv
<1>8. CloserInv'
  BY <1>2 DEF CloserInv
<1>9. PodInv'
  BY <1>1 DEF PodInv
<1> QED
  BY <1>4, <1>5, <1>6, <1>7, <1>8, <1>9

(* Before tearDown a task deletes nothing.                                 *)
LEMMA ClustersKept ==
  ASSUME IInv, UNCHANGED iteration, UNCHANGED undeleted,
         NEW s \in Suites, task[s] \notin {"report", "done"},
         NEW call, Goto(s, call), call \notin {"report", "done"},
         clusters' = clusters \/ clusters' = clusters \cup {<<iteration, s>>}
  PROVE  ClusterInv' /\ OneIterationAtATime'
<1> USE DEF IInv
<1>1. \A t \in Suites : task'[t] = IF t = s THEN call ELSE task[t]
  BY DEF Goto, TypeOK
<1>2. iteration \in Nat
  BY DEF TypeOK
<1>3. ASSUME NEW c \in clusters' PROVE c[1] <= iteration'
  BY <1>2 DEF ClusterInv
<1>4. ASSUME NEW t \in Suites
      PROVE  (IF task[t] \in {"report", "done"}
               THEN <<iteration, t>> \in clusters => <<iteration, t>> \in undeleted
               ELSE <<iteration, t>> \notin undeleted)'
  BY <1>1 DEF ClusterInv
<1>5. ClusterInv'
  BY <1>3, <1>4 DEF ClusterInv
<1>6. OneIterationAtATime'
  BY DEF OneIterationAtATime, TypeOK
<1> QED
  BY <1>5, <1>6

(* Every call of a task before tearDown, and every error among them.       *)
LEMMA CallKeeps ==
  ASSUME IInv, Running, NEW s \in Suites,
         \/ CreateCluster(s) \/ ToEnv(s) \/ SetNamespace(s) \/ CreateTestJob(s)
         \/ AwaitTestJobRunning(s) \/ GetPod(s) \/ StreamLogs(s) \/ GetStatus(s) \/ FailCall(s)
  PROVE  IInv'
<1> USE DEF mainVars, envs, cluster
<1>1. PICK call \in TaskCalls :
        /\ Goto(s, call)
        /\ failed' = failed \/ (call = "tearDown" /\ failed' = failed \cup {s})
        /\ call = "tearDown" /\ s \notin failed' => GetStatus(s)
  <2> USE DEF TaskCalls, ApiCalls, EnvAccess
  <2>1. CASE CreateCluster(s)
    BY <2>1 DEF CreateCluster
  <2>2. CASE ToEnv(s) \/ SetNamespace(s) \/ CreateTestJob(s)
    BY <2>2 DEF ToEnv, SetNamespace, CreateTestJob
  <2>3. CASE AwaitTestJobRunning(s)
    <3>1. (IF task[s] = "startTest" THEN "start" ELSE "getPod") \in TaskCalls \ {"tearDown"}
      OBVIOUS
    <3> QED
      BY <2>3, <3>1 DEF AwaitTestJobRunning
  <2>4. CASE GetPod(s) \/ StreamLogs(s)
    BY <2>4 DEF GetPod, StreamLogs, Abandon
  <2>5. CASE GetStatus(s)
    BY <2>5 DEF GetStatus
  <2>6. CASE FailCall(s)
    BY <2>6 DEF FailCall, Abandon
  <2> QED
    BY <2>1, <2>2, <2>3, <2>4, <2>5, <2>6
<1>2. /\ UNCHANGED mainVars /\ UNCHANGED podCode /\ UNCHANGED undeleted
      /\ clusters' = clusters \/ clusters' = clusters \cup {<<iteration, s>>}
  BY DEF CreateCluster, ToEnv, SetNamespace, CreateTestJob, AwaitTestJobRunning, GetPod,
         StreamLogs, GetStatus, FailCall, Abandon
<1>3. /\ status' = status \/ (GetStatus(s) /\ status' = [status EXCEPT ![s] = podCode[s]])
      /\ pods' = pods \/ pods' = [pods EXCEPT ![s] = "pending"]
      /\ GetStatus(s) => pods' = pods
  BY DEF CreateCluster, ToEnv, SetNamespace, CreateTestJob, AwaitTestJobRunning, GetPod,
         StreamLogs, GetStatus, FailCall, Abandon
<1>4. task[s] \notin {"report", "done"} /\ call \notin {"report", "done"}
  BY DEF CreateCluster, ToEnv, SetNamespace, CreateTestJob, AwaitTestJobRunning, GetPod,
         StreamLogs, GetStatus, FailCall, TaskCalls, ApiCalls, EnvAccess, Awaiting
<1>5. TypeOK'
  <2> USE DEF IInv, TypeOK, channels
  <2>1. env' \in Environments /\ podEnv' \in [Suites -> Environments]
    <3>1. /\ [env EXCEPT !.suite = s] \in Environments
          /\ [env EXCEPT !.namespace = s] \in Environments
          /\ [podEnv EXCEPT ![s] = env] \in [Suites -> Environments]
      BY DEF Environments
    <3> QED
      BY <3>1 DEF CreateCluster, ToEnv, SetNamespace, CreateTestJob, AwaitTestJobRunning, GetPod,
                  StreamLogs, GetStatus, FailCall
  <2>2. faults' \in 0 .. MaxFaults
    BY NumbersAssumption DEF Fault, CreateCluster, ToEnv, SetNamespace, CreateTestJob,
       AwaitTestJobRunning, GetPod, StreamLogs, GetStatus, FailCall
  <2>3. clusters' \in SUBSET (Nat \X Suites) /\ undeleted' \in SUBSET clusters'
    BY <1>2
  <2>4. task' \in [Suites -> TaskCalls \cup {"report", "done"}] /\ failed' \in SUBSET Suites
    BY <1>1 DEF Goto
  <2>5. /\ status' \in [Suites -> ExitCodes \cup {0}]
        /\ pods' \in [Suites -> {"none", "pending", "running", "terminated"}]
    BY <1>3
  <2> QED
    BY <1>2, <2>1, <2>2, <2>3, <2>4, <2>5
<1>6. call = "tearDown" /\ s \notin failed' =>
        pods'[s] \in {"none", "terminated"} /\ status'[s] = podCode[s]
  BY <1>1, <1>3 DEF GetStatus, IInv, TypeOK
<1>7. \A t \in Suites \ {s} : status'[t] = status[t] /\ pods'[t] = pods[t]
  BY <1>3 DEF IInv, TypeOK
<1>8. MainInv' /\ CountInv' /\ ErrorsInv' /\ CodesInv' /\ CloserInv' /\ PodInv'
  BY <1>1, <1>2, <1>4, <1>6, <1>7, TaskMoves
<1>9. ClusterInv' /\ OneIterationAtATime'
  BY <1>1, <1>2, <1>4, ClustersKept
<1> QED
  BY <1>5, <1>8, <1>9 DEF IInv

LEMMA TearDownKeeps ==
  ASSUME IInv, Running, NEW s \in Suites, TearDown(s)
  PROVE  IInv'
<1> USE DEF TearDown, mainVars, envs, IInv
<1>1. TypeOK'
  <2>1. faults' \in 0 .. MaxFaults
    BY NumbersAssumption DEF Fault, TypeOK
  <2>2. clusters' \in SUBSET (Nat \X Suites) /\ undeleted' \in SUBSET clusters'
    BY DEF TypeOK, ClusterInv
  <2>3. task' \in [Suites -> TaskCalls \cup {"report", "done"}]
    BY DEF TypeOK, Goto
  <2> QED
    BY <2>1, <2>2, <2>3 DEF TypeOK, channels
<1>2. s \notin failed' => pods'[s] \in {"none", "terminated"} /\ status'[s] = podCode[s]
  BY DEF PodInv, TypeOK
<1>3. \A t \in Suites \ {s} : status'[t] = status[t] /\ pods'[t] = pods[t]
  BY DEF TypeOK
<1>4. MainInv' /\ CountInv' /\ ErrorsInv' /\ CodesInv' /\ CloserInv' /\ PodInv'
  BY <1>2, <1>3, TaskMoves
<1>5. ClusterInv'
  <2>1. \A t \in Suites : task'[t] = IF t = s THEN "report" ELSE task[t]
    BY DEF Goto, TypeOK
  <2>2. clusters' \subseteq clusters /\ iteration' = iteration
    OBVIOUS
  <2>3. \A c \in clusters' : c[1] <= iteration'
    BY <2>2 DEF ClusterInv
  <2>4. <<iteration, s>> \in clusters' => <<iteration, s>> \in undeleted'
    OBVIOUS
  <2>5. ASSUME NEW t \in Suites, t # s
        PROVE  /\ <<iteration, t>> \in clusters' <=> <<iteration, t>> \in clusters
               /\ <<iteration, t>> \in undeleted' <=> <<iteration, t>> \in undeleted
    BY <2>5
  <2> QED
    BY <2>1, <2>2, <2>3, <2>4, <2>5 DEF ClusterInv
<1>6. OneIterationAtATime'
  BY DEF OneIterationAtATime, TypeOK
<1> QED
  BY <1>1, <1>4, <1>5, <1>6
(* A report adds one to the tasks that are done and one to the channels.   *)
LEMMA ReportKeeps ==
  ASSUME IInv, Running, NEW s \in Suites, Report(s)
  PROVE  IInv'
<1> USE DEF Report, envs, cluster, IInv
<1>1. task[s] = "report" /\ ~WaitGroup /\ ~AllSuitesPassed
  BY DEF WaitGroup, AllSuitesPassed, Returned
<1>2. \A t \in Suites : task'[t] = IF t = s THEN "done" ELSE task[t]
  BY DEF Goto, TypeOK
<1>3. \A t \in Suites : Returned(t)' <=> Returned(t) \/ (t = s /\ s \notin failed)
  BY <1>1, <1>2 DEF Returned
<1>4. FailureReported' <=> FailureReported \/ s \in failed
  BY <1>1, <1>2 DEF FailureReported, TypeOK
<1>5. /\ errChan' \in Nat /\ codeChan' \in Seq(ExitCodes \cup {0})
      /\ errChan' + Len(codeChan') = errChan + Len(codeChan) + 1
      /\ errChan + Len(codeChan) \in Nat
  <2>1. /\ errChan \in Nat /\ codeChan \in Seq(ExitCodes \cup {0}) /\ Len(codeChan) \in Nat
        /\ status[s] \in ExitCodes \cup {0}
    BY DEF TypeOK
  <2>2. /\ Append(codeChan, status[s]) \in Seq(ExitCodes \cup {0})
        /\ Len(Append(codeChan, status[s])) = Len(codeChan) + 1
    BY <2>1
  <2> QED
    BY <2>1, <2>2, SMTT(30)
<1>6. CountInv'
  <2>1. Cardinality(Done') = Cardinality(Done) + 1
    BY <1>1, DoneGrows
  <2> QED
    BY <2>1, <1>5, DoneBounded DEF CountInv
<1>7. TypeOK'
  <2>1. Cardinality(Done') <= Cardinality(Suites) /\ Cardinality(Done') \in Nat
    BY DoneBounded
  <2>2. errChan' + Len(codeChan') <= Cardinality(Suites)
    BY <1>5, <1>6, <2>1, DoneBounded DEF CountInv
  <2>3. task' \in [Suites -> TaskCalls \cup {"report", "done"}]
    BY DEF Goto, TypeOK
  <2> QED
    BY <1>5, <2>2, <2>3 DEF TypeOK
<1>8. MainInv'
  BY <1>1, <1>4 DEF MainInv, MoreIterations, Running
<1>9. ErrorsInv'
  BY <1>4, <1>5 DEF ErrorsInv, TypeOK
<1>10. CodesInv'
  <2>1. CASE s \in failed
    BY <2>1, <1>3 DEF CodesInv
  <2>2. CASE s \notin failed
    <3>1. /\ Len(codeChan') = Len(codeChan) + 1 /\ Len(codeChan) \in Nat
          /\ codeChan'[Len(codeChan) + 1] = status[s]
          /\ \A i \in 1 .. Len(codeChan) : codeChan'[i] = codeChan[i]
      BY <2>2 DEF TypeOK
    <3>2. ASSUME NEW i \in 1 .. Len(codeChan')
          PROVE  \E t \in Suites : Returned(t)' /\ status'[t] = codeChan'[i]
      <4>1. CASE i = Len(codeChan) + 1
        BY <4>1, <3>1, <1>3, <2>2
      <4>2. CASE i # Len(codeChan) + 1
        <5>1. i \in 1 .. Len(codeChan)
          BY <4>2, <3>1
        <5>2. PICK t \in Suites : Returned(t) /\ status[t] = codeChan[i]
          BY <5>1 DEF CodesInv
        <5> QED
          BY <5>1, <5>2, <3>1, <1>3
      <4> QED
        BY <4>1, <4>2
    <3>3. ASSUME main' \in {"rangeErrors", "rangeCodes"},
                 NEW t \in Suites, Returned(t)', status'[t] # 0
          PROVE  \E i \in 1 .. Len(codeChan') : codeChan'[i] = status'[t]
      <4>1. CASE t = s
        BY <4>1, <3>1
      <4>2. CASE t # s
        <5>1. PICK i \in 1 .. Len(codeChan) : codeChan[i] = status[t]
          BY <3>3, <4>2, <1>3 DEF CodesInv
        <5> QED
          BY <5>1, <3>1
      <4> QED
        BY <4>1, <4>2
    <3> QED
      BY <3>2, <3>3 DEF CodesInv
  <2> QED
    BY <2>1, <2>2
<1>11. CloserInv'
  BY <1>1 DEF CloserInv
<1>12. PodInv'
  BY <1>1, <1>2 DEF PodInv
<1>13. ClusterInv' /\ OneIterationAtATime'
  BY <1>1, <1>2 DEF ClusterInv, OneIterationAtATime
<1> QED
  BY <1>6, <1>7, <1>8, <1>9, <1>10, <1>11, <1>12, <1>13

-----------------------------------------------------------------------------
(* The first suites of an iteration find the clusters of the one before    *)
(* gone or undeleted.                                                      *)
LEMMA StartIterationKeeps ==
  ASSUME IInv, StartIteration
  PROVE  IInv'
<1> USE DEF StartIteration, envs, IInv
<1>1. AllSuitesPassed /\ WaitGroup
  BY DEF MainInv, AllSuitesPassed, Returned, WaitGroup
<1>2. CASE main' = "rangeErrors"
  <2> USE <1>2
  <2>1. CountInv'
    BY DoneBounded DEF CountInv
  <2>2. TypeOK'
    BY DoneBounded DEF TypeOK, TaskCalls, ApiCalls
  <2>3. MainInv' /\ ErrorsInv' /\ CodesInv' /\ CloserInv' /\ PodInv'
    BY DEF MainInv, ErrorsInv, CodesInv, CloserInv, PodInv, FailureReported, Returned, Running
  <2>4. \A c \in clusters : c[1] \in Nat /\ c[1] <= iteration /\ iteration \in Nat
    BY DEF ClusterInv, TypeOK
  <2>5. ClusterInv'
    <3>1. \A s \in Suites : <<iteration', s>> \notin undeleted'
      <4>1. \A s \in Suites : <<iteration', s>> \notin clusters
        BY <2>4
      <4> QED
        BY <4>1 DEF TypeOK
    <3>2. \A c \in clusters' : c[1] <= iteration'
      BY <2>4
    <3>3. \A s \in Suites : task'[s] = "createCluster"
      OBVIOUS
    <3> QED
      BY <3>1, <3>2, <3>3 DEF ClusterInv
  <2>6. ASSUME NEW c \in clusters PROVE c \in undeleted
    <3>1. CASE c[1] < iteration
      BY <3>1 DEF OneIterationAtATime
    <3>2. CASE c[1] = iteration
      <4>1. PICK s \in Suites : c = <<iteration, s>>
        BY <3>2 DEF TypeOK
      <4> QED
        BY <4>1, <1>1 DEF ClusterInv, WaitGroup
    <3> QED
      BY <3>1, <3>2, <2>4
  <2>7. OneIterationAtATime'
    BY <2>6 DEF OneIterationAtATime
  <2> QED
    BY <2>1, <2>2, <2>3, <2>5, <2>7
<1>3. CASE main' = "returned"
  <2> USE <1>3 DEF channels, tasks
  <2>1. TypeOK'
    <3>1. faults' \in 0 .. MaxFaults
      BY NumbersAssumption DEF TypeOK, Fault
    <3> QED
      BY <3>1 DEF TypeOK
  <2>2. AllSuitesPassed' /\ MoreIterations'
    BY <1>1 DEF AllSuitesPassed, Returned, MoreIterations
  <2>3. CountInv' /\ ErrorsInv' /\ CodesInv' /\ CloserInv' /\ PodInv' /\ ClusterInv'
        /\ OneIterationAtATime'
    BY DEF CountInv, Done, ErrorsInv, FailureReported, CodesInv, Returned, CloserInv, WaitGroup,
           PodInv, ClusterInv, OneIterationAtATime
  <2>4. MainInv'
    BY <2>2 DEF MainInv, Running
  <2> QED
    BY <2>1, <2>3, <2>4
<1> QED
  BY <1>2, <1>3

(* What the other steps of the main goroutine and the closer leave alone.  *)
LEMMA TasksUntouched ==
  ASSUME IInv, UNCHANGED <<iteration, tasks, envs, cluster, faults>>
  PROVE  /\ PodInv' /\ ClusterInv' /\ OneIterationAtATime'
         /\ FailureReported' <=> FailureReported
         /\ AllSuitesPassed' <=> AllSuitesPassed
         /\ WaitGroup' <=> WaitGroup
         /\ MoreIterations' <=> MoreIterations
         /\ \A s \in Suites : Returned(s)' <=> Returned(s)
         /\ Done' = Done
BY DEF IInv, tasks, envs, cluster, PodInv, ClusterInv, OneIterationAtATime, FailureReported,
       AllSuitesPassed, WaitGroup, MoreIterations, Returned, Done

LEMMA RangeErrorsKeeps ==
  ASSUME IInv, RangeErrors
  PROVE  IInv'
<1> USE DEF RangeErrors, IInv
<1>1. /\ PodInv' /\ ClusterInv' /\ OneIterationAtATime' /\ Done' = Done
      /\ FailureReported' <=> FailureReported
      /\ AllSuitesPassed' <=> AllSuitesPassed
      /\ WaitGroup' <=> WaitGroup
      /\ \A s \in Suites : Returned(s)' <=> Returned(s)
  BY TasksUntouched
<1> USE DEF tasks, envs, cluster
<1>2. TypeOK' /\ CountInv'
  <2>1. errChan \in Nat /\ Len(codeChan) \in Nat /\ errChan + Len(codeChan) <= Cardinality(Suites)
    BY DEF TypeOK
  <2>2. errChan' \in Nat /\ errChan' <= errChan /\ codeChan' = codeChan
    BY <2>1
  <2>3. errChan' + Len(codeChan') <= Cardinality(Suites)
    BY <2>1, <2>2, DoneBounded
  <2>4. CountInv'
    BY <1>1, <2>1, <2>2, DoneBounded DEF CountInv
  <2> QED
    BY <2>2, <2>3, <2>4 DEF TypeOK
<1>3. main' = "rangeCodes" => WaitGroup /\ failed = {}
  <2>1. main' = "rangeCodes" => WaitGroup /\ ~FailureReported
    BY DEF CloserInv, ErrorsInv
  <2> QED
    BY <2>1 DEF WaitGroup, FailureReported, TypeOK
<1>4. MainInv'
  BY <1>1, <1>3 DEF MainInv, ErrorsInv, Running
<1>5. ErrorsInv' /\ CodesInv' /\ CloserInv'
  BY <1>1 DEF ErrorsInv, CodesInv, CloserInv, TypeOK
<1> QED
  BY <1>1, <1>2, <1>4, <1>5
LEMMA RangeCodesKeeps ==
  ASSUME IInv, RangeCodes
  PROVE  IInv'
<1> USE DEF RangeCodes, IInv
<1>1. /\ PodInv' /\ ClusterInv' /\ OneIterationAtATime' /\ Done' = Done
      /\ FailureReported' <=> FailureReported
      /\ AllSuitesPassed' <=> AllSuitesPassed
      /\ WaitGroup' <=> WaitGroup
      /\ \A s \in Suites : Returned(s)' <=> Returned(s)
  BY TasksUntouched
<1> USE DEF tasks, envs, cluster
<1>2. WaitGroup /\ failed = {} /\ ~err
  BY DEF MainInv
<1>3. CASE codeChan # <<>>
  <2>1. /\ codeChan' \in Seq(ExitCodes \cup {0})
        /\ Len(codeChan') = Len(codeChan) - 1 /\ Len(codeChan) \in Nat /\ Len(codeChan') \in Nat
        /\ Head(codeChan) = codeChan[1] /\ Head(codeChan) \in ExitCodes \cup {0}
        /\ \A i \in 1 .. Len(codeChan') : codeChan'[i] = codeChan[i + 1]
    <3>1. codeChan \in Seq(ExitCodes \cup {0}) /\ codeChan' = Tail(codeChan)
      BY <1>3 DEF TypeOK
    <3> QED
      BY <1>3, <3>1
  <2>2. TypeOK'
    <3>1. errChan + Len(codeChan') <= Cardinality(Suites)
      BY <2>1, DoneBounded DEF TypeOK
    <3>2. main' \in {main, "exited"} /\ exit' \in {exit} \cup ExitCodes \cup {0}
      BY <1>3, <2>1
    <3>3. codeChan' \in Seq(ExitCodes \cup {0})
      BY <2>1
    <3> HIDE DEF RangeCodes
    <3>4. UNCHANGED <<iteration, closer, errChan, closed, err, tasks, envs, cluster, faults>>
      BY DEF RangeCodes
    <3> QED
      BY <3>1, <3>2, <3>3, <3>4 DEF TypeOK
  <2>3. CountInv'
    BY <1>1, <2>1, DoneBounded DEF CountInv, TypeOK
  <2>4. MainInv'
    BY <1>1, <1>2, <1>3, NumbersAssumption, <2>1 DEF MainInv, Running, NotExited
  <2>5. ErrorsInv' /\ CloserInv'
    BY <1>1, <1>3 DEF ErrorsInv, CloserInv
  <2>6. CodesInv'
    <3>1. ASSUME NEW i \in 1 .. Len(codeChan')
          PROVE  \E s \in Suites : Returned(s)' /\ status'[s] = codeChan'[i]
      <4>1. i + 1 \in 1 .. Len(codeChan) /\ codeChan'[i] = codeChan[i + 1]
        BY <2>1
      <4> QED
        BY <4>1, <1>1 DEF CodesInv
    <3>2. ASSUME main' \in {"rangeErrors", "rangeCodes"},
                 NEW s \in Suites, Returned(s)', status'[s] # 0
          PROVE  \E i \in 1 .. Len(codeChan') : codeChan'[i] = status'[s]
      <4>1. codeChan[1] = 0
        BY <3>2, <1>3, <2>1
      <4>2. PICK i \in 1 .. Len(codeChan) : codeChan[i] = status[s]
        BY <3>2, <1>1 DEF CodesInv
      <4>3. i - 1 \in 1 .. Len(codeChan')
        BY <4>1, <4>2, <3>2, <2>1
      <4>4. i - 1 + 1 = i /\ codeChan'[i - 1] = codeChan[i - 1 + 1]
        BY <4>3, <2>1
      <4> QED
        BY <4>2, <4>3, <4>4, <3>2
    <3> QED
      BY <3>1, <3>2 DEF CodesInv
  <2> QED
    BY <1>1, <2>2, <2>3, <2>4, <2>5, <2>6
<1>4. CASE codeChan = <<>>
  <2>1. AllSuitesPassed
    BY <1>2, <1>4 DEF AllSuitesPassed, Returned, WaitGroup, CodesInv
  <2>2. TypeOK' /\ CountInv' /\ ErrorsInv' /\ CodesInv' /\ CloserInv'
    BY <1>1, <1>4 DEF TypeOK, CountInv, ErrorsInv, CodesInv, CloserInv
  <2>3. MainInv'
    BY <1>1, <1>2, <1>4, <2>1 DEF MainInv, Running
  <2> QED
    BY <1>1, <2>2, <2>3
<1> QED
  BY <1>3, <1>4

(* The other steps that only the main goroutine, the closer or the Go      *)
(* runtime takes.                                                          *)
LEMMA ControlKeeps ==
  ASSUME IInv, EndIterations \/ MainExit \/ ConcurrentMapAccess \/ Close
  PROVE  IInv'
<1> USE DEF EndIterations, MainExit, ConcurrentMapAccess, Close, IInv
<1>1. /\ PodInv' /\ ClusterInv' /\ OneIterationAtATime' /\ Done' = Done
      /\ FailureReported' <=> FailureReported
      /\ AllSuitesPassed' <=> AllSuitesPassed
      /\ WaitGroup' <=> WaitGroup
      /\ MoreIterations' <=> MoreIterations
      /\ \A s \in Suites : Returned(s)' <=> Returned(s)
  BY TasksUntouched
<1>2. errChan' = errChan /\ codeChan' = codeChan /\ UNCHANGED <<iteration, tasks, envs, cluster, faults>>
  BY DEF channels
<1>3. TypeOK'
  BY <1>2 DEF TypeOK, tasks, envs, cluster, channels, NotExited
<1>4. CountInv' /\ ErrorsInv' /\ CodesInv'
  BY <1>1, <1>2 DEF CountInv, ErrorsInv, CodesInv, tasks
<1>5. CloserInv'
  BY <1>1, <1>2 DEF CloserInv, channels
<1>6. AllSuitesPassed => WaitGroup
  BY DEF AllSuitesPassed, WaitGroup, Returned
<1>7. MainInv'
  <2>1. CASE EndIterations
    BY <1>1, <1>2, <2>1 DEF MainInv, Running, channels, tasks
  <2>2. CASE MainExit
    BY <1>1, <1>2, <1>6, <2>2 DEF MainInv, Running, channels, tasks, NotExited
  <2>3. CASE ConcurrentMapAccess
    BY <1>1, <1>2, <2>3 DEF MainInv, Running, channels, tasks, NotExited, CrashCode
  <2>4. CASE Close
    BY <1>1, <1>2, <2>4 DEF MainInv, Running, channels, tasks
  <2> QED
    BY <2>1, <2>2, <2>3, <2>4
<1> QED
  BY <1>1, <1>3, <1>4, <1>5, <1>7

(* A pod whose task has read its code, or has deleted it, does not change. *)
LEMMA PodKeeps ==
  ASSUME IInv, NEW s \in Suites, PodStarts(s) \/ PodTerminates(s)
  PROVE  IInv'
<1> USE DEF PodStarts, PodTerminates, mainVars, channels, tasks, envs, IInv
<1>1. TypeOK'
  <2>1. /\ pods' \in [Suites -> {"none", "pending", "running", "terminated"}]
        /\ podCode' \in [Suites -> ExitCodes \cup {0}]
    BY DEF TypeOK
  <2>2. UNCHANGED <<mainVars, task, failed, status, env, podEnv, clusters, undeleted, faults>>
    OBVIOUS
  <2> QED
    BY <2>1, <2>2 DEF TypeOK
<1>2. PodInv'
  BY DEF PodInv, TypeOK
<1>3. MainInv' /\ CountInv' /\ ErrorsInv' /\ CodesInv' /\ CloserInv'
  <2>1. UNCHANGED <<main, iteration, err, exit, closer, errChan, codeChan, closed, task, failed, status>>
    OBVIOUS
  <2>2. MainInv' /\ CloserInv'
    BY <2>1 DEF MainInv, CloserInv, Returned, FailureReported, AllSuitesPassed, WaitGroup,
                MoreIterations, Running
  <2>3. CountInv' /\ ErrorsInv' /\ CodesInv'
    BY <2>1 DEF CountInv, ErrorsInv, CodesInv, Done, Returned, FailureReported
  <2> QED
    BY <2>2, <2>3
<1>4. ClusterInv' /\ OneIterationAtATime'
  BY DEF ClusterInv, OneIterationAtATime
<1> QED
  BY <1>1, <1>2, <1>3, <1>4

LEMMA InductiveInvariant == IInv /\ [Next]_vars => IInv'
<1> SUFFICES ASSUME IInv, [Next]_vars PROVE IInv'
  OBVIOUS
<1>1. CASE UNCHANGED vars
  BY <1>1 DEF vars, channels, tasks, envs, cluster, IInv, TypeOK, MainInv, CountInv, ErrorsInv,
              CodesInv, CloserInv, PodInv, ClusterInv, OneIterationAtATime, Done, Returned,
              FailureReported, AllSuitesPassed, WaitGroup, MoreIterations, Running
<1>2. CASE MainStep
  BY <1>2, StartIterationKeeps, RangeErrorsKeeps, RangeCodesKeeps, ControlKeeps DEF MainStep
<1>3. CASE Close \/ ConcurrentMapAccess
  BY <1>3, ControlKeeps
<1>4. ASSUME NEW s \in Suites, TaskStep(s) \/ (Running /\ FailCall(s)) PROVE IInv'
  BY <1>4, CallKeeps, TearDownKeeps, ReportKeeps DEF TaskStep
<1>5. ASSUME NEW s \in Suites, PodStarts(s) \/ PodTerminates(s) PROVE IInv'
  BY <1>5, PodKeeps
<1> QED
  BY <1>1, <1>2, <1>3, <1>4, <1>5 DEF Next

LEMMA Invariance == Spec => []IInv
BY InitIInv, InductiveInvariant, PTL DEF Spec

(* The coordinator's state keeps its type; the buffers of the two channels *)
(* never hold more than one report of each suite (runWorkers makes them    *)
(* for as many).                                                           *)
THEOREM TypeCorrect == Spec => []TypeOK
<1>1. IInv => TypeOK
  BY DEF IInv
<1> QED
  BY <1>1, Invariance, PTL

(* No goroutine of a suite reports on a channel that the closer has closed *)
(* (runWorkers).                                                           *)
THEOREM SendsBeforeClose == Spec => []NoSendOnClosed
<1>1. IInv => NoSendOnClosed
  BY DEF IInv, CloserInv, WaitGroup, NoSendOnClosed
<1> QED
  BY <1>1, Invariance, PTL

(* When an iteration starts, no cluster of the one before exists but those *)
(* whose Delete failed (Coordinator.Run, WorkerTask.Run).                  *)
THEOREM IterationsApart == Spec => []OneIterationAtATime
<1>1. IInv => OneIterationAtATime
  BY DEF IInv
<1> QED
  BY <1>1, Invariance, PTL

(* A process that exits with a verdict leaves no cluster that it could     *)
(* delete: all tasks are past tearDown then (runWorkers, Main).            *)
THEOREM VerdictCleansUp == Spec => []VerdictLeavesNoCluster
<1>1. IInv => VerdictLeavesNoCluster
  <2> SUFFICES ASSUME IInv, main = "exited", ~err, NEW c \in clusters
               PROVE  c \in undeleted
    BY DEF VerdictLeavesNoCluster
  <2> USE DEF IInv
  <2>1. c \in Nat \X Suites /\ c[1] <= iteration /\ iteration \in Nat
    BY DEF TypeOK, ClusterInv
  <2>2. CASE c[1] < iteration
    BY <2>2 DEF OneIterationAtATime
  <2>3. CASE c[1] = iteration
    <3>1. PICK s \in Suites : c = <<iteration, s>>
      BY <2>1, <2>3
    <3> QED
      BY <3>1 DEF MainInv, WaitGroup, ClusterInv
  <2> QED
    BY <2>1, <2>2, <2>3
<1> QED
  BY <1>1, Invariance, PTL

(* Every task has deleted its cluster, if it could, when the next          *)
(* iteration begins and when the process exits with a verdict (runWorkers).*)
THEOREM ClustersDoNotPileUp == Spec => []ClustersAreDeleted
BY IterationsApart, VerdictCleansUp, PTL DEF ClustersAreDeleted

-----------------------------------------------------------------------------
(* The verdict of the suites, seen as SuiteVerdict sees them.              *)
Errored == {s \in failed : task[s] = "done"}
Code == [s \in Suites |-> IF task[s] = "done" /\ s \notin failed THEN podCode[s] ELSE 0]

LEMMA VerdictInit == Init => SV!Init
BY DEF Init, SV!Init, NotExited, SV!NotExited

(* A step that reports for no suite and leaves the codes of those that     *)
(* returned alone changes nothing of what SuiteVerdict sees of them.       *)
LEMMA VerdictStays ==
  ASSUME IInv, \A s \in Suites : task'[s] = "done" <=> task[s] = "done",
         failed' \subseteq Suites,
         \A s \in Suites : task[s] = "done" => (s \in failed' <=> s \in failed),
         \A s \in Suites : Returned(s) => podCode'[s] = podCode[s]
  PROVE  Done' = Done /\ Errored' = Errored /\ Code' = Code
<1>1. Done' = Done
  BY DEF Done
<1>2. Errored' = Errored
  BY DEF Errored, IInv, TypeOK
<1>3. Code' = Code
  BY DEF Code, Returned
<1> QED
  BY <1>1, <1>2, <1>3

(* What the main goroutine knows when all suites have passed.              *)
LEMMA PassedIsPassed ==
  ASSUME IInv
  PROVE  /\ AllSuitesPassed => SV!AllPassed
         /\ MoreIterations <=> SV!MoreRounds
         /\ FailureReported <=> Errored # {}
<1>1. AllSuitesPassed => SV!AllPassed
  <2> SUFFICES ASSUME AllSuitesPassed PROVE SV!AllPassed
    OBVIOUS
  <2>1. Done = Suites /\ Errored = {}
    BY DEF AllSuitesPassed, Returned, Done, Errored, IInv, TypeOK
  <2>2. \A s \in Suites : Code[s] = 0
    BY DEF AllSuitesPassed, Returned, Code, IInv, PodInv
  <2> QED
    BY <2>1, <2>2 DEF SV!AllPassed, Done, Errored, Code
<1>2. MoreIterations <=> SV!MoreRounds
  BY DEF MoreIterations, SV!MoreRounds
<1>3. FailureReported <=> Errored # {}
  BY DEF FailureReported, Errored
<1> QED
  BY <1>1, <1>2, <1>3

(* Apart from what a task reports and the main goroutine decides, the      *)
(* steps of the coordinator and of the pods are invisible.                 *)
LEMMA TaskRefines ==
  ASSUME IInv, NEW s \in Suites,
         \/ TaskStep(s) /\ ~Report(s)
         \/ FailCall(s) \/ PodStarts(s) \/ PodTerminates(s)
  PROVE  UNCHANGED SV!verdictVars
<1> USE DEF mainVars, envs, cluster, IInv
<1>1. iteration' = iteration /\ exit' = exit
  BY DEF TaskStep, CreateCluster, ToEnv, SetNamespace, CreateTestJob, AwaitTestJobRunning, GetPod,
         StreamLogs, GetStatus, TearDown, FailCall, PodStarts, PodTerminates
<1>2. /\ \/ task' = task
         \/ task[s] # "done" /\ \E call \in TaskCalls \cup {"report"} : Goto(s, call)
      /\ failed' = failed \/ (task[s] # "done" /\ failed' = failed \cup {s})
  <2> USE DEF TaskCalls, ApiCalls, EnvAccess, Awaiting, Abandon
  <2>1. CASE CreateCluster(s) \/ ToEnv(s) \/ SetNamespace(s) \/ CreateTestJob(s)
    BY <2>1 DEF CreateCluster, ToEnv, SetNamespace, CreateTestJob
  <2>2. CASE AwaitTestJobRunning(s)
    <3>1. (IF task[s] = "startTest" THEN "start" ELSE "getPod") \in TaskCalls
      OBVIOUS
    <3> QED
      BY <2>2, <3>1 DEF AwaitTestJobRunning
  <2>3. CASE GetPod(s) \/ StreamLogs(s) \/ GetStatus(s)
    BY <2>3 DEF GetPod, StreamLogs, GetStatus
  <2>4. CASE TearDown(s)
    BY <2>4 DEF TearDown
  <2>5. CASE FailCall(s)
    BY <2>5 DEF FailCall
  <2>6. CASE PodStarts(s) \/ PodTerminates(s)
    BY <2>6 DEF PodStarts, PodTerminates, tasks
  <2> QED
    BY <2>1, <2>2, <2>3, <2>4, <2>5, <2>6 DEF TaskStep
<1>3. \A t \in Suites : task'[t] = "done" <=> task[t] = "done"
  BY <1>2 DEF Goto, TypeOK, TaskCalls, ApiCalls, EnvAccess
<1>4. failed' \subseteq Suites
  BY <1>2 DEF TypeOK
<1>5. podCode' = podCode \/ PodTerminates(s)
  BY DEF TaskStep, CreateCluster, ToEnv, SetNamespace, CreateTestJob, AwaitTestJobRunning, GetPod,
         StreamLogs, GetStatus, TearDown, FailCall, PodStarts
<1>6. \A t \in Suites : Returned(t) => podCode'[t] = podCode[t]
  BY <1>5 DEF Returned, PodInv, PodTerminates, TypeOK
<1>7. Done' = Done /\ Errored' = Errored /\ Code' = Code
  BY <1>2, <1>3, <1>4, <1>6, VerdictStays
<1> QED
  BY <1>1, <1>7 DEF SV!verdictVars, Done, Errored, Code

LEMMA ReportRefines ==
  ASSUME IInv, Running, NEW s \in Suites, Report(s)
  PROVE  SV!Next
<1> USE DEF Report, IInv, envs, cluster
<1>1. \A t \in Suites : task'[t] = IF t = s THEN "done" ELSE task[t]
  BY DEF Goto, TypeOK
<1>2. Done' = Done \cup {s} /\ s \in Suites \ Done
  BY <1>1 DEF Done
<1>3. CASE s \in failed
  <2>1. Errored' = Errored \cup {s} /\ Code' = Code
    BY <1>1, <1>3 DEF Errored, Code, TypeOK
  <2>2. SV!ReturnError(s)
    BY <1>2, <2>1 DEF SV!ReturnError, Done, Errored, Code
  <2> QED
    BY <2>2 DEF SV!Next, Running, NotExited, SV!NotExited
<1>4. CASE s \notin failed
  <2>1. podCode[s] \in ExitCodes \cup {0}
    BY DEF TypeOK
  <2>2. Errored' = Errored /\ Code' = [Code EXCEPT ![s] = podCode[s]]
    BY <1>1, <1>4 DEF Errored, Code, TypeOK
  <2>3. SV!ReturnCode(s)
    BY <1>2, <2>1, <2>2 DEF SV!ReturnCode, Done, Errored, Code
  <2> QED
    BY <2>3 DEF SV!Next, Running, NotExited, SV!NotExited
<1> QED
  BY <1>3, <1>4

LEMMA MainRefines ==
  ASSUME IInv, MainStep \/ Close \/ ConcurrentMapAccess
  PROVE  [SV!Next]_(SV!verdictVars)
<1> USE DEF IInv, envs, cluster
<1>1. /\ AllSuitesPassed => SV!AllPassed
      /\ MoreIterations <=> SV!MoreRounds
      /\ FailureReported <=> Errored # {}
  BY PassedIsPassed
<1>2. Running => exit = SV!NotExited
  BY DEF Running, NotExited, SV!NotExited
<1>3. CASE main' = "rangeErrors" /\ StartIteration
  <2>1. Done' = {} /\ Errored' = {} /\ Code' = [t \in Suites |-> 0]
    BY <1>3 DEF StartIteration, Done, Errored, Code
  <2>2. Errored = {} /\ Code = [t \in Suites |-> 0] /\ SV!AllPassed /\ SV!MoreRounds
    BY <1>1, <1>3 DEF StartIteration, MainInv, AllSuitesPassed, Returned, PodInv, Errored, Code, TypeOK
  <2>3. SV!StartRound
    BY <1>3, <2>1, <2>2 DEF StartIteration, SV!StartRound, Done, Errored, Code
  <2> QED
    BY <1>2, <1>3, <2>3 DEF SV!Next, StartIteration
<1>4. CASE /\ UNCHANGED <<iteration, task, failed, podCode>>
           /\ \/ exit' = exit
              \/ MainExit
              \/ ConcurrentMapAccess
              \/ RangeCodes /\ codeChan # <<>> /\ Head(codeChan) # 0
  <2>1. Done' = Done /\ Errored' = Errored /\ Code' = Code /\ iteration' = iteration
    BY <1>4 DEF Done, Errored, Code
  <2>2. CASE MainExit
    <3>1. CASE err
      <4>1. SV!ExitError
        BY <1>1, <2>1, <2>2, <3>1 DEF MainExit, MainInv, SV!ExitError, Done, Errored, Code, SV!ErrorCode
      <4> QED
        BY <1>2, <2>2, <4>1 DEF SV!Next, MainExit
    <3>2. CASE ~err
      <4>1. SV!ExitSuccess
        BY <1>1, <2>1, <2>2, <3>2 DEF MainExit, MainInv, SV!ExitSuccess, Done, Errored, Code
      <4> QED
        BY <1>2, <2>2, <4>1 DEF SV!Next, MainExit
    <3> QED
      BY <3>1, <3>2
  <2>3. CASE ConcurrentMapAccess
    <3>1. SV!Crash
      BY <2>1, <2>3 DEF ConcurrentMapAccess, SV!Crash, Done, Errored, Code, CrashCode, SV!CrashCode
    <3> QED
      BY <1>2, <2>3, <3>1 DEF SV!Next, ConcurrentMapAccess
  <2>4. CASE RangeCodes /\ codeChan # <<>> /\ Head(codeChan) # 0
    <3> USE <2>4 DEF RangeCodes
    <3>1. Len(codeChan) \in Nat /\ 1 \in 1 .. Len(codeChan) /\ Head(codeChan) = codeChan[1]
      BY DEF TypeOK
    <3>2. PICK s \in Suites : Returned(s) /\ status[s] = codeChan[1]
      BY <3>1 DEF CodesInv
    <3>3. Code[s] = Head(codeChan) /\ exit' = Head(codeChan)
      BY <3>1, <3>2 DEF Code, Returned, PodInv
    <3>4. Done = Suites /\ Errored = {}
      BY DEF MainInv, WaitGroup, Done, Errored
    <3>5. SV!ExitCode(s)
      BY <2>1, <3>3, <3>4 DEF SV!ExitCode, Done, Errored, Code
    <3> QED
      BY <1>2, <3>5 DEF SV!Next
  <2>5. CASE exit' = exit
    BY <2>1, <2>5 DEF SV!verdictVars, Done, Errored, Code
  <2> QED
    BY <1>4, <2>2, <2>3, <2>4, <2>5
<1> QED
  BY <1>3, <1>4 DEF MainStep, StartIteration, EndIterations, RangeErrors, RangeCodes, MainExit, Close,
                    ConcurrentMapAccess, tasks

(* The coordinator exits as SuiteVerdict promises, judged by what the pods *)
(* returned: with 0 only after every suite of every iteration has passed,  *)
(* with the code of a suite only once all have returned, with 1 only when  *)
(* a suite is in error or an iteration cannot start (runWorkers, Main).    *)
THEOREM Refinement == Spec => ImplementsSuiteVerdict
<1>1. IInv /\ [Next]_vars => [SV!Next]_(SV!verdictVars)
  <2> SUFFICES ASSUME IInv, [Next]_vars PROVE [SV!Next]_(SV!verdictVars)
    OBVIOUS
  <2>1. CASE UNCHANGED vars
    <3>1. UNCHANGED <<iteration, exit, task, failed, podCode>>
      BY <2>1 DEF vars, tasks, cluster
    <3>2. Done' = Done /\ Errored' = Errored /\ Code' = Code
      BY <3>1 DEF Done, Errored, Code
    <3> QED
      BY <3>1, <3>2 DEF SV!verdictVars, Done, Errored, Code
  <2>2. CASE MainStep \/ Close \/ ConcurrentMapAccess
    BY <2>2, MainRefines
  <2>3. ASSUME NEW s \in Suites,
               \/ TaskStep(s) \/ (Running /\ FailCall(s))
               \/ PodStarts(s) \/ PodTerminates(s)
        PROVE  [SV!Next]_(SV!verdictVars)
    <3>1. CASE Report(s) /\ TaskStep(s)
      BY <3>1, ReportRefines DEF TaskStep
    <3> QED
      BY <2>3, <3>1, TaskRefines
  <2> QED
    BY <2>1, <2>2, <2>3 DEF Next
<1> QED
  BY <1>1, Invariance, VerdictInit, PTL DEF Spec, ImplementsSuiteVerdict, SV!Spec

-----------------------------------------------------------------------------
(* While main reads a channel, the closer has closed it or still will.     *)
ChannelInv ==
  main \in {"rangeErrors", "rangeCodes"} =>
    /\ closer # "wait" => "errors" \in closed
    /\ closer = "done" => "codes" \in closed

(* A task that looks for its pod has made it, and one that reads its log   *)
(* has seen it run.                                                        *)
SeenInv ==
  \A s \in Suites :
    /\ task[s] \in Awaiting \cup {"getPod"} => pods[s] # "none"
    /\ task[s] \in {"streamLogs", "getStatus"} => pods[s] \in {"running", "terminated"}

IterationsInv == Iterations >= 0 => iteration <= Iterations

ProgressInv == ChannelInv /\ SeenInv /\ IterationsInv

(* A task or its pod goes from call c and pod state p to d and q.          *)
CallMade(c, p, d, q) ==
  \/ c = "createCluster" /\ d = "toEnv" /\ q = p
  \/ c = "toEnv" /\ d = "setNamespace" /\ q = p
  \/ c = "setNamespace" /\ d = "createTestJob" /\ q = p
  \/ c = "createTestJob" /\ d = "startTest" /\ q = "pending"
  \/ c = "startTest" /\ d = "start" /\ p = "running" /\ q = p
  \/ c = "start" /\ d = "getPod" /\ p = "running" /\ q = p
  \/ c = "getPod" /\ d = "streamLogs" /\ p = "running" /\ q = p
  \/ c = "streamLogs" /\ d = "getStatus" /\ q = p
  \/ c \in ApiCalls \ {"tearDown"} /\ d = "tearDown" /\ q = p
  \/ c = "tearDown" /\ d = "report" /\ q \in {p, "none"}
  \/ c = "report" /\ d = "done" /\ q = p
PodMoved(c, p, d, q) ==
  /\ d = c
  /\ \/ p = "pending" /\ q = "running"
     \/ p = "running" /\ q = "terminated"

SuiteStep(s) ==
  TaskStep(s) \/ (Running /\ FailCall(s)) \/ PodStarts(s) \/ PodTerminates(s)

SuiteMoves(s, c, p) ==
  /\ task' = [task EXCEPT ![s] = c]
  /\ pods' = [pods EXCEPT ![s] = p]
  /\ CallMade(task[s], pods[s], c, p) \/ PodMoved(task[s], pods[s], c, p)

LEMMA SuiteGoesOn ==
  ASSUME IInv, NEW s \in Suites, SuiteStep(s)
  PROVE  \E c, p : SuiteMoves(s, c, p)
<1>1. task = [task EXCEPT ![s] = task[s]] /\ pods = [pods EXCEPT ![s] = pods[s]]
  BY DEF IInv, TypeOK
<1> USE DEF mainVars, envs, cluster, tasks, Goto, Abandon
<1>2. CASE CreateCluster(s)
  <2>1. SuiteMoves(s, "toEnv", pods[s])
    BY <1>1, <1>2 DEF CreateCluster, SuiteMoves, CallMade
  <2> QED
    BY <2>1
<1>3. CASE ToEnv(s)
  <2>1. SuiteMoves(s, "setNamespace", pods[s])
    BY <1>1, <1>3 DEF ToEnv, SuiteMoves, CallMade
  <2> QED
    BY <2>1
<1>4. CASE SetNamespace(s)
  <2>1. SuiteMoves(s, "createTestJob", pods[s])
    BY <1>1, <1>4 DEF SetNamespace, SuiteMoves, CallMade
  <2> QED
    BY <2>1
<1>5. CASE CreateTestJob(s)
  <2>1. SuiteMoves(s, "startTest", "pending")
    BY <1>5 DEF CreateTestJob, SuiteMoves, CallMade
  <2> QED
    BY <2>1
<1>6. CASE AwaitTestJobRunning(s)
  <2>1. SuiteMoves(s, IF task[s] = "startTest" THEN "start" ELSE "getPod", pods[s])
    BY <1>1, <1>6 DEF AwaitTestJobRunning, Awaiting, SuiteMoves, CallMade
  <2> QED
    BY <2>1
<1>7. CASE GetPod(s)
  <2>1. SuiteMoves(s, "streamLogs", pods[s]) \/ SuiteMoves(s, "tearDown", pods[s])
    BY <1>1, <1>7 DEF GetPod, ApiCalls, SuiteMoves, CallMade
  <2> QED
    BY <2>1
<1>8. CASE StreamLogs(s)
  <2>1. SuiteMoves(s, "getStatus", pods[s])
    BY <1>1, <1>8 DEF StreamLogs, SuiteMoves, CallMade
  <2> QED
    BY <2>1
<1>9. CASE GetStatus(s)
  <2>1. SuiteMoves(s, "tearDown", pods[s])
    BY <1>1, <1>9 DEF GetStatus, ApiCalls, SuiteMoves, CallMade
  <2> QED
    BY <2>1
<1>10. CASE TearDown(s)
  <2>1. SuiteMoves(s, "report", "none") \/ SuiteMoves(s, "report", pods[s])
    BY <1>1, <1>10 DEF TearDown, SuiteMoves, CallMade
  <2> QED
    BY <2>1
<1>11. CASE Report(s)
  <2>1. SuiteMoves(s, "done", pods[s])
    BY <1>1, <1>11 DEF Report, SuiteMoves, CallMade
  <2> QED
    BY <2>1
<1>12. CASE FailCall(s)
  <2>1. SuiteMoves(s, "tearDown", pods[s])
    BY <1>1, <1>12 DEF FailCall, SuiteMoves, CallMade
  <2> QED
    BY <2>1
<1>13. CASE PodStarts(s)
  <2>1. SuiteMoves(s, task[s], "running")
    BY <1>1, <1>13 DEF PodStarts, SuiteMoves, PodMoved
  <2> QED
    BY <2>1
<1>14. CASE PodTerminates(s)
  <2>1. SuiteMoves(s, task[s], "terminated")
    BY <1>1, <1>14 DEF PodTerminates, SuiteMoves, PodMoved
  <2> QED
    BY <2>1
<1> QED
  BY <1>2, <1>3, <1>4, <1>5, <1>6, <1>7, <1>8, <1>9, <1>10, <1>11, <1>12, <1>13, <1>14
  DEF SuiteStep, TaskStep

LEMMA SuiteLeavesMain ==
  ASSUME NEW s \in Suites, SuiteStep(s)
  PROVE  /\ UNCHANGED <<main, iteration, closer, closed, exit>>
         /\ Report(s) \/ UNCHANGED codeChan
BY DEF SuiteStep, TaskStep, CreateCluster, ToEnv, SetNamespace, CreateTestJob, AwaitTestJobRunning,
       GetPod, StreamLogs, GetStatus, TearDown, Report, FailCall, PodStarts, PodTerminates,
       mainVars, channels

LEMMA ProgressInductive ==
  ASSUME IInv, ProgressInv, [Next]_vars
  PROVE  ProgressInv'
<1> USE DEF ProgressInv
<1>1. CASE UNCHANGED vars
  BY <1>1 DEF vars, channels, tasks, cluster, ChannelInv, SeenInv, IterationsInv
<1>2. CASE StartIteration
  <2>1. ASSUME main' = "rangeErrors"
        PROVE  ChannelInv' /\ SeenInv'
    <3>1. closer' = "wait" /\ task' = [s \in Suites |-> "createCluster"]
      BY <1>2, <2>1 DEF StartIteration
    <3> QED
      BY <3>1 DEF ChannelInv, SeenInv, Awaiting
  <2>2. ASSUME main' # "rangeErrors"
        PROVE  ChannelInv' /\ SeenInv'
    BY <1>2, <2>2 DEF StartIteration, tasks, ChannelInv, SeenInv
  <2>3. IterationsInv'
    <3>1. iteration' = iteration \/ (iteration' = iteration + 1 /\ MoreIterations)
      BY <1>2 DEF StartIteration
    <3> QED
      BY <3>1, NumbersAssumption DEF IterationsInv, MoreIterations, IInv, TypeOK
  <2> QED
    BY <2>1, <2>2, <2>3
<1>3. CASE EndIterations \/ RangeErrors \/ RangeCodes \/ MainExit \/ ConcurrentMapAccess
  <2>1. UNCHANGED <<iteration, closer, closed, task, pods>>
        /\ (main' \in {"rangeErrors", "rangeCodes"} => main \in {"rangeErrors", "rangeCodes"})
    BY <1>3 DEF EndIterations, RangeErrors, RangeCodes, MainExit, ConcurrentMapAccess,
                channels, tasks, cluster
  <2> QED
    BY <2>1 DEF ChannelInv, SeenInv, IterationsInv
<1>4. CASE Close
  BY <1>4 DEF Close, tasks, cluster, ChannelInv, SeenInv, IterationsInv
<1>5. ASSUME NEW s \in Suites, SuiteStep(s)
      PROVE  ProgressInv'
  <2>1. ChannelInv' /\ IterationsInv'
    BY <1>5, SuiteLeavesMain DEF ChannelInv, IterationsInv
  <2>2. PICK c, p : SuiteMoves(s, c, p)
    BY <1>5, SuiteGoesOn
  <2>3. \A t \in Suites : /\ task'[t] = IF t = s THEN c ELSE task[t]
                          /\ pods'[t] = IF t = s THEN p ELSE pods[t]
    BY <2>2 DEF SuiteMoves, IInv, TypeOK
  <2>4. /\ c \in Awaiting \cup {"getPod"} => p # "none"
        /\ c \in {"streamLogs", "getStatus"} => p \in {"running", "terminated"}
    BY <2>2 DEF SuiteMoves, CallMade, PodMoved, SeenInv, Awaiting
  <2>5. SeenInv'
    BY <2>3, <2>4 DEF SeenInv
  <2> QED
    BY <2>1, <2>5
<1> QED
  BY <1>1, <1>2, <1>3, <1>4, <1>5 DEF Next, MainStep, SuiteStep

LEMMA FullInvariance == Spec => [](IInv /\ ProgressInv)
<1>1. Init => ProgressInv
  BY NumbersAssumption DEF Init, ProgressInv, ChannelInv, SeenInv, IterationsInv, Awaiting
<1>2. IInv /\ ProgressInv /\ [Next]_vars => ProgressInv'
  BY ProgressInductive
<1> QED
  BY <1>1, <1>2, Invariance, PTL DEF Spec

(* Main, closer and tasks never all wait for each other (runWorkers), but  *)
(* a task may wait for a pod that has been ready before it looked.         *)
THEOREM NoDeadlock == Spec => []NeverStuck
<1>1. IInv /\ ProgressInv => NeverStuck
  <2> SUFFICES ASSUME IInv, ProgressInv, Running, ~MainCanRun, ~CloserCanRun,
                      \A s \in Suites : ~TaskCanRun(s) /\ ~PodCanMove(s) /\ ~MissedReady(s)
               PROVE  FALSE
    BY DEF NeverStuck
  <2>1. main \in {"rangeErrors", "rangeCodes"}
    BY DEF MainCanRun, IInv, MainInv, TypeOK
  <2>2. closer = "wait"
    <3>1. "errors" \notin closed \/ "codes" \notin closed
      BY <2>1 DEF MainCanRun, IInv, TypeOK
    <3> QED
      BY <2>1, <3>1 DEF ProgressInv, ChannelInv, CloserCanRun, IInv, TypeOK
  <2>3. PICK s \in Suites : task[s] # "done"
    BY <2>2 DEF CloserCanRun, WaitGroup
  <2>4. task[s] \in Awaiting \cup {"getStatus"}
    BY <2>3 DEF TaskCanRun, IInv, TypeOK, TaskCalls, ApiCalls, EnvAccess, Awaiting
  <2>5. pods[s] \in {"none", "terminated"}
    BY DEF PodCanMove, IInv, TypeOK
  <2> QED
    BY <2>4, <2>5 DEF TaskCanRun, MissedReady, ProgressInv, SeenInv
<1> QED
  BY <1>1, FullInvariance, PTL

-----------------------------------------------------------------------------
(* The steps left are those of the iterations that follow, of main and the *)
(* closer, of main for the codes, and of the tasks with their pods.        *)
OfIterations == (Iterations - iteration) * IterationSteps
OfMain == MainLeft[main] + CloserLeft[closer]
OfSuites == Cardinality(SuiteSteps)

LEMMA TaskLeftIs ==
  /\ TaskLeft["createCluster"] = 14 /\ TaskLeft["toEnv"] = 13
  /\ TaskLeft["setNamespace"] = 12 /\ TaskLeft["createTestJob"] = 11
  /\ TaskLeft["startTest"] = 8 /\ TaskLeft["start"] = 7 /\ TaskLeft["getPod"] = 6
  /\ TaskLeft["streamLogs"] = 5 /\ TaskLeft["getStatus"] = 4 /\ TaskLeft["tearDown"] = 3
  /\ TaskLeft["report"] = 2 /\ TaskLeft["done"] = 0
BY DEF TaskLeft

LEMMA PodLeftIs ==
  /\ PodLeft["none"] = 0 /\ PodLeft["pending"] = 2
  /\ PodLeft["running"] = 1 /\ PodLeft["terminated"] = 0
BY DEF PodLeft

LEMMA MainLeftIs ==
  /\ MainLeft["forIterations"] = 3 /\ MainLeft["rangeErrors"] = 5 /\ MainLeft["rangeCodes"] = 4
  /\ MainLeft["returned"] = 1 /\ MainLeft["exited"] = 0 /\ MainLeft["crashed"] = 0
  /\ CloserLeft["wait"] = 2 /\ CloserLeft["closeCodes"] = 1 /\ CloserLeft["done"] = 0
BY DEF MainLeft, CloserLeft

LEMMA SuitesCounted ==
  /\ Cardinality(Suites \X (1 .. 16)) \in Nat
  /\ IsFiniteSet(SuiteSteps) /\ OfSuites \in 0 .. Cardinality(Suites \X (1 .. 16))
  /\ IsFiniteSet(SuiteSteps') /\ OfSuites' \in 0 .. Cardinality(Suites \X (1 .. 16))
<1>1. IsFiniteSet(Suites \X (1 .. 16))
  <2>1. IsFiniteSet(1 .. 16)
    <3>1. 1 \in Int /\ 16 \in Int
      OBVIOUS
    <3> QED
      BY <3>1, FS_Interval
  <2> QED
    BY <2>1, SuitesAssumption, FS_Product
<1>2. Cardinality(Suites \X (1 .. 16)) \in Nat
  BY <1>1, FS_CardinalityType
<1>3. ASSUME NEW P \in SUBSET (Suites \X (1 .. 16))
      PROVE  IsFiniteSet(P) /\ Cardinality(P) \in 0 .. Cardinality(Suites \X (1 .. 16))
  <2>1. IsFiniteSet(P) /\ Cardinality(P) <= Cardinality(Suites \X (1 .. 16))
    BY <1>1, FS_Subset
  <2> QED
    BY <1>2, <2>1, FS_CardinalityType
<1>4. SuiteSteps \in SUBSET (Suites \X (1 .. 16)) /\ SuiteSteps' \in SUBSET (Suites \X (1 .. 16))
  BY DEF SuiteSteps
<1> QED
  BY <1>2, <1>3, <1>4 DEF OfSuites

(* A call, also one that makes a pod, and a move of a pod are steps less.  *)
LEMMA MoveCounts ==
  ASSUME NEW c \in TaskCalls \cup {"report", "done"},
         NEW p \in {"none", "pending", "running", "terminated"},
         NEW d, NEW q, CallMade(c, p, d, q) \/ PodMoved(c, p, d, q)
  PROVE  /\ TaskLeft[c] + PodLeft[p] \in 1 .. 16
         /\ TaskLeft[d] + PodLeft[q] \in 0 .. 16
         /\ TaskLeft[d] + PodLeft[q] < TaskLeft[c] + PodLeft[p]
         /\ d = "done" /\ c # "done" =>
              TaskLeft[d] + PodLeft[q] < (TaskLeft[c] + PodLeft[p]) - 1
<1>1. /\ TaskLeft[c] \in 0 .. 14 /\ PodLeft[p] \in 0 .. 2
  BY TaskLeftIs, PodLeftIs DEF TaskCalls, ApiCalls, EnvAccess
<1>2. CASE PodMoved(c, p, d, q)
  BY <1>1, <1>2, PodLeftIs DEF PodMoved
<1>3. CASE CallMade(c, p, d, q)
  <2>1. PodLeft[q] \in 0 .. 2 /\ (q = "pending" \/ PodLeft[q] <= PodLeft[p])
    BY <1>1, <1>3, PodLeftIs DEF CallMade
  <2>2. /\ TaskLeft[d] \in 0 .. 13 /\ TaskLeft[d] < TaskLeft[c]
        /\ c = "createTestJob" /\ q = "pending" => TaskLeft[d] < TaskLeft[c] - 2
        /\ d = "done" => TaskLeft[d] < TaskLeft[c] - 1
    BY <1>1, <1>3, TaskLeftIs DEF CallMade, ApiCalls
  <2>3. q = p \/ q = "none" \/ (c = "createTestJob" /\ q = "pending")
    BY <1>3 DEF CallMade
  <2>4. CASE q = p \/ q = "none"
    <3>1. PodLeft[q] <= PodLeft[p]
      BY <1>1, <2>4, PodLeftIs
    <3> QED
      BY <1>1, <2>1, <2>2, <3>1
  <2>5. CASE c = "createTestJob" /\ q = "pending"
    <3>1. PodLeft[q] = 2 /\ d # "done"
      BY <1>3, <2>5, PodLeftIs DEF CallMade
    <3> QED
      BY <1>1, <2>2, <2>5, <3>1
  <2> QED
    BY <2>3, <2>4, <2>5
<1> QED
  BY <1>2, <1>3

LEMMA SuiteLess ==
  ASSUME IInv, NEW s \in Suites, NEW c, NEW p, SuiteMoves(s, c, p)
  PROVE  /\ OfSuites' < OfSuites
         /\ task[s] = "report" /\ c = "done" => OfSuites' < OfSuites - 1
<1> DEFINE x == <<s, SuiteLeft(s)>>
           y == <<s, SuiteLeft(s) - 1>>
<1>1. \A t \in Suites : /\ task'[t] = IF t = s THEN c ELSE task[t]
                        /\ pods'[t] = IF t = s THEN p ELSE pods[t]
  <2>1. /\ task \in [Suites -> TaskCalls \cup {"report", "done"}]
        /\ pods \in [Suites -> {"none", "pending", "running", "terminated"}]
    BY DEF IInv, TypeOK
  <2>2. task' = [task EXCEPT ![s] = c] /\ pods' = [pods EXCEPT ![s] = p]
    BY DEF SuiteMoves
  <2> QED
    BY <2>1, <2>2
<1>2. /\ task[s] \in TaskCalls \cup {"report", "done"}
      /\ pods[s] \in {"none", "pending", "running", "terminated"}
  BY DEF IInv, TypeOK
<1>3. \A t \in Suites : SuiteLeft(t)' = IF t = s THEN TaskLeft[c] + PodLeft[p] ELSE SuiteLeft(t)
  <2>1. TaskLeft' = TaskLeft /\ PodLeft' = PodLeft
    BY DEF TaskLeft, PodLeft
  <2> QED
    BY <1>1, <2>1 DEF SuiteLeft
<1>4. /\ SuiteLeft(s) \in 1 .. 16 /\ SuiteLeft(s)' \in 0 .. 16 /\ SuiteLeft(s)' < SuiteLeft(s)
      /\ task[s] = "report" /\ c = "done" => SuiteLeft(s)' < SuiteLeft(s) - 1
  <2>1. CallMade(task[s], pods[s], c, p) \/ PodMoved(task[s], pods[s], c, p)
    BY DEF SuiteMoves
  <2>2. /\ TaskLeft[task[s]] + PodLeft[pods[s]] \in 1 .. 16
        /\ TaskLeft[c] + PodLeft[p] \in 0 .. 16
        /\ TaskLeft[c] + PodLeft[p] < TaskLeft[task[s]] + PodLeft[pods[s]]
        /\ c = "done" /\ task[s] # "done" =>
             TaskLeft[c] + PodLeft[p] < (TaskLeft[task[s]] + PodLeft[pods[s]]) - 1
    BY <1>2, <2>1, MoveCounts, Zenon
  <2>3. SuiteLeft(s) = TaskLeft[task[s]] + PodLeft[pods[s]]
        /\ SuiteLeft(s)' = TaskLeft[c] + PodLeft[p]
    BY <1>3 DEF SuiteLeft
  <2> QED
    BY <2>2, <2>3, Zenon
<1>5. x \in SuiteSteps /\ SuiteSteps' \subseteq SuiteSteps \ {x}
  <2>1. x \in SuiteSteps
    BY <1>4 DEF SuiteSteps
  <2>2. ASSUME NEW q \in SuiteSteps'
        PROVE  q \in SuiteSteps \ {x}
    <3>1. q \in Suites \X (1 .. 16) /\ q[2] <= SuiteLeft(q[1])'
      BY DEF SuiteSteps
    <3> QED
      BY <1>3, <1>4, <3>1 DEF SuiteSteps
  <2> QED
    BY <2>1, <2>2
<1>6. /\ IsFiniteSet(SuiteSteps \ {x}) /\ Cardinality(SuiteSteps \ {x}) = OfSuites - 1
      /\ OfSuites \in Nat /\ OfSuites' \in Nat
  BY <1>5, SuitesCounted, FS_RemoveElement DEF OfSuites
<1>7. OfSuites' <= OfSuites - 1
  BY <1>5, <1>6, FS_Subset DEF OfSuites
<1>8. ASSUME task[s] = "report", c = "done"
      PROVE  OfSuites' < OfSuites - 1
  <2>1. y \in SuiteSteps \ {x} /\ SuiteSteps' \subseteq (SuiteSteps \ {x}) \ {y}
    <3>1. SuiteLeft(s) - 1 \in 1 .. 16
      BY <1>4, <1>8
    <3>2. y \in SuiteSteps \ {x}
      BY <1>4, <3>1 DEF SuiteSteps
    <3>3. ASSUME NEW q \in SuiteSteps'
          PROVE  q # y
      <4>1. q \in Suites \X (1 .. 16) /\ q[2] <= SuiteLeft(q[1])'
        BY DEF SuiteSteps
      <4> QED
        BY <1>4, <1>8, <4>1
    <3> QED
      BY <1>5, <3>2, <3>3
  <2>2. IsFiniteSet((SuiteSteps \ {x}) \ {y})
        /\ Cardinality((SuiteSteps \ {x}) \ {y}) = OfSuites - 1 - 1
    BY <1>6, <2>1, FS_RemoveElement
  <2>3. OfSuites' <= OfSuites - 1 - 1
    BY <2>1, <2>2, FS_Subset DEF OfSuites
  <2> QED
    BY <1>6, <2>3
<1> QED
  BY <1>6, <1>7, <1>8

OneLess(i0, m0, c0, s0, i, m, c, s) ==
  \/ i = i0 /\ m < m0 /\ c <= c0 /\ s = s0
  \/ i = i0 /\ m <= m0 /\ c < c0 /\ s = s0
  \/ i = i0 /\ m = m0 /\ c = c0 /\ s < s0
  \/ i = i0 /\ m = m0 /\ c <= c0 + 1 /\ s < s0 - 1
  \/ i0 - i > 4 + s /\ m <= m0 + 4 /\ c <= c0

LEMMA LessInAll ==
  ASSUME NEW i0 \in Nat, NEW m0 \in Nat, NEW c0 \in Nat, NEW s0 \in Nat,
         NEW i \in Nat, NEW m \in Nat, NEW c \in Nat, NEW s \in Nat,
         OneLess(i0, m0, c0, s0, i, m, c, s)
  PROVE  i + m + c + s \in 0 .. (i0 + m0 + c0 + s0) - 1
BY DEF OneLess

PartsOK ==
  /\ OfIterations \in Nat /\ OfMain \in Nat /\ Len(codeChan) \in Nat /\ OfSuites \in Nat
  /\ StepsLeft = OfIterations + OfMain + Len(codeChan) + OfSuites

LEMMA NatTimes ==
  ASSUME NEW k \in Nat, NEW n \in Nat
  PROVE  k * n \in Nat /\ (k + 1) * n = k * n + n
OBVIOUS

LEMMA Parts ==
  ASSUME IInv, IterationsInv, Iterations >= 0
  PROVE  PartsOK
<1>1. OfIterations \in Nat
  <2>1. Iterations - iteration \in Nat /\ IterationSteps \in Nat
    BY SuitesCounted, NumbersAssumption DEF IterationsInv, IInv, TypeOK, IterationSteps
  <2> QED
    BY <2>1, NatTimes DEF OfIterations
<1>2. OfMain \in Nat
  <2>1. MainLeft[main] \in Nat /\ CloserLeft[closer] \in Nat
    BY MainLeftIs DEF IInv, TypeOK
  <2> QED
    BY <2>1 DEF OfMain
<1>3. Len(codeChan) \in Nat
  BY DEF IInv, TypeOK
<1>4. OfSuites \in Nat
  BY SuitesCounted
<1>5. StepsLeft = OfIterations + OfMain + Len(codeChan) + OfSuites
  <2>1. MainLeft[main] \in Nat /\ CloserLeft[closer] \in Nat
    BY MainLeftIs DEF IInv, TypeOK
  <2>2. StepsLeft = OfIterations + MainLeft[main] + CloserLeft[closer] + Len(codeChan) + OfSuites
    BY DEF StepsLeft, OfIterations, OfSuites
  <2> QED
    BY <1>1, <1>3, <1>4, <2>1, <2>2 DEF OfMain
<1> QED
  BY <1>1, <1>2, <1>3, <1>4, <1>5 DEF PartsOK

(* The steps of a suite and its pod.                                       *)
LEMMA SuiteStepsDown ==
  ASSUME IInv, PartsOK, PartsOK', NEW s \in Suites, SuiteStep(s)
  PROVE  /\ OfIterations' = OfIterations /\ OfMain' = OfMain
         /\ \/ Len(codeChan)' = Len(codeChan) /\ OfSuites' < OfSuites
            \/ Len(codeChan)' <= Len(codeChan) + 1 /\ OfSuites' < OfSuites - 1
<1>1. OfIterations' = OfIterations /\ OfMain' = OfMain
  BY SuiteLeavesMain DEF OfIterations, OfMain, IterationSteps, MainLeft, CloserLeft
<1>2. PICK c, p : SuiteMoves(s, c, p)
  BY SuiteGoesOn
<1>3. CASE UNCHANGED codeChan
  BY <1>1, <1>2, <1>3, SuiteLess
<1>4. CASE Report(s)
  <2>1. task[s] = "report" /\ task' = [task EXCEPT ![s] = "done"]
        /\ (codeChan' = codeChan \/ codeChan' = Append(codeChan, status[s]))
    BY <1>4 DEF Report, Goto
  <2>2. c = "done"
    BY <1>2, <2>1 DEF SuiteMoves, IInv, TypeOK
  <2>3. Len(codeChan)' <= Len(codeChan) + 1
    <3>1. codeChan \in Seq(ExitCodes \cup {0}) /\ status[s] \in ExitCodes \cup {0}
      BY DEF IInv, TypeOK
    <3> QED
      BY <2>1, <3>1
  <2> QED
    BY <1>1, <1>2, <2>1, <2>2, <2>3, SuiteLess
<1> QED
  BY <1>3, <1>4, SuiteLeavesMain

(* The steps of main, once an iteration runs, and of the closer.           *)
LEMMA MainStepsDown ==
  ASSUME IInv, PartsOK, PartsOK',
         \/ StartIteration /\ iteration' = iteration
         \/ EndIterations \/ RangeErrors \/ RangeCodes \/ MainExit \/ Close \/ ConcurrentMapAccess
  PROVE  /\ OfIterations' = OfIterations /\ OfSuites' = OfSuites
         /\ \/ OfMain' < OfMain /\ Len(codeChan)' <= Len(codeChan)
            \/ OfMain' <= OfMain /\ Len(codeChan)' < Len(codeChan)
<1>1. UNCHANGED <<iteration, task, pods>>
  BY DEF StartIteration, EndIterations, RangeErrors, RangeCodes, MainExit, Close,
         ConcurrentMapAccess, tasks, cluster, IInv, TypeOK
<1>2. OfIterations' = OfIterations
  BY <1>1 DEF OfIterations, IterationSteps
<1>3. OfSuites' = OfSuites
  BY <1>1 DEF OfSuites, SuiteSteps, SuiteLeft, TaskLeft, PodLeft
<1>4. MainLeft[main] \in Nat /\ CloserLeft[closer] \in Nat
  BY MainLeftIs DEF IInv, TypeOK
<1>5. OfMain = MainLeft[main] + CloserLeft[closer]
      /\ OfMain' = MainLeft[main'] + CloserLeft[closer']
  BY DEF OfMain, MainLeft, CloserLeft
<1>6. ASSUME closer' = closer, MainLeft[main'] \in Nat, MainLeft[main'] < MainLeft[main]
      PROVE  OfMain' < OfMain
  BY <1>4, <1>5, <1>6
<1>7. CASE StartIteration \/ EndIterations \/ RangeErrors \/ MainExit \/ ConcurrentMapAccess
  <2>1. closer' = closer /\ codeChan' = codeChan
        /\ \/ main = "forIterations" /\ main' = "returned"
           \/ main = "rangeErrors" /\ main' \in {"returned", "rangeCodes"}
           \/ main = "returned" /\ main' = "exited"
           \/ main \in {"forIterations", "rangeErrors", "rangeCodes", "returned"} /\ main' = "crashed"
    BY <1>1, <1>7 DEF StartIteration, EndIterations, RangeErrors, MainExit, ConcurrentMapAccess,
                      channels, IInv, TypeOK, MainInv
  <2>2. OfMain' < OfMain
    BY <1>6, <2>1, MainLeftIs
  <2>3. Len(codeChan)' <= Len(codeChan)
    BY <2>1 DEF PartsOK
  <2> QED
    BY <1>2, <1>3, <2>2, <2>3, Zenon
<1>8. CASE RangeCodes
  <2>1. closer' = closer /\ main = "rangeCodes"
    BY <1>8 DEF RangeCodes
  <2>2. CASE codeChan # <<>>
    <3>1. codeChan' = Tail(codeChan) /\ main' \in {"rangeCodes", "exited"}
      BY <1>8, <2>1, <2>2 DEF RangeCodes
    <3>2. Len(codeChan)' < Len(codeChan)
      BY <2>2, <3>1 DEF IInv, TypeOK
    <3>3. OfMain' <= OfMain
      BY <1>4, <1>5, <2>1, <3>1, MainLeftIs
    <3> QED
      BY <1>2, <1>3, <3>2, <3>3, Zenon
  <2>3. CASE codeChan = <<>>
    <3>1. codeChan' = codeChan /\ main' = "forIterations"
      BY <1>8, <2>3 DEF RangeCodes
    <3>2. OfMain' < OfMain
      BY <1>6, <2>1, <3>1, MainLeftIs
    <3>3. Len(codeChan)' <= Len(codeChan)
      BY <3>1 DEF PartsOK
    <3> QED
      BY <1>2, <1>3, <3>2, <3>3, Zenon
  <2> QED
    BY <2>2, <2>3
<1>9. CASE Close
  <2>1. main' = main /\ codeChan' = codeChan
        /\ \/ closer = "wait" /\ closer' = "closeCodes"
           \/ closer = "closeCodes" /\ closer' = "done"
    BY <1>9 DEF Close
  <2>2. OfMain' < OfMain
    BY <1>4, <1>5, <2>1, MainLeftIs
  <2>3. Len(codeChan)' <= Len(codeChan)
    BY <2>1 DEF PartsOK
  <2> QED
    BY <1>2, <1>3, <2>2, <2>3, Zenon
<1> QED
  BY <1>7, <1>8, <1>9

(* An iteration starts: all its steps were among those left.               *)
LEMMA StartStepsDown ==
  ASSUME IInv, IterationsInv, Iterations >= 0, PartsOK, PartsOK',
         StartIteration, iteration' # iteration
  PROVE  /\ OfIterations - OfIterations' > 4 + OfSuites'
         /\ OfMain' <= OfMain + 4 /\ Len(codeChan)' <= Len(codeChan)
<1> DEFINE pairs == Cardinality(Suites \X (1 .. 16))
           k == Iterations - (iteration + 1)
<1>1. /\ iteration' = iteration + 1 /\ MoreIterations
      /\ main = "forIterations" /\ main' = "rangeErrors" /\ closer' = "wait" /\ codeChan' = <<>>
  BY DEF StartIteration, channels
<1>2. pairs \in Nat /\ OfSuites' \in 0 .. pairs
  BY SuitesCounted
<1>3. IterationSteps = 5 + pairs
  BY DEF IterationSteps
<1>4. k \in Nat /\ Iterations - iteration = k + 1
  BY <1>1, NumbersAssumption DEF MoreIterations, IInv, TypeOK
<1>5. OfIterations = (k + 1) * IterationSteps
  BY <1>4 DEF OfIterations
<1>6. OfIterations' = k * IterationSteps
  BY <1>1 DEF OfIterations, IterationSteps
<1>7. IterationSteps \in Nat
  BY <1>2, <1>3
<1> HIDE DEF pairs, k
<1>8. (k + 1) * IterationSteps = k * IterationSteps + IterationSteps /\ k * IterationSteps \in Nat
  BY <1>4, <1>7, NatTimes
<1>9. OfIterations - OfIterations' > 4 + OfSuites'
  BY <1>2, <1>3, <1>5, <1>6, <1>8
<1>10. OfMain' <= OfMain + 4
  <2>1. CloserLeft[closer] \in Nat /\ CloserLeft' = CloserLeft /\ MainLeft' = MainLeft
    BY MainLeftIs DEF IInv, TypeOK, MainLeft, CloserLeft
  <2>2. OfMain = 3 + CloserLeft[closer] /\ OfMain' = 7
    BY <1>1, <2>1, MainLeftIs DEF OfMain
  <2> QED
    BY <2>1, <2>2
<1>11. Len(codeChan)' <= Len(codeChan)
  BY <1>1 DEF PartsOK
<1> QED
  BY <1>9, <1>10, <1>11

(* With a number of iterations every step uses up one of the finitely many *)
(* that are left, so the process ends if it does not wait for ever, and    *)
(* NoDeadlock says for what it may (Coordinator.Run, runWorkers).          *)
THEOREM EveryStepCounts == Spec => StepsRunOut
<1> DEFINE Parts1 == Iterations >= 0 => PartsOK
           Down == Iterations >= 0 => StepsLeft' \in 0 .. StepsLeft - 1
<1>1. IInv /\ ProgressInv => Parts1
  BY Parts DEF ProgressInv
<1>2. IInv /\ ProgressInv /\ Parts1 /\ Parts1' /\ [Next]_vars => [Down]_vars
  <2> SUFFICES ASSUME IInv, ProgressInv, Iterations >= 0, PartsOK, PartsOK', Next
               PROVE  StepsLeft' \in 0 .. StepsLeft - 1
    OBVIOUS
  <2>1. OneLess(OfIterations, OfMain, Len(codeChan), OfSuites,
                OfIterations', OfMain', Len(codeChan)', OfSuites')
    <3>1. CASE StartIteration /\ iteration' # iteration
      BY <3>1, StartStepsDown, Zenon DEF OneLess, ProgressInv
    <3>2. CASE \/ StartIteration /\ iteration' = iteration
               \/ EndIterations \/ RangeErrors \/ RangeCodes \/ MainExit \/ Close
               \/ ConcurrentMapAccess
      BY <3>2, MainStepsDown, Zenon DEF OneLess
    <3>3. ASSUME NEW s \in Suites, SuiteStep(s)
          PROVE  OneLess(OfIterations, OfMain, Len(codeChan), OfSuites,
                         OfIterations', OfMain', Len(codeChan)', OfSuites')
      BY <3>3, SuiteStepsDown, Zenon DEF OneLess
    <3> QED
      BY <3>1, <3>2, <3>3 DEF Next, MainStep, SuiteStep
  <2>2. /\ OfIterations \in Nat /\ OfMain \in Nat /\ Len(codeChan) \in Nat /\ OfSuites \in Nat
        /\ OfIterations' \in Nat /\ OfMain' \in Nat /\ Len(codeChan)' \in Nat /\ OfSuites' \in Nat
    BY DEF PartsOK
  <2>3. OfIterations' + OfMain' + Len(codeChan)' + OfSuites'
          \in 0 .. (OfIterations + OfMain + Len(codeChan) + OfSuites) - 1
    BY <2>1, <2>2, LessInAll, Zenon
  <2>4. /\ StepsLeft = OfIterations + OfMain + Len(codeChan) + OfSuites
        /\ StepsLeft' = OfIterations' + OfMain' + Len(codeChan)' + OfSuites'
    BY DEF PartsOK
  <2> QED
    BY <2>3, <2>4, Zenon
<1> QED
  BY <1>1, <1>2, FullInvariance, PTL DEF Spec, StepsRunOut
=============================================================================
