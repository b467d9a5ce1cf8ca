---------------------------- MODULE BenchmarkTask ----------------------------
(***************************************************************************)
(* pkg/benchmark/coordinator.go: WorkerTask.Run, which runs one suite of   *)
(* benchmarks.  It creates a cluster with worker pods in it, sets the      *)
(* suite up on one worker and then calls all workers at once, in phases:   *)
(* SetupWorker, and SetupBenchmark and RunBenchmark for each benchmark.  A *)
(* phase starts one goroutine per worker and waits for them.               *)
(*                                                                         *)
(* The answers of the workers (pkg/benchmark/worker.go) are an outcome and *)
(* whether the call was carried out; BenchmarkRun models what RunBenchmark *)
(* does there.  The pods are external.  Definitions that no comment        *)
(* introduces beside an action are faulty variants, used to see that a     *)
(* property notices.                                                       *)
(***************************************************************************)
EXTENDS Naturals, FiniteSets, Sequences, SequencesExt

CONSTANTS
  NumWorkers,     \* Config.Workers
  NumBenchmarks,  \* benchmarks of the suite, or 1 if Config.Benchmark names one
  Configs,        \* the requests and durations that a Config may ask for
  MaxRequests,    \* bound on the requests of a run with a duration only
  MaxFaults       \* bound on the failed calls and on the pods that end early

(* Without a worker setupSuite would panic.                                *)
ASSUME WorkersAssumption == NumWorkers \in Nat \ {0}
ASSUME NumbersAssumption ==
  /\ NumBenchmarks \in Nat /\ MaxRequests \in Nat /\ MaxFaults \in Nat
  /\ Configs \subseteq [requests : Nat, duration : BOOLEAN]

Workers == 1 .. NumWorkers

Call(c, b) == [call |-> c, benchmark |-> b]
SetupSuiteCall == Call("SetupSuite", 0)
Phases ==
  {Call("SetupWorker", 0)} \cup
  {Call(c, b) : c \in {"SetupBenchmark", "RunBenchmark"}, b \in 1 .. NumBenchmarks}

VARIABLES
  at,          \* where the task is
  config,      \* the Config: its Requests, and whether its Duration is set
  created,     \* workers whose pod and service exist: 1 .. created
  ready,       \* workers whose pod has become ready
  ended,       \* workers whose pod has ended; it is not started again
  awaited,     \* workers awaitRunning has seen ready
  phase,       \* the phase that runs
  goroutine,   \* goroutine[w]: where the goroutine of worker w is
  reply,       \* reply[w]: what the call to w returned
  err,         \* the variable err that the goroutines of a set-up phase share
  errCh,       \* errors in the buffer of runBenchmark's errCh
  resultCh,    \* responses in that of resultCh: number and sum of requests
  results,     \* the result of each benchmark
  answered,    \* answered[w]: phases in which w was called (history)
  carriedOut,  \* carriedOut[w]: calls that w carried out (history)
  cluster,     \* "none", "up" or "undeleted", if Delete failed
  result,      \* what the task returns
  faults       \* failed calls so far

kubeVars == <<created, ready, ended, awaited, cluster>>
callVars == <<goroutine, reply, err, errCh, resultCh>>
history == <<answered, carriedOut>>
vars == <<at, config, kubeVars, phase, callVars, results, history, result, faults>>

Requests == config.requests
HasDuration == config.duration

NoResponse == [responses |-> 0, requests |-> 0]

Init ==
  /\ at = "createCluster"
  /\ config \in Configs
  /\ created = 0 /\ ready = {} /\ ended = {} /\ awaited = 0
  /\ phase = Call("SetupWorker", 0)
  /\ goroutine = [w \in Workers |-> "none"]
  /\ reply = [w \in Workers |-> "ok"]
  /\ err = "ok"
  /\ errCh = 0 /\ resultCh = NoResponse
  /\ results = <<>>
  /\ answered = [w \in Workers |-> <<>>]
  /\ carriedOut = [w \in Workers |-> {}]
  /\ cluster = "none"
  /\ result = "ok"
  /\ faults = 0

Fault == faults < MaxFaults /\ faults' = faults + 1

(* Every return of run() leads to tearDown.                                *)
Finish(r) == at' = "tearDown" /\ result' = r

-----------------------------------------------------------------------------
(* The cluster and the pods.                                               *)

CreateCluster ==
  /\ at = "createCluster"
  /\ cluster' = "up"
  /\ at' = "createWorkers"
  /\ UNCHANGED <<config, created, ready, ended, awaited, phase, callVars, results,
                 history, result, faults>>

CreateOneWorkerLess ==
  /\ at = "createWorkers"
  /\ created' = created + 1
  /\ at' = IF created' + 1 >= NumWorkers THEN "awaitRunning" ELSE at
  /\ UNCHANGED <<config, ready, ended, awaited, cluster, phase, callVars, results,
                 history, result, faults>>
CreateWorker ==
  /\ at = "createWorkers"
  /\ created' = created + 1
  /\ at' = IF created' = NumWorkers THEN "awaitRunning" ELSE at
  /\ UNCHANGED <<config, ready, ended, awaited, cluster, phase, callVars, results,
                 history, result, faults>>

(* The poll that sees the next worker ready; other polls change nothing.   *)
(* They go on for ever if the pod has ended, ready or not.                 *)
AwaitWorkerRunning ==
  /\ at = "awaitRunning"
  /\ awaited + 1 \in ready \ ended
  /\ awaited' = awaited + 1
  /\ at' = IF awaited' = NumWorkers THEN "setupSuite" ELSE at
  /\ UNCHANGED <<config, created, ready, ended, cluster, phase, callVars, results,
                 history, result, faults>>

(* An API call fails; Create may leave the namespace behind.               *)
FailCall ==
  /\ Fault
  /\ at \in {"createCluster", "createWorkers", "awaitRunning"}
  /\ cluster' \in IF at = "createCluster" THEN {"none", "up"} ELSE {cluster}
  /\ Finish("error")
  /\ UNCHANGED <<config, created, ready, ended, awaited, phase, callVars, results,
                 history>>

(* The error of Delete is ignored.                                         *)
TearDownSkipped ==
  /\ at = "tearDown"
  /\ at' = "returned"
  /\ UNCHANGED <<config, kubeVars, phase, callVars, results, history, result, faults>>
TearDown ==
  /\ at = "tearDown"
  /\ \/ cluster' = "none" /\ UNCHANGED faults
     \/ Fault /\ cluster' = IF cluster = "up" THEN "undeleted" ELSE cluster
  /\ at' = "returned"
  /\ UNCHANGED <<config, created, ready, ended, awaited, phase, callVars, results,
                 history, result>>

-----------------------------------------------------------------------------
(* The calls of the workers.                                               *)

Share == Requests \div NumWorkers

(* The requests a worker may make: its share, or fewer if the duration     *)
(* passes; no share means no limit (BenchmarkRun).                         *)
RequestsOfRun ==
  IF HasDuration THEN 0 .. (IF Share = 0 THEN MaxRequests ELSE Share) ELSE {Share}

Running == phase.call = "RunBenchmark"

(* Without share and duration a worker never comes to an answer.           *)
Endless == Running /\ Share = 0 /\ ~HasDuration

(* A worker carries a call out and answers, an endless run excepted; or    *)
(* the call fails, before or after that, as every call of a worker does    *)
(* whose pod has ended.                                                    *)
CarryOut(w, call, outcome) ==
  \/ /\ outcome = "ok" /\ w \notin ended /\ ~Endless
     /\ carriedOut' = [carriedOut EXCEPT ![w] = @ \cup {call}]
     /\ UNCHANGED faults
  \/ /\ outcome = "error" /\ Fault
     /\ \/ ~Endless /\ carriedOut' = [carriedOut EXCEPT ![w] = @ \cup {call}]
        \/ UNCHANGED carriedOut
  \/ outcome = "error" /\ w \in ended /\ UNCHANGED <<carriedOut, faults>>

SetupSuite ==
  /\ at = "setupSuite"
  /\ \E outcome \in {"ok", "error"} :
       /\ CarryOut(1, SetupSuiteCall, outcome)
       /\ IF outcome = "ok" THEN at' = "startCalls" /\ UNCHANGED result
                            ELSE Finish("error")
  /\ UNCHANGED <<config, kubeVars, phase, callVars, results, answered>>

(* A phase starts its goroutines, with new channels and a new err.         *)
StartCallsOldChannels ==
  /\ at = "startCalls"
  /\ at' = "wait"
  /\ goroutine' = [w \in Workers |-> "call"]
  /\ reply' = [w \in Workers |-> "ok"]
  /\ err' = "ok"
  /\ UNCHANGED <<config, kubeVars, phase, errCh, resultCh, results, history, result,
                 faults>>
StartCalls ==
  /\ at = "startCalls"
  /\ at' = "wait"
  /\ goroutine' = [w \in Workers |-> "call"]
  /\ reply' = [w \in Workers |-> "ok"]
  /\ err' = "ok" /\ errCh' = 0 /\ resultCh' = NoResponse
  /\ UNCHANGED <<config, kubeVars, phase, results, history, result, faults>>

(* The call returns.  In a set-up phase the error is assigned to the err   *)
(* of the enclosing function.                                              *)
Answer(w) ==
  /\ goroutine[w] = "call"
  /\ \E outcome \in {"ok", "error"} :
       /\ CarryOut(w, phase, outcome)
       /\ reply' = [reply EXCEPT ![w] = outcome]
       /\ err' = IF Running THEN err ELSE outcome
  /\ answered' = [answered EXCEPT ![w] = Append(@, phase)]
  /\ goroutine' = [goroutine EXCEPT ![w] = IF Running THEN "send" ELSE "check"]
  /\ UNCHANGED <<at, config, kubeVars, phase, errCh, resultCh, results, result>>

(* if err != nil: the shared variable is read without synchronisation; the *)
(* goroutine sees what it has written or what another has.                 *)
Check(w) ==
  /\ goroutine[w] = "check"
  /\ \E seen \in {reply[w], err} :
       goroutine' = [goroutine EXCEPT ![w] = IF seen = "error" THEN "send" ELSE "done"]
  /\ UNCHANGED <<at, config, kubeVars, phase, reply, err, errCh, resultCh, results,
                 history, result, faults>>

(* The channels of runBenchmark have room for every worker.  The errCh of  *)
(* a set-up phase has no buffer and nobody receives from it before wg.Wait *)
(* returns, so a goroutine that sends there stays.                         *)
SendErrorDropped(w) ==
  /\ goroutine[w] = "send" /\ Running
  /\ errCh' = errCh
  /\ \E n \in RequestsOfRun :
       resultCh' = [responses |-> resultCh.responses + 1, requests |-> resultCh.requests + n]
  /\ goroutine' = [goroutine EXCEPT ![w] = "done"]
  /\ UNCHANGED <<at, config, kubeVars, phase, reply, err, results, history, result,
                 faults>>
Send(w) ==
  /\ goroutine[w] = "send" /\ Running
  /\ \/ /\ reply[w] = "error"
        /\ errCh' = errCh + 1
        /\ UNCHANGED resultCh
     \/ /\ reply[w] = "ok"
        /\ \E n \in RequestsOfRun :
             resultCh' = [responses |-> resultCh.responses + 1,
                          requests  |-> resultCh.requests + n]
        /\ UNCHANGED errCh
  /\ goroutine' = [goroutine EXCEPT ![w] = "done"]
  /\ UNCHANGED <<at, config, kubeVars, phase, reply, err, results, history, result,
                 faults>>

SomeDone == \E w \in Workers : goroutine[w] = "done"
WaitGroup == \A w \in Workers : goroutine[w] = "done"

(* After wg.Wait: the first error is returned, or the phase is complete.   *)
AfterPhaseAgain ==
  LET b == phase.benchmark
  IN  IF (Running \/ b = 0) /\ b = NumBenchmarks
        THEN Finish("ok") /\ UNCHANGED phase
        ELSE /\ at' = "startCalls"
             /\ phase' = IF b = 0 THEN Call("SetupBenchmark", 1)
                         ELSE Call(IF Running THEN "SetupBenchmark" ELSE "RunBenchmark", b)
             /\ UNCHANGED result
AfterPhase ==
  LET b == phase.benchmark
  IN  IF (Running \/ b = 0) /\ b = NumBenchmarks
        THEN Finish("ok") /\ UNCHANGED phase
        ELSE /\ at' = "startCalls"
             /\ phase' = IF Running \/ b = 0 THEN Call("SetupBenchmark", b + 1)
                                             ELSE Call("RunBenchmark", b)
             /\ UNCHANGED result

EndCalls ==
  /\ at = "wait" /\ WaitGroup
  /\ IF errCh > 0
       THEN Finish("error") /\ UNCHANGED <<phase, results>>
       ELSE /\ AfterPhase
            /\ results' = IF Running THEN Append(results, resultCh) ELSE results
  /\ UNCHANGED <<config, kubeVars, callVars, history, faults>>

-----------------------------------------------------------------------------
(* Kubernetes: the readiness probe of a pod succeeds.                      *)
PodReady(w) ==
  /\ w \in 1 .. created \ (ready \cup ended)
  /\ ready' = ready \cup {w}
  /\ UNCHANGED <<at, config, created, ended, awaited, cluster, phase, callVars,
                 results, history,
                 result, faults>>

(* The worker ends, by a crash or an eviction.  Its pod has RestartPolicy  *)
(* Never, and it is not ready from then on.                                *)
PodEnds(w) ==
  /\ w \in 1 .. created \ ended
  /\ ended' = ended \cup {w}
  /\ Fault
  /\ UNCHANGED <<at, config, created, ready, awaited, cluster, phase, callVars, results,
                 history, result>>

TaskStep ==
  \/ CreateCluster \/ CreateWorker \/ AwaitWorkerRunning \/ SetupSuite
  \/ StartCalls \/ EndCalls \/ TearDown
Goroutine(w) == Answer(w) \/ Check(w) \/ Send(w)

Next ==
  \/ TaskStep \/ FailCall
  \/ \E w \in Workers : Goroutine(w) \/ PodReady(w) \/ PodEnds(w)

Spec == Init /\ [][Next]_vars

-----------------------------------------------------------------------------
TypeOK ==
  /\ at \in {"createCluster", "createWorkers", "awaitRunning", "setupSuite",
             "startCalls", "wait", "tearDown", "returned"}
  /\ config \in Configs
  /\ created \in 0 .. NumWorkers /\ awaited \in 0 .. NumWorkers
  /\ ready \subseteq 1 .. created /\ ended \subseteq 1 .. created /\ 1 .. awaited \subseteq ready
  /\ phase \in Phases
  /\ goroutine \in [Workers -> {"none", "call", "check", "send", "done"}]
  /\ reply \in [Workers -> {"ok", "error"}]
  /\ err \in {"ok", "error"}
  /\ errCh \in Nat /\ resultCh \in [responses : Nat, requests : Nat]
  /\ errCh + resultCh.responses <= NumWorkers
  /\ results \in Seq([responses : Nat, requests : Nat])
  /\ answered \in [Workers -> Seq(Phases)]
  /\ carriedOut \in [Workers -> SUBSET (Phases \cup {SetupSuiteCall})]
  /\ cluster \in {"none", "up", "undeleted"}
  /\ result \in {"ok", "error"}
  /\ faults \in 0 .. MaxFaults

(* The workers go through the phases in step: none is called for a phase   *)
(* before all have answered the phase before, and the measured runs of a   *)
(* benchmark overlap no set-up (lines 387-402, 418-434, 513-533).          *)
Lockstep ==
  \A v, w \in Workers :
    Len(answered[v]) <= Len(answered[w]) =>
      /\ IsPrefix(answered[v], answered[w])
      /\ Len(answered[w]) <= Len(answered[v]) + 1

(* No goroutine calls a worker, or will, when the cluster is deleted under *)
(* it, also on the error paths (lines 152-163).                            *)
NoCallAfterTearDown ==
  at \in {"tearDown", "returned"} =>
    \A w \in Workers : goroutine[w] \in {"none", "done"}

(* A task that returns no error ran every benchmark on every worker, and   *)
(* each result it prints sums the answers of all (lines 533-557), whatever *)
(* set-up error it lost; with a share each, they make no more requests     *)
(* than Requests, though the remainder of the division is never made.      *)
SuccessIsComplete ==
  at = "returned" /\ result = "ok" =>
    /\ \A w \in Workers, b \in 1 .. NumBenchmarks :
         Call("RunBenchmark", b) \in carriedOut[w]
    /\ Len(results) = NumBenchmarks
    /\ \A i \in 1 .. NumBenchmarks :
         /\ results[i].responses = NumWorkers
         /\ Share > 0 => results[i].requests <= Requests

(* The cluster never outlives the task unless its Delete failed.           *)
NoClusterLeft == at = "returned" => cluster # "up"

(* Tearing down is the last thing a task does, and it does it however it   *)
(* fails (lines 151-163, 586-589).                                         *)
TearDownIsLast == NoCallAfterTearDown /\ NoClusterLeft

SetupFailed ==
  ~Running /\ \E w \in Workers : goroutine[w] \in {"check", "send", "done"} /\ reply[w] = "error"

(* awaitWorkerRunning polls a pod that has ended, for ever (325-333).      *)
WorkerMissed == at = "awaitRunning" /\ awaited + 1 \in ended

(* Some worker runs a benchmark for ever (line 531).                       *)
RunsForEver == Endless /\ \E w \in Workers \ ended : goroutine[w] = "call"

(* The guards of the steps of the task, of a goroutine and of a pod, but   *)
(* for those of a failure.                                                 *)
TaskCanRun ==
  \/ at \in {"createCluster", "createWorkers", "setupSuite", "startCalls", "tearDown"}
  \/ at = "awaitRunning" /\ awaited + 1 \in ready \ ended
  \/ at = "wait" /\ WaitGroup
GoroutineCanRun(w) ==
  \/ goroutine[w] = "call" /\ (Endless => w \in ended)
  \/ goroutine[w] = "check"
  \/ goroutine[w] = "send" /\ Running
PodCanStart(w) == w \in 1 .. created \ (ready \cup ended)

(* The task never waits for what cannot come, a worker that was not made   *)
(* or a goroutine that waits for the task, also when calls fail and pods   *)
(* end, except in three cases: a set-up call of the phase has failed, the  *)
(* pod of the next worker has ended before a poll saw it ready, or a run   *)
(* has no end (lines 186-334, 386-402, 417-434, 510-539).                  *)
NeverStuck ==
  \/ at = "returned"
  \/ SetupFailed \/ WorkerMissed \/ RunsForEver
  \/ TaskCanRun
  \/ \E w \in Workers : GoroutineCanRun(w) \/ PodCanStart(w)

(* The steps that are left: of the phases that follow, of the task in this *)
(* one, of its goroutines, and of the workers that may come up or end.     *)
PhasesLeft ==
  IF at \in {"tearDown", "returned"} THEN 0
  ELSE 2 * (NumBenchmarks - phase.benchmark) + (IF phase.call = "SetupBenchmark" THEN 1 ELSE 0)
TaskLeft ==
  [createCluster |-> 7 + 3 * NumWorkers, createWorkers |-> 6 + 3 * NumWorkers,
   awaitRunning |-> 5 + 3 * NumWorkers, setupSuite |-> 4 + 3 * NumWorkers,
   startCalls |-> 3 + 3 * NumWorkers, wait |-> 2, tearDown |-> 1, returned |-> 0]
GoroutinesIn(states) == Cardinality({w \in Workers : goroutine[w] \in states})
StepsLeft ==
  PhasesLeft * (2 + 3 * NumWorkers) + TaskLeft[at]
    + GoroutinesIn({"call"}) + GoroutinesIn({"call", "check"})
    + GoroutinesIn({"call", "check", "send"})
    + (NumWorkers - created) + (NumWorkers - awaited) + (NumWorkers - Cardinality(ready))
    + (NumWorkers - Cardinality(ended))

(* Every step brings the task closer to its end, whatever fails: no phase  *)
(* is run twice and no call repeated (lines 378-496).                      *)
StepsRunOut == [][StepsLeft' \in 0 .. StepsLeft - 1]_vars

(* "SetupBenchmark is an interface for executing code before every         *)
(* benchmark" (benchmark.go): a worker runs a benchmark only when it has   *)
(* carried out the set-up of the benchmark, and SetupWorker.               *)
RunOnlyWhenSetUp ==
  \A w \in Workers, b \in 1 .. NumBenchmarks :
    Call("RunBenchmark", b) \in carriedOut[w] =>
      {Call("SetupWorker", 0), Call("SetupBenchmark", b)} \subseteq carriedOut[w]
=============================================================================
