-------------------------- MODULE BenchmarkTaskProofs --------------------------
(***************************************************************************)
(* Proofs about BenchmarkTask, for any number of workers, benchmarks,      *)
(* requests and failed calls.                                              *)
(***************************************************************************)
EXTENDS BenchmarkTask, FiniteSetTheorems, TLAPS

Setup == {"createCluster", "createWorkers", "awaitRunning", "setupSuite"}

DoneWorkers == {w \in Workers : goroutine[w] = "done"}

(* Where the task is tells how many workers exist and are awaited.         *)
WorkersInv ==
  /\ at = "createCluster" => created = 0 /\ awaited = 0
  /\ at = "createWorkers" => created < NumWorkers /\ awaited = 0
  /\ at = "awaitRunning" => awaited < NumWorkers

(* Goroutines run only while the task waits for them.                      *)
GoroutineInv ==
  /\ at # "wait" => \A w \in Workers : goroutine[w] \in {"none", "done"}
  /\ at = "wait" => \A w \in Workers : goroutine[w] # "none"

(* A worker that has answered the phase is one answer ahead of those that  *)
(* have not; otherwise their answers are the same.                         *)
StepInv ==
  \A v, w \in Workers :
    IF goroutine[v] = "call"
      THEN answered[w] = IF goroutine[w] = "call" THEN answered[v] ELSE Append(answered[v], phase)
      ELSE goroutine[w] # "call" => answered[w] = answered[v]

(* While a benchmark runs, the buffers of the two channels hold one answer *)
(* for each goroutine that is done; a set-up phase sends none.             *)
CountInv ==
  at = "wait" =>
    errCh + resultCh.responses = IF Running THEN Cardinality(DoneWorkers) ELSE 0

(* A run that was answered without an error was carried out; an error that *)
(* was sent is in the channel.                                             *)
ReplyInv ==
  Running /\ at = "wait" =>
    \A w \in Workers :
      /\ goroutine[w] \in {"send", "done"} /\ reply[w] = "ok" => phase \in carriedOut[w]
      /\ goroutine[w] = "done" /\ reply[w] = "error" => errCh > 0

(* Each response counts its worker's share of the requests at most.        *)
ShareInv == Share > 0 => resultCh.requests <= resultCh.responses * Share

Complete(b) ==
  /\ \A w \in Workers : Call("RunBenchmark", b) \in carriedOut[w]
  /\ results[b].responses = NumWorkers
  /\ Share > 0 => results[b].requests <= Requests

(* The benchmarks before that of the phase have a complete result each.    *)
ResultsInv ==
  /\ \A b \in 1 .. Len(results) : Complete(b)
  /\ at \in Setup => phase = Call("SetupWorker", 0) /\ Len(results) = 0
  /\ at \in {"startCalls", "wait"} =>
       Len(results) = IF phase.benchmark = 0 THEN 0 ELSE phase.benchmark - 1
  /\ at \in {"tearDown", "returned"} /\ result = "ok" => Len(results) = NumBenchmarks

(* Only a set-up phase looks at the shared err.                            *)
CheckInv == Running => \A w \in Workers : goroutine[w] # "check"

IInv ==
  /\ TypeOK
  /\ WorkersInv /\ GoroutineInv /\ CheckInv /\ StepInv
  /\ CountInv /\ ReplyInv /\ ShareInv /\ ResultsInv
  /\ NoClusterLeft

-----------------------------------------------------------------------------
(* The shares of all workers are no more than there are requests.          *)
LEMMA SharesFit ==
  ASSUME config \in Configs
  PROVE  Share \in Nat /\ NumWorkers * Share <= Requests
<1>1. Requests \in Nat
  BY NumbersAssumption DEF Requests
<1> QED
  BY <1>1, WorkersAssumption DEF Share

LEMMA DoneCounted ==
  /\ IsFiniteSet(DoneWorkers) /\ Cardinality(DoneWorkers) \in 0 .. NumWorkers
  /\ Cardinality(DoneWorkers') \in 0 .. NumWorkers
  /\ Cardinality(Workers) = NumWorkers
<1>1. IsFiniteSet(Workers) /\ Cardinality(Workers) = NumWorkers
  BY WorkersAssumption, FS_Interval DEF Workers
<1>2. ASSUME NEW D \in SUBSET Workers
      PROVE  IsFiniteSet(D) /\ Cardinality(D) \in 0 .. NumWorkers
  <2>1. IsFiniteSet(D) /\ Cardinality(D) <= Cardinality(Workers)
    BY <1>1, FS_Subset
  <2> QED
    BY <2>1, <1>1, WorkersAssumption, FS_CardinalityType
<1> QED
  BY <1>1, <1>2 DEF DoneWorkers

LEMMA DoneGrows ==
  ASSUME TypeOK, NEW w \in Workers, goroutine[w] # "done",
         goroutine' = [goroutine EXCEPT ![w] = "done"]
  PROVE  Cardinality(DoneWorkers') = Cardinality(DoneWorkers) + 1
<1>1. DoneWorkers' = DoneWorkers \cup {w} /\ w \notin DoneWorkers
  BY DEF DoneWorkers, TypeOK
<1> QED
  BY <1>1, DoneCounted, FS_AddElement

LEMMA InitIInv == Init => IInv
<1> SUFFICES ASSUME Init PROVE IInv
  OBVIOUS
<1> USE DEF Init
<1>1. TypeOK
  <2>1. 1 .. 0 = {} /\ 0 \in 0 .. NumWorkers /\ 0 \in 0 .. MaxFaults
    BY WorkersAssumption, NumbersAssumption
  <2>2. phase \in Phases
    BY DEF Phases
  <2>3. errCh + resultCh.responses <= NumWorkers /\ resultCh \in [responses : Nat, requests : Nat]
    BY WorkersAssumption DEF NoResponse
  <2>4. answered \in [Workers -> Seq(Phases)] /\ results \in Seq([responses : Nat, requests : Nat])
    OBVIOUS
  <2> QED
    BY <2>1, <2>2, <2>3, <2>4 DEF TypeOK
<1>2. /\ WorkersInv /\ GoroutineInv /\ CheckInv /\ StepInv /\ CountInv /\ ReplyInv
      /\ NoClusterLeft
  BY WorkersAssumption DEF WorkersInv, GoroutineInv, CheckInv, StepInv, CountInv, ReplyInv, NoClusterLeft
<1>3. ShareInv
  BY SharesFit DEF ShareInv, NoResponse
<1>4. ResultsInv
  BY DEF ResultsInv, Setup
<1> QED
  BY <1>1, <1>2, <1>3, <1>4 DEF IInv

-----------------------------------------------------------------------------
(* Steps of the task while no goroutine runs.                              *)
LEMMA AloneKeeps ==
  ASSUME IInv, at # "wait", at' # "wait",
         UNCHANGED <<config, phase, callVars, results, answered>>,
         \A w \in Workers : carriedOut[w] \subseteq carriedOut'[w],
         at' \in Setup \cup {"startCalls"} => at \in Setup,
         at' \in {"tearDown", "returned"} /\ result' = "ok" => at = "tearDown" /\ result = "ok"
  PROVE  /\ GoroutineInv' /\ CheckInv' /\ StepInv' /\ CountInv' /\ ReplyInv'
         /\ ShareInv' /\ ResultsInv'
<1> USE DEF IInv, callVars
<1>1. GoroutineInv' /\ CheckInv' /\ StepInv' /\ CountInv' /\ ReplyInv' /\ ShareInv'
  BY DEF GoroutineInv, CheckInv, Running, StepInv, CountInv, ReplyInv, ShareInv, Share, Requests
<1>2. \A b \in 1 .. Len(results) : Complete(b)'
  BY DEF ResultsInv, Complete, Share, Requests
<1>3. at' \in Setup \cup {"startCalls"} => phase = Call("SetupWorker", 0) /\ Len(results) = 0
  BY DEF ResultsInv
<1>4. ResultsInv'
  BY <1>2, <1>3 DEF ResultsInv, Setup, Call
<1> QED
  BY <1>1, <1>4

LEMMA TaskAloneKeeps ==
  ASSUME IInv,
         \/ CreateCluster \/ CreateWorker \/ AwaitWorkerRunning \/ FailCall \/ TearDown
         \/ SetupSuite
  PROVE  IInv'
<1> USE DEF IInv
<1>1. /\ at # "wait" /\ at' # "wait"
      /\ UNCHANGED <<config, phase, callVars, results, answered>>
      /\ at' \in Setup \cup {"startCalls"} => at \in Setup
      /\ at' \in {"tearDown", "returned"} /\ result' = "ok" => at = "tearDown" /\ result = "ok"
  BY DEF CreateCluster, CreateWorker, AwaitWorkerRunning, FailCall, TearDown, SetupSuite, Finish,
         Setup, history
<1>2. /\ carriedOut' \in [Workers -> SUBSET (Phases \cup {SetupSuiteCall})]
      /\ \A w \in Workers : carriedOut[w] \subseteq carriedOut'[w]
  <2>1. \/ carriedOut' = carriedOut
        \/ carriedOut' = [carriedOut EXCEPT ![1] = @ \cup {SetupSuiteCall}]
    BY DEF CreateCluster, CreateWorker, AwaitWorkerRunning, FailCall, TearDown, SetupSuite,
           CarryOut, history
  <2>2. 1 \in Workers
    BY WorkersAssumption DEF Workers
  <2> QED
    BY <2>1, <2>2, ZenonT(60) DEF TypeOK
<1>3. faults' \in 0 .. MaxFaults
  BY NumbersAssumption DEF CreateCluster, CreateWorker, AwaitWorkerRunning, FailCall, TearDown,
     SetupSuite, CarryOut, Fault, TypeOK
<1>4. /\ created' \in 0 .. NumWorkers /\ awaited' \in 0 .. NumWorkers
      /\ ready' \subseteq 1 .. created' /\ ended' \subseteq 1 .. created' /\ 1 .. awaited' \subseteq ready'
      /\ WorkersInv'
  <2> USE WorkersAssumption DEF TypeOK, WorkersInv
  <2>1. CASE CreateCluster \/ TearDown \/ SetupSuite \/ FailCall
    <3>1. UNCHANGED <<created, awaited, ready, ended>> /\ (at' = "createWorkers" => at = "createCluster")
          /\ at' \notin {"createCluster", "awaitRunning"}
      BY <2>1 DEF CreateCluster, TearDown, SetupSuite, FailCall, Finish, kubeVars
    <3> QED
      BY <3>1
  <2>2. CASE CreateWorker
    BY <2>2 DEF CreateWorker
  <2>3. CASE AwaitWorkerRunning
    <3>1. awaited + 1 \in 1 .. created /\ awaited \in Nat /\ created \in 0 .. NumWorkers
      BY <2>3 DEF AwaitWorkerRunning
    <3>2. 1 .. (awaited + 1) = (1 .. awaited) \cup {awaited + 1}
      BY <3>1
    <3>3. 1 .. awaited' \subseteq ready /\ awaited' \in 0 .. NumWorkers
      <4>1. awaited' = awaited + 1 /\ awaited + 1 \in ready /\ 1 .. awaited \subseteq ready
        BY <2>3 DEF AwaitWorkerRunning
      <4>2. awaited' \in 0 .. NumWorkers
        BY <4>1, <3>1
      <4>3. 1 .. awaited' \subseteq ready
        BY <4>1, <3>2
      <4> QED
        BY <4>2, <4>3
    <3>4. at' = IF awaited' = NumWorkers THEN "setupSuite" ELSE "awaitRunning"
      BY <2>3 DEF AwaitWorkerRunning
    <3>5. WorkersInv'
      BY <3>3, <3>4 DEF AwaitWorkerRunning
    <3> QED
      BY <2>3, <3>3, <3>5 DEF AwaitWorkerRunning
  <2> QED
    BY <2>1, <2>2, <2>3
<1>5. /\ at' \in {"createCluster", "createWorkers", "awaitRunning", "setupSuite",
                  "startCalls", "wait", "tearDown", "returned"}
      /\ cluster' \in {"none", "up", "undeleted"} /\ result' \in {"ok", "error"}
      /\ NoClusterLeft'
  BY DEF CreateCluster, CreateWorker, AwaitWorkerRunning, FailCall, TearDown, SetupSuite, Finish,
         kubeVars, TypeOK, NoClusterLeft
<1>6. TypeOK'
  BY <1>1, <1>2, <1>3, <1>4, <1>5 DEF TypeOK, callVars
<1> QED
  BY <1>1, <1>2, <1>4, <1>5, <1>6, AloneKeeps

LEMMA PodKeeps ==
  ASSUME IInv, NEW w \in Workers, PodReady(w) \/ PodEnds(w)
  PROVE  IInv'
<1> USE DEF IInv
<1>1. /\ UNCHANGED <<at, config, created, awaited, cluster, phase, callVars, results, history,
                     result>>
      /\ ready \subseteq ready' /\ ready' \subseteq ready \cup (1 .. created)
      /\ ended' \subseteq ended \cup (1 .. created)
      /\ faults' \in 0 .. MaxFaults
  BY NumbersAssumption DEF PodReady, PodEnds, Fault, TypeOK
<1> USE <1>1 DEF callVars, history
<1>2. TypeOK'
  BY DEF TypeOK
<1>3. WorkersInv' /\ GoroutineInv' /\ CheckInv' /\ StepInv' /\ ShareInv' /\ NoClusterLeft'
  BY DEF WorkersInv, GoroutineInv, CheckInv, Running, StepInv, ShareInv, Share, Requests,
         NoClusterLeft
<1>4. CountInv' /\ ReplyInv' /\ ResultsInv'
  BY DEF CountInv, Running, DoneWorkers, ReplyInv, ResultsInv, Complete, Share, Requests
<1> QED
  BY <1>2, <1>3, <1>4

-----------------------------------------------------------------------------
(* A phase starts with new channels and every goroutine at its call.       *)
LEMMA StartCallsKeeps ==
  ASSUME IInv, StartCalls
  PROVE  IInv'
<1> USE DEF StartCalls, IInv, kubeVars, history
<1>1. TypeOK'
  BY WorkersAssumption DEF TypeOK, NoResponse
<1>2. WorkersInv' /\ GoroutineInv' /\ CheckInv' /\ ReplyInv' /\ NoClusterLeft'
  BY DEF WorkersInv, GoroutineInv, CheckInv, ReplyInv, NoClusterLeft
<1>3. StepInv'
  BY DEF StepInv, GoroutineInv
<1>4. CountInv'
  <2>1. DoneWorkers' = {}
    BY DEF DoneWorkers
  <2> QED
    BY <2>1, FS_EmptySet DEF CountInv, NoResponse
<1>5. ShareInv'
  BY SharesFit DEF ShareInv, NoResponse, Share, Requests, TypeOK
<1>6. ResultsInv'
  BY DEF ResultsInv, Complete, Share, Requests, Setup
<1> QED
  BY <1>1, <1>2, <1>3, <1>4, <1>5, <1>6

(* A worker answers a phase once.                                          *)
LEMMA AnswerKeeps ==
  ASSUME IInv, NEW w \in Workers, Answer(w)
  PROVE  IInv'
<1> USE DEF Answer, IInv, kubeVars
<1>1. PICK outcome \in {"ok", "error"} :
        /\ CarryOut(w, phase, outcome)
        /\ reply' = [reply EXCEPT ![w] = outcome]
        /\ err' = IF Running THEN err ELSE outcome
  OBVIOUS
<1>2. /\ at = "wait" /\ goroutine[w] = "call"
      /\ \A v \in Workers : goroutine'[v] = IF v # w THEN goroutine[v]
                                           ELSE IF Running THEN "send" ELSE "check"
      /\ \A v \in Workers : answered'[v] = IF v # w THEN answered[v] ELSE Append(answered[w], phase)
      /\ \A v \in Workers : reply'[v] = IF v # w THEN reply[v] ELSE outcome
  BY <1>1 DEF GoroutineInv, TypeOK
<1>3. /\ carriedOut' \in [Workers -> SUBSET (Phases \cup {SetupSuiteCall})]
      /\ \A v \in Workers : carriedOut[v] \subseteq carriedOut'[v]
      /\ outcome = "ok" => phase \in carriedOut'[w]
  <2>1. \/ carriedOut' = [carriedOut EXCEPT ![w] = @ \cup {phase}]
        \/ carriedOut' = carriedOut /\ outcome = "error"
    BY <1>1 DEF CarryOut
  <2>2. carriedOut \in [Workers -> SUBSET (Phases \cup {SetupSuiteCall})] /\ phase \in Phases
    BY DEF TypeOK
  <2> HIDE DEF Answer, IInv
  <2> QED
    BY <2>1, <2>2
<1>4. TypeOK'
  <2>1. faults' \in 0 .. MaxFaults
    BY <1>1, NumbersAssumption DEF CarryOut, Fault, TypeOK
  <2>2. goroutine' \in [Workers -> {"none", "call", "check", "send", "done"}]
    BY DEF TypeOK
  <2>3. answered' \in [Workers -> Seq(Phases)]
    <3>1. Append(answered[w], phase) \in Seq(Phases)
      BY DEF TypeOK
    <3> QED
      BY <3>1 DEF TypeOK
  <2>4. reply' \in [Workers -> {"ok", "error"}] /\ err' \in {"ok", "error"}
    BY <1>1 DEF TypeOK
  <2>5. UNCHANGED <<at, config, created, ready, ended, awaited, cluster, phase, errCh, resultCh, results, result>>
    OBVIOUS
  <2> QED
    BY <1>3, <2>1, <2>2, <2>3, <2>4, <2>5 DEF TypeOK
<1>5. WorkersInv' /\ GoroutineInv' /\ CheckInv' /\ NoClusterLeft' /\ ShareInv'
  BY <1>2 DEF WorkersInv, GoroutineInv, CheckInv, Running, NoClusterLeft, ShareInv,
     Share, Requests
<1>6. StepInv'
  <2> SUFFICES ASSUME NEW u \in Workers, NEW v \in Workers
               PROVE  (IF goroutine[u] = "call"
                         THEN answered[v] = IF goroutine[v] = "call" THEN answered[u]
                                            ELSE Append(answered[u], phase)
                         ELSE goroutine[v] # "call" => answered[v] = answered[u])'
    BY DEF StepInv
  <2>1. /\ goroutine[u] = "call" =>
             answered[v] = IF goroutine[v] = "call" THEN answered[u] ELSE Append(answered[u], phase)
        /\ goroutine[v] = "call" =>
             answered[u] = IF goroutine[u] = "call" THEN answered[v] ELSE Append(answered[v], phase)
        /\ goroutine[u] # "call" /\ goroutine[v] # "call" => answered[v] = answered[u]
        /\ goroutine[u] # "call" => answered[u] = Append(answered[w], phase)
        /\ goroutine[v] # "call" => answered[v] = Append(answered[w], phase)
        /\ goroutine[u] = "call" => answered[u] = answered[w]
        /\ goroutine[v] = "call" => answered[v] = answered[w]
    BY <1>2 DEF StepInv
  <2> QED
    BY <1>2, <2>1
<1>7. CountInv'
  <2>1. DoneWorkers' = DoneWorkers
    BY <1>2 DEF DoneWorkers
  <2> QED
    BY <1>2, <2>1 DEF CountInv, Running
<1>8. ReplyInv'
  BY <1>2, <1>3 DEF ReplyInv, Running
<1>9. ResultsInv'
  BY <1>3 DEF ResultsInv, Complete, Share, Requests, Setup
<1> QED
  BY <1>4, <1>5, <1>6, <1>7, <1>8, <1>9

(* Whatever the shared err looks like, a goroutine of a set-up phase ends  *)
(* or stays where it sends.                                                *)
LEMMA CheckKeeps ==
  ASSUME IInv, NEW w \in Workers, Check(w)
  PROVE  IInv'
<1> USE DEF IInv, kubeVars, history
<1>1. PICK next \in {"send", "done"} : goroutine' = [goroutine EXCEPT ![w] = next]
  BY DEF Check
<1>2. /\ goroutine[w] = "check"
      /\ UNCHANGED <<at, config, kubeVars, phase, reply, err, errCh, resultCh, results, history,
                     result, faults>>
  BY DEF Check
<1>3. \A v \in Workers : goroutine'[v] = IF v = w THEN next ELSE goroutine[v]
  BY <1>1 DEF TypeOK
<1>4. TypeOK'
  BY <1>1, <1>2 DEF TypeOK
<1>5. at = "wait" /\ ~Running
  BY <1>2 DEF GoroutineInv, CheckInv
<1>6. WorkersInv' /\ GoroutineInv' /\ NoClusterLeft' /\ ShareInv' /\ CheckInv'
  BY <1>2, <1>3, <1>5 DEF WorkersInv, GoroutineInv, NoClusterLeft, ShareInv, Share, Requests,
     CheckInv, Running
<1>7. StepInv'
  BY <1>2, <1>3 DEF StepInv
<1>8. CountInv' /\ ReplyInv'
  BY <1>2, <1>5 DEF CountInv, ReplyInv, Running
<1>9. ResultsInv'
  BY <1>2 DEF ResultsInv, Complete, Share, Requests, Setup
<1> QED
  BY <1>4, <1>6, <1>7, <1>8, <1>9

(* The run of a benchmark sends its answer on one of the two channels.     *)
LEMMA SendKeeps ==
  ASSUME IInv, NEW w \in Workers, Send(w)
  PROVE  IInv'
<1> USE DEF IInv, kubeVars, history
<1>1. /\ goroutine[w] = "send" /\ Running /\ at = "wait"
      /\ goroutine' = [goroutine EXCEPT ![w] = "done"]
      /\ UNCHANGED <<at, config, kubeVars, phase, reply, err, results, history, result, faults>>
  BY DEF Send, GoroutineInv
<1>2. \A v \in Workers : goroutine'[v] = IF v = w THEN "done" ELSE goroutine[v]
  BY <1>1 DEF TypeOK
<1>0. Share \in Nat /\ RequestsOfRun \subseteq Nat
      /\ \A n \in RequestsOfRun : Share > 0 => n <= Share
  <2>1. Share \in Nat
    BY SharesFit DEF TypeOK
  <2> QED
    BY <2>1, NumbersAssumption DEF RequestsOfRun
<1>3. /\ errCh \in Nat /\ resultCh.responses \in Nat /\ resultCh.requests \in Nat
      /\ errCh' \in Nat /\ errCh' >= errCh
      /\ resultCh' \in [responses : Nat, requests : Nat]
      /\ errCh' + resultCh'.responses = errCh + resultCh.responses + 1
      /\ reply[w] = "error" => errCh' > 0
      /\ Share > 0 => \/ resultCh' = resultCh
                      \/ /\ resultCh'.responses = resultCh.responses + 1
                         /\ resultCh'.requests <= resultCh.requests + Share
  <2>1. errCh \in Nat /\ resultCh \in [responses : Nat, requests : Nat]
    BY DEF TypeOK
  <2>2. \A n \in RequestsOfRun : n \in Nat /\ (Share > 0 => n <= Share)
    BY <1>0
  <2>3. CASE errCh' = errCh + 1 /\ resultCh' = resultCh
    BY <2>1, <2>3
  <2>4. CASE errCh' = errCh /\ resultCh' # resultCh
    <3>1. PICK n \in RequestsOfRun :
            resultCh' = [responses |-> resultCh.responses + 1,
                         requests  |-> resultCh.requests + n]
      BY <2>4 DEF Send
    <3>2. reply[w] = "ok"
      BY <2>1, <2>4 DEF Send
    <3> QED
      BY <2>1, <2>2, <2>4, <3>1, <3>2, <1>0
  <2>5. resultCh.responses + 1 # resultCh.responses
    BY <2>1
  <2> QED
    BY <2>1, <2>3, <2>4, <2>5 DEF Send
<1>4. Cardinality(DoneWorkers') = Cardinality(DoneWorkers) + 1
  BY <1>1, DoneGrows
<1>5. CountInv'
  BY <1>1, <1>3, <1>4, DoneCounted DEF CountInv, Running
<1>6. TypeOK'
  <2>1. errCh' + resultCh'.responses <= NumWorkers
    BY <1>1, <1>5, DoneCounted DEF CountInv, Running
  <2> QED
    BY <1>1, <1>3, <2>1 DEF TypeOK
<1>7. WorkersInv' /\ GoroutineInv' /\ NoClusterLeft' /\ CheckInv'
  BY <1>1, <1>2 DEF WorkersInv, GoroutineInv, NoClusterLeft, CheckInv, Running
<1>8. StepInv'
  BY <1>1, <1>2 DEF StepInv
<1>9. ReplyInv'
  BY <1>1, <1>2, <1>3, SMTT(30) DEF ReplyInv, Running, TypeOK
<1>10. ShareInv'
  <2>1. (resultCh.responses + 1) * Share = resultCh.responses * Share + Share
    BY <1>3, <1>0
  <2>2. resultCh.responses * Share \in Nat
    BY <1>3, <1>0
  <2>3. Share' = Share
    BY <1>1 DEF Share, Requests
  <2>4. resultCh'.requests \in Nat
    BY <1>3
  <2> QED
    BY <1>3, <2>1, <2>2, <2>3, <2>4, <1>0 DEF ShareInv
<1>11. ResultsInv'
  BY <1>1 DEF ResultsInv, Complete, Share, Requests, Setup
<1> QED
  BY <1>5, <1>6, <1>7, <1>8, <1>9, <1>10, <1>11

(* When all goroutines are done, no error was sent and the benchmark has   *)
(* run, its result is complete.                                            *)
LEMMA EndCallsKeeps ==
  ASSUME IInv, EndCalls
  PROVE  IInv'
<1> USE DEF IInv
<1>1. /\ at = "wait" /\ \A w \in Workers : goroutine[w] = "done"
      /\ UNCHANGED <<config, kubeVars, callVars, history, faults>>
  BY DEF EndCalls, WaitGroup
<1>2. /\ phase \in Phases /\ errCh \in Nat /\ resultCh \in [responses : Nat, requests : Nat]
      /\ results \in Seq([responses : Nat, requests : Nat]) /\ Len(results) \in Nat
  BY DEF TypeOK
<1>3. UNCHANGED <<config, created, ready, ended, awaited, cluster, goroutine, reply, err, errCh, resultCh,
                  answered, carriedOut, faults>>
  BY <1>1 DEF kubeVars, callVars, history
<1>4. WorkersInv' /\ GoroutineInv' /\ CheckInv' /\ StepInv' /\ CountInv' /\ ReplyInv' /\ ShareInv'
      /\ NoClusterLeft'
  <2>1. at' \in {"tearDown", "startCalls"}
    BY DEF EndCalls, AfterPhase, Finish
  <2> QED
    BY <1>1, <1>3, <2>1 DEF WorkersInv, GoroutineInv, CheckInv, StepInv, CountInv, ReplyInv, ShareInv,
       NoClusterLeft, Share, Requests
<1>5. CASE errCh > 0
  <2>1. at' = "tearDown" /\ result' = "error" /\ UNCHANGED <<phase, results>>
    BY <1>5 DEF EndCalls, Finish
  <2>2. TypeOK'
    BY <1>3, <2>1 DEF TypeOK
  <2>3. ResultsInv'
    BY <1>3, <2>1 DEF ResultsInv, Complete, Share, Requests, Setup
  <2> QED
    BY <1>4, <2>2, <2>3
<1>6. CASE errCh = 0
  <2>b. PICK b \in 0 .. NumBenchmarks : phase.benchmark = b
    BY <1>2, NumbersAssumption DEF Phases, Call
  <2>1. AfterPhase /\ results' = IF Running THEN Append(results, resultCh) ELSE results
    BY <1>6 DEF EndCalls
  <2>2. b \in 0 .. NumBenchmarks /\ (b = 0 <=> phase = Call("SetupWorker", 0)) /\ (b = 0 => ~Running)
    BY <2>b, <1>2, NumbersAssumption DEF Phases, Call, Running
  <2>3. Len(results) = IF b = 0 THEN 0 ELSE b - 1
    BY <2>b, <1>1 DEF ResultsInv
  <2>4. ASSUME Running
        PROVE  /\ phase = Call("RunBenchmark", b)
               /\ \A w \in Workers : phase \in carriedOut[w]
               /\ resultCh.responses = NumWorkers
               /\ Share > 0 => resultCh.requests <= Requests
    <3>1. phase = Call("RunBenchmark", b)
      BY <2>b, <1>2, <2>4 DEF Running, Phases, Call
    <3>2. \A w \in Workers : phase \in carriedOut[w]
      BY <1>1, <1>6, <2>4 DEF ReplyInv, TypeOK
    <3>3. resultCh.responses = NumWorkers
      <4>1. DoneWorkers = Workers
        BY <1>1 DEF DoneWorkers
      <4> QED
        BY <4>1, <1>1, <1>2, <1>6, <2>4, DoneCounted DEF CountInv
    <3>4. Share > 0 => resultCh.requests <= Requests
      <4>1. Share \in Nat /\ NumWorkers * Share <= Requests /\ Requests \in Nat
        BY SharesFit, NumbersAssumption DEF TypeOK, Requests
      <4>2. Share > 0 => resultCh.requests <= NumWorkers * Share
        BY <3>3 DEF ShareInv
      <4> QED
        BY <4>1, <4>2, <1>2, WorkersAssumption
    <3> QED
      BY <3>1, <3>2, <3>3, <3>4
  <2>5. /\ results' \in Seq([responses : Nat, requests : Nat])
        /\ ~Running => results' = results
        /\ Running => /\ Len(results') = Len(results) + 1
                      /\ results'[Len(results) + 1] = resultCh
                      /\ \A i \in 1 .. Len(results) : results'[i] = results[i]
    <3> HIDE DEF IInv
    <3> DEFINE R == [responses : Nat, requests : Nat]
    <3>1. results \in Seq(R) /\ resultCh \in R
      BY <1>2
    <3> HIDE DEF R
    <3>2. /\ Append(results, resultCh) \in Seq(R)
          /\ Len(Append(results, resultCh)) = Len(results) + 1
          /\ Append(results, resultCh)[Len(results) + 1] = resultCh
          /\ \A i \in 1 .. Len(results) : Append(results, resultCh)[i] = results[i]
      BY <3>1
    <3>3. CASE Running
      BY <2>1, <3>2, <3>3 DEF R
    <3>4. CASE ~Running
      BY <2>1, <3>1, <3>4 DEF R
    <3> QED
      BY <3>3, <3>4
  <2>6. \A i \in 1 .. Len(results') : Complete(i)'
    <3>1. CASE ~Running
      BY <1>3, <2>1, <3>1 DEF ResultsInv, Complete, Share, Requests
    <3>2. CASE Running
      <4>1. Len(results') = b /\ b \in Nat \ {0} /\ Len(results) = b - 1
        BY <2>2, <2>3, <2>5, <3>2
      <4>2. results'[b] = resultCh /\ \A i \in 1 .. b - 1 : results'[i] = results[i]
        BY <2>5, <3>2, <4>1
      <4>3. Complete(b)'
        BY <1>3, <2>4, <3>2, <4>2 DEF Complete, Share, Requests
      <4>4. \A i \in 1 .. b - 1 : Complete(i)'
        BY <1>3, <4>1, <4>2 DEF Complete, ResultsInv, Share, Requests
      <4> QED
        BY <4>1, <4>3, <4>4
    <3> QED
      BY <3>1, <3>2
  <2>7. Len(results') = IF Running THEN b ELSE Len(results)
    BY <2>2, <2>3, <2>5
  <2>8. CASE (Running \/ b = 0) /\ b = NumBenchmarks
    <3>1. at' = "tearDown" /\ result' = "ok" /\ phase' = phase
      BY <2>b, <2>1, <2>8 DEF AfterPhase, Finish
    <3>2. TypeOK'
      BY <1>3, <2>5, <3>1 DEF TypeOK
    <3>3. Len(results') = NumBenchmarks
      BY <2>2, <2>3, <2>7, <2>8
    <3> QED
      BY <1>4, <2>6, <3>1, <3>2, <3>3 DEF ResultsInv, Setup
  <2>9. CASE ~((Running \/ b = 0) /\ b = NumBenchmarks)
    <3>1. /\ at' = "startCalls" /\ result' = result
          /\ phase' = IF Running \/ b = 0 THEN Call("SetupBenchmark", b + 1)
                                          ELSE Call("RunBenchmark", b)
      BY <2>b, <2>1, <2>9 DEF AfterPhase
    <3>2. phase' \in Phases
      BY <2>2, <2>9, <3>1, NumbersAssumption DEF Phases
    <3>3. TypeOK'
      BY <1>3, <2>5, <3>1, <3>2 DEF TypeOK
    <3>4. Len(results') = phase'.benchmark - 1 /\ phase'.benchmark # 0
      BY <2>2, <2>3, <2>7, <3>1 DEF Call
    <3> QED
      BY <1>4, <2>6, <3>1, <3>3, <3>4 DEF ResultsInv, Setup
  <2> QED
    BY <2>8, <2>9
<1> QED
  BY <1>2, <1>5, <1>6

LEMMA InductiveInvariant == IInv /\ [Next]_vars => IInv'
<1> SUFFICES ASSUME IInv, [Next]_vars PROVE IInv'
  OBVIOUS
<1>1. CASE UNCHANGED vars
  <2> USE <1>1 DEF vars, kubeVars, callVars, history, IInv
  <2>1. TypeOK'
    BY DEF TypeOK
  <2>2. WorkersInv' /\ GoroutineInv' /\ CheckInv' /\ StepInv' /\ ShareInv' /\ NoClusterLeft'
    BY DEF WorkersInv, GoroutineInv, CheckInv, StepInv, ShareInv, Share, Requests, NoClusterLeft, Running
  <2>3. CountInv' /\ ReplyInv' /\ ResultsInv'
    BY DEF CountInv, DoneWorkers, ReplyInv, ResultsInv, Complete, Share, Requests, Running
  <2> QED
    BY <2>1, <2>2, <2>3
<1>2. CASE TaskStep \/ FailCall
  BY <1>2, TaskAloneKeeps, StartCallsKeeps, EndCallsKeeps DEF TaskStep
<1>3. ASSUME NEW w \in Workers, Goroutine(w) \/ PodReady(w) \/ PodEnds(w) PROVE IInv'
  BY <1>3, AnswerKeeps, CheckKeeps, SendKeeps, PodKeeps DEF Goroutine
<1> QED
  BY <1>1, <1>2, <1>3 DEF Next

LEMMA Invariance == Spec => []IInv
BY InitIInv, InductiveInvariant, PTL DEF Spec

-----------------------------------------------------------------------------
(* The state of the task and its goroutines keeps its type, and the two    *)
(* channels of runBenchmark hold at most one answer of each worker, so     *)
(* that their buffers suffice.                                             *)
THEOREM TypeCorrect == Spec => []TypeOK
<1>1. IInv => TypeOK
  BY DEF IInv
<1> QED
  BY <1>1, Invariance, PTL

(* The workers go through the phases of a suite in step, whatever errors   *)
(* the goroutines of a set-up phase see or lose (setupWorkers,             *)
(* setupBenchmark, runBenchmark).                                          *)
THEOREM WorkersInStep == Spec => []Lockstep
<1>1. IInv => Lockstep
  <2> SUFFICES ASSUME IInv, NEW v \in Workers, NEW w \in Workers,
                      Len(answered[v]) <= Len(answered[w])
               PROVE  /\ IsPrefix(answered[v], answered[w])
                      /\ Len(answered[w]) <= Len(answered[v]) + 1
    BY DEF Lockstep
  <2>1. /\ answered[v] \in Seq(Phases) /\ answered[w] \in Seq(Phases)
        /\ Len(answered[v]) \in Nat /\ Len(answered[w]) \in Nat /\ phase \in Phases
    BY DEF IInv, TypeOK
  <2>2. CASE answered[w] = answered[v]
    BY <2>1, <2>2 DEF IsPrefix
  <2>3. CASE answered[w] = Append(answered[v], phase)
    <3>1. Len(answered[w]) = Len(answered[v]) + 1
      BY <2>1, <2>3
    <3>2. SubSeq(answered[w], 1, Len(answered[v])) = SubSeq(answered[v], 1, Len(answered[v]))
      BY <2>1, <2>3
    <3> QED
      BY <2>1, <3>1, <3>2 DEF IsPrefix
  <2>4. CASE answered[v] = Append(answered[w], phase)
    BY <2>1, <2>4
  <2> QED
    BY <2>2, <2>3, <2>4 DEF IInv, StepInv
<1> QED
  BY <1>1, Invariance, PTL

(* Nothing calls a worker once the task tears its cluster down, also on    *)
(* the error paths (WorkerTask.Run).                                       *)
THEOREM CallsBeforeTearDown == Spec => []NoCallAfterTearDown
<1>1. IInv => NoCallAfterTearDown
  BY DEF IInv, GoroutineInv, NoCallAfterTearDown
<1> QED
  BY <1>1, Invariance, PTL

(* A task that returns no error ran every benchmark on every worker, each  *)
(* result sums the answers of all, and with a share each they made no more *)
(* requests than asked for (runBenchmark).                                 *)
THEOREM CompleteOnSuccess == Spec => []SuccessIsComplete
<1>1. IInv => SuccessIsComplete
  BY DEF IInv, ResultsInv, Complete, SuccessIsComplete
<1> QED
  BY <1>1, Invariance, PTL

(* The cluster of a task never outlives it unless its Delete failed        *)
(* (WorkerTask.Run, tearDown).                                             *)
THEOREM ClusterDeleted == Spec => []NoClusterLeft
<1>1. IInv => NoClusterLeft
  BY DEF IInv
<1> QED
  BY <1>1, Invariance, PTL

(* Whatever fails, the task tears its cluster down, and after the last     *)
(* call of a worker (WorkerTask.Run, tearDown).                            *)
THEOREM CleanReturn == Spec => []TearDownIsLast
BY CallsBeforeTearDown, ClusterDeleted, PTL DEF TearDownIsLast

-----------------------------------------------------------------------------
(* In a set-up phase an error that some goroutine sees is the answer of    *)
(* some worker, and the task awaits only workers that it has made.         *)
ProgressInv ==
  /\ at = "awaitRunning" => created = NumWorkers
  /\ at = "wait" /\ ~Running =>
       /\ err = "error" => SetupFailed
       /\ (\E w \in Workers : goroutine[w] = "send") => SetupFailed

LEMMA ProgressInductive ==
  ASSUME IInv, ProgressInv, [Next]_vars
  PROVE  ProgressInv'
<1> USE DEF ProgressInv
<1>1. CASE UNCHANGED vars
  BY <1>1 DEF vars, kubeVars, callVars, SetupFailed, Running
<1>2. CASE TaskStep \/ FailCall
  <2>1. at' = "awaitRunning" => created' = NumWorkers
    BY <1>2 DEF TaskStep, CreateCluster, CreateWorker, AwaitWorkerRunning, SetupSuite, StartCalls,
                EndCalls, AfterPhase, TearDown, FailCall, Finish, kubeVars
  <2>2. CASE at' = "wait"
    <3>1. StartCalls
      BY <1>2, <2>2 DEF TaskStep, CreateCluster, CreateWorker, AwaitWorkerRunning, SetupSuite,
                        EndCalls, AfterPhase, TearDown, FailCall, Finish
    <3> QED
      BY <2>1, <3>1 DEF StartCalls
  <2> QED
    BY <2>1, <2>2
<1>3. ASSUME NEW w \in Workers, PodReady(w) \/ PodEnds(w)
      PROVE  ProgressInv'
  BY <1>3 DEF PodReady, PodEnds, callVars, SetupFailed, Running
<1>4. ASSUME NEW w \in Workers, Goroutine(w)
      PROVE  ProgressInv'
  <2> DEFINE Seen == \E v \in Workers : goroutine[v] \in {"check", "send", "done"} /\ reply[v] = "error"
  <2>1. /\ goroutine \in [Workers -> {"none", "call", "check", "send", "done"}]
        /\ reply \in [Workers -> {"ok", "error"}]
    BY DEF IInv, TypeOK
  <2>2. at = "wait" /\ UNCHANGED <<at, created, phase>>
    BY <1>4 DEF Goroutine, Answer, Check, Send, IInv, GoroutineInv, kubeVars
  <2>3. SUFFICES ASSUME ~Running
                 PROVE  /\ err' = "error" => Seen'
                        /\ (\E v \in Workers : goroutine'[v] = "send") => Seen'
    BY <2>2 DEF SetupFailed, Running
  <2>4. /\ err = "error" => Seen
        /\ (\E v \in Workers : goroutine[v] = "send") => Seen
    BY <2>2, <2>3 DEF SetupFailed
  <2>5. CASE Answer(w)
    <3>1. PICK outcome \in {"ok", "error"} :
            reply' = [reply EXCEPT ![w] = outcome] /\ err' = outcome
      BY <2>3, <2>5 DEF Answer
    <3>2. goroutine[w] = "call" /\ goroutine' = [goroutine EXCEPT ![w] = "check"]
      BY <2>3, <2>5 DEF Answer
    <3>3. Seen => Seen'
      BY <2>1, <3>1, <3>2
    <3>4. outcome = "error" => Seen'
      BY <2>1, <3>1, <3>2
    <3>5. \A v \in Workers : goroutine'[v] = "send" => goroutine[v] = "send"
      BY <2>1, <3>2
    <3> HIDE DEF Seen
    <3> QED
      BY <2>4, <3>1, <3>3, <3>4, <3>5
  <2>6. CASE Check(w)
    <3>1. PICK seen \in {reply[w], err} :
            goroutine' = [goroutine EXCEPT ![w] = IF seen = "error" THEN "send" ELSE "done"]
      BY <2>6 DEF Check
    <3>2. goroutine[w] = "check" /\ UNCHANGED <<reply, err>>
      BY <2>6 DEF Check
    <3>3. Seen => Seen'
      BY <2>1, <3>1, <3>2
    <3>4. reply[w] = "error" => Seen
      BY <3>2
    <3>5. \A v \in Workers : goroutine'[v] = "send" => goroutine[v] = "send" \/ seen = "error"
      BY <2>1, <3>1
    <3> HIDE DEF Seen
    <3> QED
      BY <2>4, <3>1, <3>2, <3>3, <3>4, <3>5
  <2>7. ~Send(w)
    BY <2>3 DEF Send
  <2> QED
    BY <1>4, <2>5, <2>6, <2>7 DEF Goroutine
<1> QED
  BY <1>1, <1>2, <1>3, <1>4 DEF Next

LEMMA FullInvariance == Spec => [](IInv /\ ProgressInv)
<1>1. Init => ProgressInv
  BY DEF Init, ProgressInv
<1>2. IInv /\ ProgressInv /\ [Next]_vars => ProgressInv'
  BY ProgressInductive
<1> QED
  BY <1>1, <1>2, Invariance, PTL DEF Spec

(* Whatever calls fail and pods end, the task waits for ever only when a   *)
(* set-up call of the phase has failed, the pod of the worker it awaits    *)
(* has ended, or a run has neither requests nor a duration; otherwise the  *)
(* task, a goroutine or a pod can go on (WorkerTask.run and its phases).   *)
THEOREM NoDeadlock == Spec => []NeverStuck
<1>1. IInv /\ ProgressInv => NeverStuck
  <2> SUFFICES ASSUME IInv, ProgressInv, at # "returned",
                      ~SetupFailed, ~WorkerMissed, ~RunsForEver, ~TaskCanRun,
                      \A w \in Workers : ~GoroutineCanRun(w) /\ ~PodCanStart(w)
               PROVE  FALSE
    BY DEF NeverStuck
  <2>1. CASE at = "awaitRunning"
    <3>1. created = NumWorkers /\ awaited \in 0 .. NumWorkers /\ awaited < NumWorkers
      BY <2>1 DEF ProgressInv, IInv, WorkersInv, TypeOK
    <3>2. awaited + 1 \in Workers /\ awaited + 1 \in 1 .. created
      BY <3>1, WorkersAssumption DEF Workers
    <3> QED
      BY <2>1, <3>2 DEF TaskCanRun, WorkerMissed, PodCanStart
  <2>2. CASE at = "wait"
    <3>1. PICK w \in Workers : goroutine[w] # "done"
      BY <2>2 DEF TaskCanRun, WaitGroup
    <3>2. goroutine[w] = "send" /\ ~Running
      BY <2>2, <3>1 DEF GoroutineCanRun, RunsForEver, IInv, GoroutineInv, TypeOK
    <3> QED
      BY <2>2, <3>2 DEF ProgressInv
  <2> QED
    BY <2>1, <2>2 DEF TaskCanRun, IInv, TypeOK
<1> QED
  BY <1>1, FullInvariance, PTL

-----------------------------------------------------------------------------
(* The steps left are those of the task, of its goroutines and of the      *)
(* workers that may come up or end.                                        *)
Turn == 2 + 3 * NumWorkers
OfTask == PhasesLeft * Turn + TaskLeft[at]
OfGoroutines ==
  GoroutinesIn({"call"}) + GoroutinesIn({"call", "check"}) + GoroutinesIn({"call", "check", "send"})
OfWorkers ==
  (NumWorkers - created) + (NumWorkers - awaited) + (NumWorkers - Cardinality(ready))
    + (NumWorkers - Cardinality(ended))

LEMMA TaskLeftIs ==
  /\ TaskLeft["createCluster"] = 7 + 3 * NumWorkers
  /\ TaskLeft["createWorkers"] = 6 + 3 * NumWorkers
  /\ TaskLeft["awaitRunning"] = 5 + 3 * NumWorkers
  /\ TaskLeft["setupSuite"] = 4 + 3 * NumWorkers
  /\ TaskLeft["startCalls"] = 3 + 3 * NumWorkers
  /\ TaskLeft["wait"] = 2 /\ TaskLeft["tearDown"] = 1 /\ TaskLeft["returned"] = 0
BY DEF TaskLeft

LEMMA SomeWorkers ==
  ASSUME NEW f, NEW states
  PROVE  Cardinality({w \in Workers : f[w] \in states}) \in 0 .. NumWorkers
<1> DEFINE D == {w \in Workers : f[w] \in states}
<1>1. IsFiniteSet(Workers) /\ Cardinality(Workers) = NumWorkers
  BY WorkersAssumption, FS_Interval DEF Workers
<1>2. IsFiniteSet(D) /\ Cardinality(D) <= Cardinality(Workers)
  BY <1>1, FS_Subset
<1>3. Cardinality(D) \in Nat
  BY <1>2, FS_CardinalityType
<1> QED
  BY <1>1, <1>2, <1>3, WorkersAssumption

LEMMA GoroutinesCounted ==
  ASSUME NEW states
  PROVE  GoroutinesIn(states) \in 0 .. NumWorkers /\ GoroutinesIn(states)' \in 0 .. NumWorkers
BY SomeWorkers DEF GoroutinesIn

LEMMA GoroutineMoves ==
  ASSUME TypeOK, NEW w \in Workers, NEW y, goroutine' = [goroutine EXCEPT ![w] = y], NEW states
  PROVE  GoroutinesIn(states)' =
           IF y \in states /\ goroutine[w] \notin states THEN GoroutinesIn(states) + 1
           ELSE IF y \notin states /\ goroutine[w] \in states THEN GoroutinesIn(states) - 1
           ELSE GoroutinesIn(states)
<1> DEFINE D == {v \in Workers : goroutine[v] \in states}
           E == {v \in Workers : goroutine'[v] \in states}
<1>1. IsFiniteSet(D)
  <2>1. IsFiniteSet(Workers)
    BY WorkersAssumption, FS_Interval DEF Workers
  <2> QED
    BY <2>1, FS_Subset
<1>2. GoroutinesIn(states) = Cardinality(D) /\ GoroutinesIn(states)' = Cardinality(E)
  BY DEF GoroutinesIn
<1>3. \A v \in Workers : goroutine'[v] = IF v = w THEN y ELSE goroutine[v]
  BY DEF TypeOK
<1>4. CASE y \in states /\ goroutine[w] \notin states
  <2>1. E = D \cup {w} /\ w \notin D
    BY <1>3, <1>4
  <2> QED
    BY <1>1, <1>2, <1>4, <2>1, FS_AddElement
<1>5. CASE y \notin states /\ goroutine[w] \in states
  <2>1. E = D \ {w} /\ w \in D
    BY <1>3, <1>5
  <2> QED
    BY <1>1, <1>2, <1>5, <2>1, FS_RemoveElement
<1>6. CASE y \in states <=> goroutine[w] \in states
  <2>1. E = D
    BY <1>3, <1>6
  <2> QED
    BY <1>2, <1>6, <2>1
<1> QED
  BY <1>4, <1>5, <1>6

LEMMA PodsCounted ==
  ASSUME TypeOK
  PROVE  /\ IsFiniteSet(ready) /\ Cardinality(ready) \in 0 .. NumWorkers
         /\ IsFiniteSet(ended) /\ Cardinality(ended) \in 0 .. NumWorkers
<1>1. created \in 0 .. NumWorkers /\ ready \subseteq 1 .. created /\ ended \subseteq 1 .. created
  BY DEF TypeOK
<1>2. IsFiniteSet(1 .. created) /\ Cardinality(1 .. created) = created
  BY <1>1, FS_Interval
<1>3. ASSUME NEW S \in SUBSET (1 .. created)
      PROVE  IsFiniteSet(S) /\ Cardinality(S) \in 0 .. NumWorkers
  <2>1. IsFiniteSet(S) /\ Cardinality(S) <= created
    BY <1>2, FS_Subset
  <2> QED
    BY <2>1, <1>1, FS_CardinalityType, WorkersAssumption
<1> QED
  BY <1>1, <1>3

LEMMA PhasesLeftType ==
  ASSUME TypeOK
  PROVE  PhasesLeft \in Nat /\ Turn \in Nat /\ PhasesLeft * Turn \in Nat
<1>1. phase.benchmark \in 0 .. NumBenchmarks
  BY NumbersAssumption DEF TypeOK, Phases, Call
<1>2. PhasesLeft \in Nat
  BY <1>1, NumbersAssumption DEF PhasesLeft
<1>3. Turn \in Nat
  BY WorkersAssumption DEF Turn
<1> QED
  BY <1>2, <1>3

PartsOK ==
  /\ OfTask \in Nat /\ OfGoroutines \in Nat /\ OfWorkers \in Nat
  /\ StepsLeft = OfTask + OfGoroutines + OfWorkers

LEMMA Parts ==
  ASSUME TypeOK
  PROVE  PartsOK
<1>1. PhasesLeft * Turn \in Nat
  BY PhasesLeftType
<1>2. TaskLeft[at] \in Nat
  <2>1. at \in {"createCluster", "createWorkers", "awaitRunning", "setupSuite",
               "startCalls", "wait", "tearDown", "returned"}
    BY DEF TypeOK
  <2>2. NumWorkers \in Nat /\ 3 * NumWorkers \in Nat
    BY WorkersAssumption
  <2> QED
    BY <2>1, <2>2, TaskLeftIs
<1>3. /\ GoroutinesIn({"call"}) \in Nat /\ GoroutinesIn({"call", "check"}) \in Nat
      /\ GoroutinesIn({"call", "check", "send"}) \in Nat
  BY GoroutinesCounted, WorkersAssumption
<1>4. /\ NumWorkers - created \in Nat /\ NumWorkers - awaited \in Nat
      /\ NumWorkers - Cardinality(ready) \in Nat /\ NumWorkers - Cardinality(ended) \in Nat
  BY PodsCounted, WorkersAssumption DEF TypeOK
<1>5. StepsLeft = PhasesLeft * Turn + TaskLeft[at]
        + GoroutinesIn({"call"}) + GoroutinesIn({"call", "check"})
        + GoroutinesIn({"call", "check", "send"})
        + (NumWorkers - created) + (NumWorkers - awaited) + (NumWorkers - Cardinality(ready))
        + (NumWorkers - Cardinality(ended))
  BY DEF StepsLeft, Turn
<1> DEFINE p == PhasesLeft * Turn
           x == NumWorkers - created
           y == NumWorkers - awaited
           z == NumWorkers - Cardinality(ready)
           e == NumWorkers - Cardinality(ended)
<1>6. p \in Nat /\ x \in Nat /\ y \in Nat /\ z \in Nat /\ e \in Nat
  BY <1>1, <1>4
<1>7. OfTask = p + TaskLeft[at] /\ OfWorkers = x + y + z + e
  BY DEF OfTask, OfWorkers
<1>8. StepsLeft = p + TaskLeft[at] + GoroutinesIn({"call"}) + GoroutinesIn({"call", "check"})
                    + GoroutinesIn({"call", "check", "send"}) + x + y + z + e
  BY <1>5
<1> HIDE DEF p, x, y, z, e
<1> QED
  BY <1>2, <1>3, <1>6, <1>7, <1>8 DEF OfGoroutines, PartsOK

LEMMA FewerPhases ==
  ASSUME NEW p \in Nat, NEW q \in Nat, p <= q
  PROVE  p * Turn <= q * Turn /\ p * Turn \in Nat /\ q * Turn \in Nat
<1>1. Turn \in Nat
  BY WorkersAssumption DEF Turn
<1> QED
  BY <1>1

(* The task takes a step of its own or sees a worker up, alone.            *)
LEMMA AloneStepsDown ==
  ASSUME IInv, PartsOK, PartsOK',
         CreateCluster \/ CreateWorker \/ AwaitWorkerRunning \/ SetupSuite \/ TearDown \/ FailCall
  PROVE  /\ OfGoroutines' = OfGoroutines
         /\ \/ OfTask' < OfTask /\ OfWorkers' <= OfWorkers
            \/ OfTask' <= OfTask /\ OfWorkers' < OfWorkers
<1> USE DEF IInv
<1>1. OfGoroutines' = OfGoroutines
  <2>1. goroutine' = goroutine
    BY DEF CreateCluster, CreateWorker, AwaitWorkerRunning, SetupSuite, TearDown, FailCall, callVars
  <2> QED
    BY <2>1 DEF OfGoroutines, GoroutinesIn
<1>2. NumWorkers \in Nat /\ 3 * NumWorkers \in Nat /\ PhasesLeft * Turn \in Nat
      /\ Turn \in Nat /\ PhasesLeft \in Nat
  BY WorkersAssumption, PhasesLeftType
<1>3. /\ created \in Nat /\ awaited \in Nat
      /\ Cardinality(ready) \in Nat /\ Cardinality(ended) \in Nat
  BY PodsCounted, <1>2 DEF TypeOK
<1>4. ASSUME at' = "tearDown" \/ at' = "returned", at # "returned",
             at = "tearDown" => at' = "returned", UNCHANGED <<created, awaited, ready, ended>>
      PROVE  OfTask' < OfTask /\ OfWorkers' = OfWorkers
  <2>1. OfWorkers' = OfWorkers
    BY <1>4 DEF OfWorkers
  <2>2. PhasesLeft' = 0
    BY <1>4 DEF PhasesLeft
  <2>3. (PhasesLeft * Turn)' = 0
    BY <1>2, <2>2 DEF Turn
  <2>4. OfTask' = TaskLeft[at]'
    BY <2>3, <1>4, TaskLeftIs DEF OfTask, TaskLeft
  <2>5. TaskLeft[at]' < TaskLeft[at]
    <3>1. \/ at' = "returned" /\ at \notin {"returned"}
          \/ at' = "tearDown" /\ at \notin {"tearDown", "returned"}
      BY <1>4
    <3>2. /\ at \notin {"returned"} => TaskLeft[at] > 0
          /\ at \notin {"tearDown", "returned"} => TaskLeft[at] > 1
      BY <1>2, TaskLeftIs DEF TypeOK
    <3> QED
      BY <3>1, <3>2, TaskLeftIs DEF TaskLeft
  <2>6. TaskLeft[at] \in Nat
    BY <1>2, TaskLeftIs DEF TypeOK
  <2>7. OfTask >= TaskLeft[at]
    BY <1>2, <2>6 DEF OfTask
  <2>8. OfTask \in Nat /\ OfTask' \in Nat
    BY DEF PartsOK
  <2> QED
    BY <2>1, <2>4, <2>5, <2>6, <2>7, <2>8
<1>5. ASSUME at' \notin {"tearDown", "returned"}, at \notin {"tearDown", "returned"},
             phase' = phase
      PROVE  (PhasesLeft * Turn)' = PhasesLeft * Turn
  BY <1>5 DEF PhasesLeft, Turn
<1>6. OfWorkers' = OfWorkers => OfWorkers' <= OfWorkers
  BY DEF PartsOK
<1>7. CASE TearDown \/ FailCall
  <2>1. /\ at' = "tearDown" \/ at' = "returned"
        /\ at # "returned"
        /\ at = "tearDown" => at' = "returned"
        /\ UNCHANGED <<created, awaited, ready, ended>>
    BY <1>7 DEF TearDown, FailCall, Finish
  <2> QED
    BY <1>1, <1>4, <2>1, <1>6
<1>8. CASE SetupSuite /\ at' = "tearDown"
  <2>1. at = "setupSuite" /\ UNCHANGED <<created, awaited, ready, ended>>
    BY <1>8 DEF SetupSuite, kubeVars
  <2> QED
    BY <1>1, <1>4, <1>8, <2>1, <1>6
<1>9. CASE CreateCluster \/ (SetupSuite /\ at' # "tearDown")
  <2>1. /\ at \notin {"tearDown", "returned"} /\ at' \notin {"tearDown", "returned"}
        /\ UNCHANGED <<phase, created, awaited, ready, ended>>
        /\ \/ at = "createCluster" /\ at' = "createWorkers"
           \/ at = "setupSuite" /\ at' = "startCalls"
    BY <1>9 DEF CreateCluster, SetupSuite, Finish, kubeVars
  <2>2. TaskLeft[at]' < TaskLeft[at] /\ TaskLeft[at] \in Nat /\ TaskLeft[at]' \in Nat
    BY <1>2, <2>1, TaskLeftIs DEF TaskLeft
  <2>3. OfTask' = PhasesLeft * Turn + TaskLeft[at]'
    BY <1>5, <2>1 DEF OfTask
  <2>4. OfTask = PhasesLeft * Turn + TaskLeft[at]
    BY DEF OfTask
  <2>5. OfTask' < OfTask
    BY <1>2, <2>2, <2>3, <2>4
  <2>6. OfWorkers' = OfWorkers
    BY <2>1 DEF OfWorkers
  <2> QED
    BY <1>1, <2>5, <2>6, <1>6
<1>10. CASE CreateWorker \/ AwaitWorkerRunning
  <2>1. /\ at \notin {"tearDown", "returned"} /\ at' \notin {"tearDown", "returned"}
        /\ phase' = phase /\ ready' = ready /\ ended' = ended
        /\ \/ at' = at
           \/ at = "createWorkers" /\ at' = "awaitRunning"
           \/ at = "awaitRunning" /\ at' = "setupSuite"
        /\ \/ created' = created + 1 /\ awaited' = awaited
           \/ created' = created /\ awaited' = awaited + 1
    BY <1>10 DEF CreateWorker, AwaitWorkerRunning
  <2>2. TaskLeft[at]' <= TaskLeft[at] /\ TaskLeft[at] \in Nat /\ TaskLeft[at]' \in Nat
    <3>1. CASE at' = at
      <4>1. TaskLeft[at] \in Nat
        BY <1>2, <2>1, TaskLeftIs DEF TypeOK
      <4> QED
        BY <3>1, <4>1 DEF TaskLeft
    <3>2. CASE at' # at
      BY <1>2, <2>1, <3>2, TaskLeftIs DEF TaskLeft
    <3> QED
      BY <3>1, <3>2
  <2>3. OfTask' = PhasesLeft * Turn + TaskLeft[at]'
    BY <1>5, <2>1 DEF OfTask
  <2>4. OfTask = PhasesLeft * Turn + TaskLeft[at]
    BY DEF OfTask
  <2>5. OfTask' <= OfTask
    BY <1>2, <2>2, <2>3, <2>4
  <2>6. OfWorkers' < OfWorkers
    BY <1>2, <1>3, <2>1 DEF OfWorkers
  <2> QED
    BY <1>1, <2>5, <2>6
<1> QED
  BY <1>7, <1>8, <1>9, <1>10

LEMMA MoreThanAdded ==
  ASSUME NEW t0 \in Nat, NEW t \in Nat, NEW g0 \in Nat, NEW g \in Nat, NEW n \in Nat,
         t0 - t > n, g <= n
  PROVE  t + g < t0 + g0
OBVIOUS

(* A phase starts: each goroutine has three steps.                         *)
LEMMA StartStepsDown ==
  ASSUME IInv, PartsOK, PartsOK', StartCalls
  PROVE  OfTask' + OfGoroutines' < OfTask + OfGoroutines /\ OfWorkers' = OfWorkers
<1> USE DEF IInv
<1>1. NumWorkers \in Nat /\ 3 * NumWorkers \in Nat /\ PhasesLeft * Turn \in Nat
  BY WorkersAssumption, PhasesLeftType
<1>2. at = "startCalls" /\ at' = "wait" /\ phase' = phase
      /\ UNCHANGED <<created, awaited, ready, ended>>
  BY DEF StartCalls, kubeVars
<1>3. (PhasesLeft * Turn)' = PhasesLeft * Turn
  BY <1>2 DEF PhasesLeft, Turn
<1>4. OfTask = PhasesLeft * Turn + (3 + 3 * NumWorkers) /\ OfTask' = PhasesLeft * Turn + 2
  BY <1>2, <1>3, TaskLeftIs DEF OfTask, TaskLeft
<1>5. OfTask - OfTask' > 3 * NumWorkers
  BY <1>1, <1>4
<1>6. OfGoroutines' <= 3 * NumWorkers
  <2>1. NumWorkers \in Nat
    BY WorkersAssumption
  <2>2. /\ GoroutinesIn({"call"})' \in 0 .. NumWorkers
        /\ GoroutinesIn({"call", "check"})' \in 0 .. NumWorkers
        /\ GoroutinesIn({"call", "check", "send"})' \in 0 .. NumWorkers
    BY GoroutinesCounted
  <2> QED
    BY <2>1, <2>2 DEF OfGoroutines
<1>7. OfWorkers' = OfWorkers
  BY <1>2 DEF OfWorkers
<1>8. /\ OfTask \in Nat /\ OfTask' \in Nat
      /\ OfGoroutines \in Nat /\ OfGoroutines' \in Nat
  BY DEF PartsOK
<1>9. OfTask' + OfGoroutines' < OfTask + OfGoroutines
  BY <1>1, <1>5, <1>6, <1>8, MoreThanAdded
<1> QED
  BY <1>7, <1>9

(* A phase ends: one phase less, or none.                                  *)
LEMMA EndStepsDown ==
  ASSUME IInv, PartsOK, PartsOK', EndCalls
  PROVE  OfTask' < OfTask /\ OfGoroutines' = OfGoroutines /\ OfWorkers' = OfWorkers
<1> USE DEF IInv
<1>1. NumWorkers \in Nat /\ 3 * NumWorkers \in Nat /\ PhasesLeft * Turn \in Nat
      /\ Turn \in Nat /\ PhasesLeft \in Nat
  BY WorkersAssumption, PhasesLeftType
<1>2. at = "wait" /\ UNCHANGED <<created, awaited, ready, ended, goroutine>>
  BY DEF EndCalls, kubeVars, callVars
<1>3. OfGoroutines' = OfGoroutines /\ OfWorkers' = OfWorkers
  BY <1>2 DEF OfGoroutines, GoroutinesIn, OfWorkers
<1>4. OfTask = PhasesLeft * Turn + 2 /\ OfTask \in Nat /\ OfTask' \in Nat
  BY <1>2, TaskLeftIs DEF OfTask, PartsOK
<1>5. CASE at' = "tearDown"
  <2>1. PhasesLeft' = 0
    BY <1>5 DEF PhasesLeft
  <2>2. (PhasesLeft * Turn)' = 0
    BY <1>1, <2>1 DEF Turn
  <2>3. OfTask' = 1
    BY <1>5, <2>2, TaskLeftIs DEF OfTask, TaskLeft
  <2> QED
    BY <1>1, <1>3, <1>4, <2>3
<1>6. CASE at' # "tearDown"
  <2>1. AfterPhase
    BY <1>6 DEF EndCalls, Finish
  <2>2. at' = "startCalls"
        /\ ~((Running \/ phase.benchmark = 0) /\ phase.benchmark = NumBenchmarks)
        /\ phase' = IF Running \/ phase.benchmark = 0
                      THEN Call("SetupBenchmark", phase.benchmark + 1)
                      ELSE Call("RunBenchmark", phase.benchmark)
    BY <1>6, <2>1 DEF AfterPhase, Finish
  <2>3. /\ phase.benchmark \in 0 .. NumBenchmarks /\ NumBenchmarks \in Nat
        /\ phase.call \in {"SetupWorker", "SetupBenchmark", "RunBenchmark"}
        /\ phase.call = "SetupWorker" <=> phase.benchmark = 0
    BY NumbersAssumption DEF TypeOK, Phases, Call
  <2>4. PhasesLeft = PhasesLeft' + 1 /\ PhasesLeft' \in Nat
    <3>1. PhasesLeft = 2 * (NumBenchmarks - phase.benchmark)
                        + (IF phase.call = "SetupBenchmark" THEN 1 ELSE 0)
      BY <1>2 DEF PhasesLeft
    <3>2. PhasesLeft' = 2 * (NumBenchmarks - phase'.benchmark)
                         + (IF phase'.call = "SetupBenchmark" THEN 1 ELSE 0)
      BY <2>2 DEF PhasesLeft
    <3>3. CASE Running \/ phase.benchmark = 0
      <4>1. phase'.benchmark = phase.benchmark + 1 /\ phase'.call = "SetupBenchmark"
        BY <2>2, <3>3 DEF Call
      <4>2. phase.call # "SetupBenchmark" /\ phase.benchmark < NumBenchmarks
        BY <2>2, <2>3, <3>3 DEF Running
      <4> QED
        BY <2>3, <3>1, <3>2, <4>1, <4>2
    <3>4. CASE ~(Running \/ phase.benchmark = 0)
      <4>1. phase'.benchmark = phase.benchmark /\ phase'.call = "RunBenchmark"
        BY <2>2, <3>4 DEF Call
      <4>2. phase.call = "SetupBenchmark"
        BY <2>3, <3>4 DEF Running
      <4> QED
        BY <2>3, <3>1, <3>2, <4>1, <4>2
    <3> QED
      BY <3>3, <3>4
  <2>5. PhasesLeft * Turn = PhasesLeft' * Turn + Turn
    BY <1>1, <2>4
  <2>6. OfTask' = PhasesLeft' * Turn + (3 + 3 * NumWorkers)
    BY <2>2, TaskLeftIs DEF OfTask, TaskLeft, Turn
  <2>7. PhasesLeft' * Turn \in Nat
    BY <2>4, FewerPhases
  <2>8. Turn = 2 + 3 * NumWorkers
    BY DEF Turn
  <2>9. OfTask' < OfTask
    BY <1>1, <1>4, <2>5, <2>6, <2>7, <2>8
  <2> QED
    BY <1>3, <2>9, Zenon
<1> QED
  BY <1>5, <1>6

(* A goroutine goes on.                                                    *)
LEMMA GoroutineStepsDown ==
  ASSUME IInv, PartsOK, PartsOK', NEW w \in Workers, Goroutine(w)
  PROVE  OfTask' = OfTask /\ OfGoroutines' < OfGoroutines /\ OfWorkers' = OfWorkers
<1> USE DEF IInv
<1>1. UNCHANGED <<at, phase, created, awaited, ready, ended>>
  BY DEF Goroutine, Answer, Check, Send, kubeVars
<1>2. OfTask' = OfTask /\ OfWorkers' = OfWorkers
  BY <1>1 DEF OfTask, OfWorkers, PhasesLeft, TaskLeft, Turn
<1>3. PICK y \in {"check", "send", "done"} :
        /\ goroutine' = [goroutine EXCEPT ![w] = y]
        /\ \/ goroutine[w] = "call" /\ y \in {"check", "send"}
           \/ goroutine[w] = "check" /\ y \in {"send", "done"}
           \/ goroutine[w] = "send" /\ y = "done"
  <2>1. CASE Answer(w)
    <3>1. goroutine[w] = "call"
          /\ goroutine' = [goroutine EXCEPT ![w] = IF Running THEN "send" ELSE "check"]
      BY <2>1 DEF Answer
    <3> QED
      BY <3>1
  <2>2. CASE Check(w)
    <3>1. goroutine[w] = "check" /\ \E seen \in {reply[w], err} :
            goroutine' = [goroutine EXCEPT ![w] = IF seen = "error" THEN "send" ELSE "done"]
      BY <2>2 DEF Check
    <3> QED
      BY <3>1
  <2>3. CASE Send(w)
    BY <2>3 DEF Send
  <2> QED
    BY <2>1, <2>2, <2>3 DEF Goroutine
<1> DEFINE Moves(states) ==
      GoroutinesIn(states)' =
        IF y \in states /\ goroutine[w] \notin states THEN GoroutinesIn(states) + 1
        ELSE IF y \notin states /\ goroutine[w] \in states THEN GoroutinesIn(states) - 1
        ELSE GoroutinesIn(states)
<1>4. Moves({"call"}) /\ Moves({"call", "check"}) /\ Moves({"call", "check", "send"})
  BY <1>3, GoroutineMoves
<1>5. /\ GoroutinesIn({"call"}) \in Nat /\ GoroutinesIn({"call", "check"}) \in Nat
      /\ GoroutinesIn({"call", "check", "send"}) \in Nat
  BY GoroutinesCounted, WorkersAssumption
<1>6. OfGoroutines' < OfGoroutines
  BY <1>3, <1>4, <1>5 DEF OfGoroutines
<1> QED
  BY <1>2, <1>6

(* A pod gets ready or ends.                                               *)
LEMMA PodStepsDown ==
  ASSUME IInv, PartsOK, PartsOK', NEW w \in Workers, PodReady(w) \/ PodEnds(w)
  PROVE  OfTask' = OfTask /\ OfGoroutines' = OfGoroutines /\ OfWorkers' < OfWorkers
<1> USE DEF IInv
<1>1. /\ UNCHANGED <<at, phase, created, awaited, goroutine>>
      /\ \/ ready' = ready \cup {w} /\ w \notin ready /\ ended' = ended
         \/ ended' = ended \cup {w} /\ w \notin ended /\ ready' = ready
  BY DEF PodReady, PodEnds, callVars
<1>2. OfTask' = OfTask /\ OfGoroutines' = OfGoroutines
  BY <1>1 DEF OfTask, OfGoroutines, GoroutinesIn, PhasesLeft, TaskLeft, Turn
<1>3. /\ Cardinality(ready) \in Nat /\ Cardinality(ended) \in Nat
      /\ \/ Cardinality(ready') = Cardinality(ready) + 1 /\ ended' = ended
         \/ Cardinality(ended') = Cardinality(ended) + 1 /\ ready' = ready
  BY <1>1, PodsCounted, FS_AddElement
<1>4. NumWorkers \in Nat /\ created \in Nat /\ awaited \in Nat
  BY WorkersAssumption DEF TypeOK
<1> QED
  BY <1>1, <1>2, <1>3, <1>4 DEF OfWorkers

OneLess(t0, g0, w0, t, g, w) ==
  \/ t < t0 /\ g = g0 /\ w <= w0
  \/ t <= t0 /\ g = g0 /\ w < w0
  \/ t + g < t0 + g0 /\ w = w0
  \/ t = t0 /\ g < g0 /\ w = w0

LEMMA LessInAll ==
  ASSUME NEW t0 \in Nat, NEW g0 \in Nat, NEW w0 \in Nat,
         NEW t \in Nat, NEW g \in Nat, NEW w \in Nat, OneLess(t0, g0, w0, t, g, w)
  PROVE  t + g + w \in 0 .. (t0 + g0 + w0) - 1
BY DEF OneLess

(* Every step of the task, of a goroutine or of a pod uses up one of the   *)
(* finitely many steps left, so no phase is run twice and the task ends    *)
(* unless it waits for ever (run, runBenchmarks).                          *)
THEOREM EveryStepCounts == Spec => StepsRunOut
<1>1. IInv => PartsOK
  BY Parts DEF IInv
<1>2. IInv /\ PartsOK /\ PartsOK' /\ [Next]_vars => [StepsLeft' \in 0 .. StepsLeft - 1]_vars
  <2> SUFFICES ASSUME IInv, PartsOK, PartsOK', Next
               PROVE  StepsLeft' \in 0 .. StepsLeft - 1
    OBVIOUS
  <2>1. OneLess(OfTask, OfGoroutines, OfWorkers, OfTask', OfGoroutines', OfWorkers')
    <3>1. CASE TaskStep \/ FailCall
      <4>1. CASE StartCalls
        BY <4>1, StartStepsDown, Zenon DEF OneLess
      <4>2. CASE EndCalls
        <5>1. OfWorkers' <= OfWorkers
          BY <4>2, EndStepsDown DEF PartsOK
        <5> QED
          BY <4>2, <5>1, EndStepsDown, Zenon DEF OneLess
      <4>3. CASE CreateCluster \/ CreateWorker \/ AwaitWorkerRunning \/ SetupSuite
                 \/ TearDown \/ FailCall
        BY <4>3, AloneStepsDown, Zenon DEF OneLess
      <4> QED
        BY <3>1, <4>1, <4>2, <4>3 DEF TaskStep
    <3>2. ASSUME NEW w \in Workers, Goroutine(w) \/ PodReady(w) \/ PodEnds(w)
          PROVE  OneLess(OfTask, OfGoroutines, OfWorkers, OfTask', OfGoroutines', OfWorkers')
      <4>1. CASE Goroutine(w)
        BY <4>1, GoroutineStepsDown, Zenon DEF OneLess
      <4>2. CASE PodReady(w) \/ PodEnds(w)
        <5>1. OfTask' <= OfTask
          BY <4>2, PodStepsDown DEF PartsOK
        <5> QED
          BY <4>2, <5>1, PodStepsDown, Zenon DEF OneLess
      <4> QED
        BY <3>2, <4>1, <4>2
    <3> QED
      BY <3>1, <3>2 DEF Next
  <2>2. /\ OfTask \in Nat /\ OfGoroutines \in Nat /\ OfWorkers \in Nat
        /\ OfTask' \in Nat /\ OfGoroutines' \in Nat /\ OfWorkers' \in Nat
        /\ StepsLeft = OfTask + OfGoroutines + OfWorkers
        /\ StepsLeft' = OfTask' + OfGoroutines' + OfWorkers'
    BY DEF PartsOK
  <2>3. OfTask' + OfGoroutines' + OfWorkers' \in 0 .. (OfTask + OfGoroutines + OfWorkers) - 1
    BY <2>1, <2>2, LessInAll
  <2> QED
    BY <2>2, <2>3
<1> QED
  BY <1>1, <1>2, Invariance, PTL DEF Spec, StepsRunOut
=============================================================================
