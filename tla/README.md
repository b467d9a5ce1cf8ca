# Verification of onos-test

onos-test (`src/`) runs integration tests and benchmarks of ONOS on Kubernetes.
The command line starts a *job* in a cluster; the process in the job's pod, the
*coordinator*, creates a namespace (a "test cluster") for each suite, runs the
suite in a pod there and deletes the namespace; the suite deploys services and
device simulators and tests them. Nearly all of it is code that changes objects
of a shared Kubernetes API, and most of it runs in several goroutines, or in
several processes, at once. This directory holds TLA+ models of that code, the
TLC runs that check them and the proofs that TLAPS checks.

* [Inventory](#inventory)
* [Modules](#modules)
* [Runs](#runs)
* [Proofs](#proofs)
* [Where the code and its documents part](#where-the-code-and-its-documents-part)
* [Plan](#plan)
* [Not modelled](#not-modelled)

## Inventory

| Component | Source | State | Operations | Hard part | Right when |
|---|---|---|---|---|---|
| Test cluster | `pkg/cluster/cluster.go` | in Kubernetes: namespace, service account, one cluster role and one role binding for *all* clusters | `Create`, `Delete` | many processes update the one binding, optimistically; answers get lost; `Delete` waits on a watch | no grant is ever lost, a created cluster works, a deleted one is gone |
| Test coordinator | `pkg/test/coordinator.go`, `config.go`, `executor.go` | a task per suite, two channels, a wait group, one environment map, the exit status | `Run`, `runWorkers`, `WorkerTask.Run` | goroutines per suite, first error wins, `os.Exit` under running goroutines | the exit status tells the truth and nothing is left behind |
| Benchmark coordinator | `pkg/benchmark/coordinator.go` | a task per suite, gRPC clients of its workers | `WorkerTask.Run`, set-up phases, `runBenchmark` | fan-out to workers with shared variables and channels | workers in step, results complete, errors reported |
| Benchmark worker | `pkg/benchmark/worker.go` | map of suites | one handler per call | concurrent calls, panicking suites | a call is carried out or fails |
| Benchmark runner | `pkg/benchmark/benchmark.go` | two pools of clients, three channels, batches of latencies | `Run` | bounded channels, batches of batches, end time | every request is made, timed and counted once |
| Job runner | `pkg/cluster/runner.go`, `pkg/onit/cli/{job,test,benchmark}.go` | namespace and rights shared by all jobs, a job and its pod per command | the commands, `Run` | names that collide, set-ups that stop half-way, polls of a pod that can be gone, a deadline | a job has its rights, the exit code of a command is that of its own job |
| Test worker | `pkg/test/worker.go`, `test.go` | hooks of a suite | `RunTests` | panics in hooks | what was set up is torn down |
| Cluster set-up | `pkg/onit/setup/` | what the builders carry | the builders, `Setup` | concurrent set-ups, one unbuffered error channel, arguments that override settings, a second run | Atomix first; nil means that everything is up |
| Cluster resources | `pkg/onit/cluster/` (services, databases, CLI) | deployments, services, config maps, secrets, databases | `Setup`, `TearDown`, `AwaitReady` | several objects in order, any call fails | nothing is created or awaited under a wrong condition |
| Simulators, networks | `pkg/onit/cluster/{simulator,network}.go` | config map, pod, services, devices in onos-topo | `Setup`, `TearDown`, `AwaitDevicePredicate` | failures half-way, names that collide, watch after delete | added means whole, removed means gone, an orphan is reported |
| Test environment | `pkg/onit/env/`, `pkg/onit/cli/{add,remove}.go` | handles of the above | `AddAll`, `Add`, `Remove`, `Kill`, the lists | pool of goroutines, unbuffered error channel, commands that interfere | all are added, or an error |
| Command line, Kubernetes clients, utilities, stubs | `pkg/onit/cli`, `pkg/kube`, `pkg/util`, `*.pb.go` | none | parse, print, connect | none | |

How they interact. The command line calls `Runner.Run`, which creates the job
and polls its pod. The job's process runs a coordinator, which calls
`Cluster.Create` and `Cluster.Delete` from one goroutine per suite, so Creates
and Deletes of different clusters run concurrently, in one process or in
several. The coordinator sees its suites' pods only by polling the API and
reading their logs; the benchmark coordinator also calls its workers over gRPC.
A suite, in its pod, sets its services up with `setup.Setup` and adds
simulators, networks and apps through `env`; the commands `onit create`, `onit
add` and `onit remove` do the same from a process each, on the same objects.
Devices are entered in onos-topo, a service of the cluster. Shared state is of
two kinds: objects in Kubernetes (the role binding above all, services that
share names) and variables shared by goroutines (the environment map of
`Config`, the `err` of the set-up phases, the channels). The hazards this brings
are listed in `PROJECT.json` at the line where each bites.

## Modules

| Module | Models | |
|---|---|---|
| `GrantLog` | what `createClusterRoleBinding` promises: an atomic append to a log of grants | abstract |
| `Cluster` | `Cluster.Create` and `Delete` by several processes, and the API objects they touch | implements `GrantLog` |
| `ClusterProofs` | invariants of `Cluster` and its refinement, proved | proofs |
| `SuiteVerdict` | what the exit status of the coordinator promises | abstract |
| `TestCoordinator` | `Coordinator.Run`, `runWorkers`, `WorkerTask.Run`, `Main` | implements `SuiteVerdict` |
| `TestCoordinatorProofs` | invariants of `TestCoordinator`, its end and its refinement, proved | proofs |
| `BenchmarkTask` | the benchmark coordinator's `WorkerTask.Run` and its calls of the workers | |
| `BenchmarkTaskProofs` | invariants of `BenchmarkTask` and its end, proved | proofs |
| `BenchmarkRun` | `Benchmark.Run` in a worker | |
| `BenchmarkRunProofs` | invariants of `BenchmarkRun` and its end, proved | proofs |
| `NatRecursion` | induction over the numbers, and that functions defined by recursion exist | proofs |
| `Runner` | `Runner.Run` and the commands that start jobs, several at once | |
| `RunnerProofs` | invariants of `Runner`, proved | proofs |
| `ClusterSetup` | `clusterSetup.Setup`, its builders, and `Setup` and `AwaitReady` of what it sets up | |
| `ClusterSetupProofs` | invariants of `ClusterSetup` and its end, proved | proofs |
| `Environment` | `Setup` and `TearDown` of simulators, networks and apps, `AddAll`, `onit add` and `onit remove` | |
| `EnvironmentProofs` | invariants of `Environment` and the end of `AddAll`, proved | proofs |
| `MCCluster`, `MCTestCoordinator`, `MCBenchmarkTask`, `MCBenchmarkRun`, `MCRunner`, `MCClusterSetup`, `MCEnvironment` | model values, symmetry and inputs for TLC | |

### Cluster

One *caller* is one goroutine that works on one cluster; callers that share a
namespace are processes that were given the same name. A caller's `pc` is the
API call it makes next; each API call is one action, because the API server
serializes calls on an object, and the copy of the role binding a caller has
read, with its own subject appended, is kept in `roleBinding[c]` with the
resource version it was read at. Three ways a call ends are modelled: it is
applied and answered, it fails (`FailCall`), or it is applied and the answer is
lost (`LoseReply`), in which case the caller returns an error and the caller's
owner may call again. Writing the binding succeeds only at the version that was
read. `Delete` opens a watch, deletes the namespace, which stays in phase
Terminating until the namespace controller finalizes it, and waits for the watch
to deliver the event or to be closed. Roles are never deleted, by this code: the
binding only grows.

### TestCoordinator

`main`, `closer` and `task[s]` are the program counters of the main goroutine,
of the goroutine that closes the channels and of one goroutine per suite. A
task's steps are the calls of `WorkerTask.Run` in order; `createTestJob` is
three steps, because `Config.ToEnv` writes the map that every suite's config
shares, further keys are set, and then the map is read. Two tasks in these
steps at once may also be stopped by the Go runtime ("concurrent map writes"),
which the action `ConcurrentMapAccess` models. Any call of the API may fail. A
pod goes from pending over running to terminated with some exit code; polls
that see nothing change nothing and are not steps. When the process exits, by
`os.Exit` or at the end of `Main`, no goroutine takes a further step, but pods
do. `CreateCluster` and `TearDown` stand for all of `Create` and `Delete`.

`SuiteVerdict` keeps of this only rounds, what each suite returned, and the
exit status. The mapping judges the coordinator by what the pods really
returned (`podCode`), not by what the tasks believe (`status`).

### BenchmarkTask

One task with its worker pods. What its `config` asks for is chosen at the
start: a number of requests, of which each worker gets a share, and perhaps a
duration; with neither, a worker takes the 0 for no limit and never answers
(`Endless`). A pod becomes ready, and it may end at any time, which costs a
fault; it is not started again (`RestartPolicyNever`,
`benchmark/coordinator.go:223`), `awaitWorkerRunning` polls it for ever, and a
call of it fails. A *phase* is one call to all workers, in goroutines of their
own. A set-up phase's goroutine assigns its error to the variable `err` of the
enclosing function and reads it back without synchronisation, so `Check` sees
either the value the goroutine wrote or the value now there. The error channel
of a set-up phase has no buffer and is read after `wg.Wait`: a goroutine that
sends there stays for ever, and the model has no step for it. `runBenchmark` has
its own variables and buffered channels (`Send`). Worker calls either are
carried out or not, and either answer or fail; a worker that panics, or a
connection that breaks, is a failed call. `NeverStuck` names the three cases in
which the task does wait for ever: a set-up call failed (`SetupFailed`), the pod
it polls has ended (`WorkerMissed`), or a run has no end (`RunsForEver`).

### BenchmarkRun

The channels are counters (their order does not matter for what is counted), a
latency is counted and not measured, and each average in `results` is kept as
the number of calls it stands for, which is what the second aggregation gets
wrong or right. `end` records how many calls had returned when the end time was
taken. The second aggregation is modelled as it is: each time the averages are
`AggBatchSize` squared, it drops them, a *block* of `AggBatchSize^3` calls.
`Conservation` and `ReportedExactly` say exactly that, so that they hold of runs
of any length and nothing else may be lost; that the code means to keep the
averages is what `benchmark_long` refutes.

### Runner

A *runner* is one onit process, started by one of three commands; what differs
between them is the prefix of the job's name and whether there may be a
deadline. `pc[r]` is the next call of `Run`. A name is any pair of a prefix and
a pet name, so two commands can draw one. The four objects that all jobs share
are created in order, each of them also when it exists already; a call may fail
whether or not the server carried it out. The pod of a job goes from pending
over ready to terminated, possibly without a poll seeing it ready; a deadline
deletes it. A poll that sees nothing changes nothing and is not a step.

### ClusterSetup

`main` is where `Setup` is, `part[p]` the next call of the goroutine of one
part (a database, a core service, an app, the CLI), `closer` the goroutine that
closes the error channel. The builders are actions while `main = "build"`; the
arguments of the command line, which override what they set, are chosen at the
start. `objects` are pairs of a kind and a part, `ready` the parts the polls
would find ready; `BecomeReady` says when that can come true (a pod that mounts
a secret or a config map starts when it exists, a database when the controller
runs). A goroutine whose error nobody receives any more stays in "send" for
ever, as in the code. `Rerun` is a new process on the objects the last one left,
or in a new namespace, where only the definitions of the Atomix resources stay.

### Environment

`proc[p]` is what a goroutine of `AddAll` or an onit process does: the next call
of `Setup` or `TearDown`, on which resource, which devices of a network are
left, whether TearDown has met an error. `owner` maps the config maps, secrets
and services that exist to the name they are labelled with, because a network
finds its services and devices by label but creates them by name. That is the
resource's own name, but not for an app: its labels are made with the random
name of `New`, and `SetName` does not change them (`Label`). An app has
`Replicas`, 0 unless they are set, with which `Setup` returns nil at once
(`service.go:228`), and it may be `Secretless`, as `onit add app` without `-s`
makes it, in which case no secret is created. Further, `pod` holds the state of
the pod (of an app: its deployment) and `registered` the devices in onos-topo.
`AddAll` has its queue, its pool, the unbuffered `errCh` (`ReceiveErr` needs
`main = "range"`) and the buffered `envCh`. `history` records what the
properties speak of: which resources were added or removed to the end, of which
an error was returned, and which two operations worked on at the same time
(`disturbed`), about which the code promises nothing. Nor does it promise
anything about a network that has a device name in common with a disturbed one
(`Sharing`): two removals of one network at once both list its services and then
delete them by name, and when the slower one gets to a name, the faster one may
have deleted that service and another network have created its own.
`Undisturbed` leaves both out. `AddedIsUp` says nothing of apps without
replicas, since nothing of them is made. `RemoveLeavesNothing` speaks of the
devices of simulators but not of networks, although `docs/testing.md:322` says
that to remove "a network and all its devices" one calls `Remove()`: of these
`OrphanIsReported` says that one stays only if some operation has returned an
error, not necessarily the last one. `NameAssumption`: simulators and apps are
not named like the devices of networks; the code chooses neither kind of name so
that they differ, its user does. `Die` is the panic of `AddAllOrDie`. A test
that awaits a device is a listening goroutine and a caller that selects between
its channel and a timer, here one state (`AwaitSteps`), because the two meet
only in the select. A scenario says what runs together.

### Faulty variants

A definition beside an action that no comment introduces (`TearDownSkipped`,
`SomeDone`, ...) is that action with a plausible mistake. No specification uses
it. `PROJECT.json` pairs each with the property it breaks when it takes the
action's place, so that each property is known to depend on the code it is
about.

## Runs

| Run | Instance | Question | States |
|---|---|---|---|
| `cluster` | 3 callers, two on one namespace that was there before, faults bounded, fairness | role binding, grants and created clusters under interleaving, lost answers and closed watches; refinement of `GrantLog`; `Delete` waits for the end; both return (`CallsReturn`) | 260 000 |
| `test_coordinator` | 2 suites, 2 iterations, 3 exit codes, 2 faults, fairness | exit status, channels, clusters; somebody can always go on, every step counts, the process exits; refinement of `SuiteVerdict` | 410 000 |
| `test_leak` | 2 suites, 1 fault | clusters left when `Main` exits (violated) | |
| `test_env` | 2 suites, no fault | whose environment a pod gets (violated) | |
| `benchmark_task` | 3 workers, 2 benchmarks, 2 failed calls or ended pods; a share of 7 requests and a duration, or a run without end | phases in step, complete results, tear-down last; somebody can go on but for three cases, and every step counts | 244 000 |
| `benchmark_setup` | 2 workers, 1 fault | a benchmark without its set-up (violated) | |
| `benchmark_run` | 3 clients, 9 requests, batches of 2 | conservation of samples, durations, what is reported; somebody can always go on and every step counts | 9 700 |
| `benchmark_long` | 2 clients, 8 requests, batches of 2 | second aggregation (violated) | |
| `runner` | 2 commands, 2 pet names, 3 exit codes, fairness | rights of every job, whose exit code, a follower ends | 46 000 |
| `cluster_setup` | a database, a core service, an app, the CLI, 3 sets of arguments, 2 runs, fairness | nil means up, controller first, `Setup` returns | 633 000 |
| `environment` | 2 simulators, 2 networks, 3 apps, 2 goroutines, 2 commands, 3 operations, 1 fault, fairness | added is up, removed is gone, orphans are reported, `AddAll` returns | 645 000 |
| `environment_await` | as `environment` | what a nil of `Await` means (violated) | |

Bounds and why they are enough. `MaxFaults` bounds the failed calls: every error
path of one actor needs one fault, and the two of the coordinators let an error
path meet an error (a suite that fails and a `Delete` that fails, errors of two
suites). `MaxCalls` lets each caller act and one act twice, so that a Create
follows a Delete, a failed or a repeated Create; `MaxExpiries` closes one watch
early. Three callers in `cluster` are the least that have two of them on one
namespace while a third one, with a namespace of its own, updates the binding
between another's read and write; the shared namespace existed before and has no
label until it is created anew. Two iterations are what it takes to overlap.
Three workers distinguish "some" from "all but one" and "all". Seven requests
leave a remainder when three workers share them, and two requests without a
duration leave no share at all, which is the run without end. Nine requests with
batches of two give full batches, a last small one, one second aggregation after
`AggBatchSize^3`, and a call after it; the duration may cut the run short
anywhere, also at exactly eight calls, where nothing is left to report.
`MaxRequests` bounds a run that only a duration ends. Two commands are what it
takes to meet in a name and in the shared objects, two pet names let them also
miss each other, and three exit codes tell the codes 0 and 1, which an exit
status may have for other reasons, from one that it can only have from a pod. In
`cluster_setup` one part of each kind covers every branch of `Setup`;
`MaxReplicas` is 1 because only "none" and "some" are told apart; every call may
fail, without a bound; two runs let a second one meet what every prefix of a
first one left. The three sets of arguments are those that make a difference:
none, one that turns parts on and off against the builders, and one that changes
the name of the controller. In `environment` the scenarios are the interactions
there are: simulators in the pool with a command that adds, removes or kills one
of them; two networks whose names are cut to the same twelve characters, with
two commands; three apps, with and without a secret and one without replicas.
Three operations are add, failing remove, remove; `MaxFaults` is 1 because a
second failing call repeats what a fault in another run of the same operation
leaves. One of the simulators is not entered in onos-topo, one network has a
single device and one has three.

Deadlock checking is off in all runs: the programs end, and the pods and the
callers of a finished instance have nothing left to do. That they end *well* is
said in two ways. The coordinators and the benchmark have `NeverStuck`, that
somebody can go on as long as the program has not ended (one goroutine's step,
or a pod's), and `StepsRunOut`, that each step uses up one of finitely many: a
scheduler that lets anybody go on therefore ends the program. Both can be
proved. Elsewhere a liveness property says it, under the fairness below, and for
the test coordinator `Exits` also does, which shows that the guards `NeverStuck`
names are those of the steps. For the set-up and for `AddAll`, which have the
liveness properties `SetupReturns` and `AddAllReturns`, the module of proofs
states `NeverStuck` and `StepsRunOut` besides.

Fairness. Each fair specification asks weak fairness of each goroutine's next
step (the Go scheduler runs every goroutine that can run), of the closer and the
main goroutine, and of Kubernetes: a namespace that terminates is finalized, a
pod that was created starts and, since tests end, terminates. It is never asked
of a fault, of a lost answer, of a closing watch or of the poll that sees a
short-lived state: weak fairness of `AwaitTestJobRunning` does not help a task
whose pod has been ready and has ended between two polls, which is why `Exits`
and `NeverStuck` name that case (`MissedReady`). Likewise `NeverStuck` of
`BenchmarkTask` names the failed set-up call after which the task may hang, the
pod that ended before a poll saw it ready, and the run that nothing ends; its
guards are those of the steps, so that a call that is never answered does not
count as one that can go on. In `Runner` only the two last waits and the end of
pods are fair, which is all that `FollowerEnds` needs. In `ClusterSetup` and
`Environment` each goroutine goes on and what can start becomes ready; no call
is forced to fail, except the wait for a controller under a name that does not
exist, and no command is forced to run.

## Proofs

Every property of the passing runs is a theorem, for every value of the
constants, but for the five liveness properties that the last paragraph of this
section names.

| Module | Theorem | Property | Says |
|---|---|---|---|
| `ClusterProofs` | `TypeCorrect` | `TypeOK` | types |
| | `AccountsGranted` | `AccountsOnlyGranted` | a service account exists only where the role exists and binds it |
| | `NoLostGrant` | | no step removes a subject from the role binding |
| | `CreatedUsable` | `CreatedIsUsable` | a Create that returns nil leaves an active namespace with a bound account |
| | `SubjectsPaidFor` | `OneSubjectPerCreate` | the binding holds no more subjects of a namespace than there were Creates for it |
| | `DeletedGone` | `DeletedMeansGone` | without rivals and closed watches, a Delete that returns nil means gone |
| | `Refinement` | `ImplementsGrantLog` | `Spec` implements `GrantLog` |
| `TestCoordinatorProofs` | `TypeCorrect` | `TypeOK` | types |
| | `SendsBeforeClose` | `NoSendOnClosed` | the closer closes only when all tasks have sent |
| | `ClustersDoNotPileUp` | `ClustersAreDeleted` | of an earlier iteration only clusters exist whose Delete failed, and after an exit with a verdict no others (`IterationsApart`, `VerdictCleansUp`) |
| | `NoDeadlock` | `NeverStuck` | until the process exits somebody can go on, unless a task has missed its pod |
| | `EveryStepCounts` | `StepsRunOut` | each step uses up one of finitely many |
| | `Refinement` | `ImplementsSuiteVerdict` | the exit status tells what the pods returned |
| `BenchmarkTaskProofs` | `TypeCorrect` | `TypeOK` | types |
| | `WorkersInStep` | `Lockstep` | workers are never more than one answer apart |
| | `CompleteOnSuccess` | `SuccessIsComplete` | success means every benchmark on every worker, and all answers summed |
| | `CleanReturn` | `TearDownIsLast` | the cluster does not outlive the task, and no worker is called when it goes (`CallsBeforeTearDown`, `ClusterDeleted`) |
| | `NoDeadlock` | `NeverStuck` | until the task returns somebody can go on, unless a set-up call of the phase has failed, the next worker's pod has ended unseen, or a run has no end |
| | `EveryStepCounts` | `StepsRunOut` | each step uses up one of finitely many |
| `BenchmarkRunProofs` | `TypeCorrect` | `TypeOK` | types |
| | `NoLatencyLost` | `Conservation` | no request and no latency is lost or counted twice, but for whole blocks |
| | `ReportIsExact` | `ReportedExactly` | a report stands for exactly the calls made, modulo a block |
| | `SecondAggregationDrops` | | a second aggregation keeps no average, whatever they are |
| | `DurationIsThatOfCalls` | `DurationCoversCalls` | the duration covers every call and no warm-up |
| | `ResultsBeforeClose` | `NoSendOnClosed` | no client sends on the closed channel |
| | `NoRequestLost` | | the part of `Conservation` about requests |
| | `AsManyAsAsked` | | the part of `ReportedExactly` about how many calls are made |
| | `NoDeadlock` | `NeverStuck` | until the run returns somebody can go on |
| | `EveryStepCounts` | `StepsRunOut` | each step uses up one of finitely many, once the time of the warm-up is over |
| `RunnerProofs` | `TypeCorrect` | `TypeOK` | types |
| | `RightsBeforeJobs` | `JobHasRights` | no job without the rights its pod needs |
| | `OwnExitStatus` | `ExitIsOfOwnJob` | an exit status is that of the command's own job |
| `ClusterSetupProofs` | `TypeCorrect` | `TypeOK` | types |
| | `ControllerIsFirst` | `ControllerFirst` | Atomix first |
| | `NilMeansAllUp` | `NilMeansUp` | nil means that everything requested is up |
| | `NoDeadlock` | | until `Setup` returns somebody can go on |
| | `EveryStepCounts` | | each step of a run uses up one of finitely many |
| `EnvironmentProofs` | `TypeCorrect` | `TypeOK` | types |
| | `AddedStaysUp` | `AddedIsUp` | what was added is whole, under the labels it was given, until it is removed; apps without replicas excepted |
| | `RemovedIsGone` | `RemoveLeavesNothing` | what was removed is gone |
| | `OrphansAreReported` | `OrphanIsReported` | a device without a service was reported |
| | `AddAllIsComplete` | | `AddAll` returns no error only with a result for every setup |
| | `NoDeadlock` | | until `AddAll` returns somebody can go on, unless it awaits a disturbed simulator |
| | `EveryStepCounts` | | each step of `AddAll` and its goroutines uses up one of finitely many |

Assumptions: those named in the modules on their constants, which TLC evaluates
too. Suites, clients, callers, workers, names, networks and their topologies,
arguments, the numbers of iterations, benchmarks and requests, batch sizes and
the bounds on faults and calls are arbitrary within them; sets that are counted
are finite, a container ends with some exit code (`ExitCodes` is not empty), and
the pool of `AddAll` has a goroutine (the code starts ten).

The argument for `Cluster`. `AccountsOnlyGranted` is not inductive by itself.
The strengthening `IInv` adds what a caller between two calls knows. `CopyInv`:
the copy of a caller about to write is at most as new as the binding, and one as
new holds the subjects of the binding and one more, so that a write that passes
the version check appends exactly that one. `StageInv`: a caller past
`CreateClusterRole` finds the role, and one past the binding finds its subject
in it. `InductiveInvariant` shows `IInv` preserved by every action, one step per
action. The lemma `BindingStep`, that a step leaves the binding alone or appends
the subject of a caller, gives `NoLostGrant`, and with the program counters
`Refinement`: every action maps to a step of `GrantLog` or to a stutter. For
`OneSubjectPerCreate` the budget of a namespace is what counts: subjects in the
binding plus callers that are between their start and the write are at most the
Creates begun. `DeletedGone` rests on `WatchInv`: while only one caller works on
the namespace, an event in its watch means that the namespace is gone.

The argument for `TestCoordinator`. `MainInv` says what the suites did, by where
the main goroutine is. `CountInv` bounds the reports in the two channels by the
tasks that are done (a task makes at most one, so no send blocks or is taken for
another's). `ErrorsInv` and `CodesInv`: an empty error channel means that no
error was reported, and a code that is not zero is in the code channel until the
main goroutine takes one; without this half "exit 0 means all passed" would not
follow from having seen no other code. `CloserInv`: the closer has moved only if
all tasks are done. `PodInv`: the code a task believes is that of its pod, and
the pod has ended for good. `ClusterInv`: past `tearDown` a task's cluster
exists only undeleted. `Refinement` uses all of them; the exit is the one step
that needs what every suite returned.

The argument for `BenchmarkTask`. `StepInv` is the strengthening of `Lockstep`:
two workers have the same answers, or one has that of the current phase more
because its goroutine is past the call. `CheckInv` and `ReplyInv` keep the
set-up phases, where an error can be lost, apart from the benchmarks, where a
sent error is in the channel. `CountInv` counts the goroutines that are done
against the answers in the channels (facts on cardinalities of the library), so
that the loop that receives stops at exactly `NumWorkers`; `ShareInv` bounds the
requests summed so far, and with the lemma `SharesFit`, that the shares together
are no more than `Requests`, gives the bound of `SuccessIsComplete`;
`ResultsInv` has it for the benchmarks before.

The argument for `BenchmarkRun`. Clients are counted by state (`Counted`: a
client that moves is counted in the new state). `RequestsConserved` balances
requests against channel, clients and calls; `DoneInv`: a client ends only when
the channel is closed and empty, hence when all clients are done the balance
says that every request was called, which is `end = calls` and `AsManyAsAsked`.
What the averages stand for is a sum over a sequence, a function defined by
recursion, and the second aggregation is a fold over one, so this half needs
induction over data. `NatRecursion` has both in a form the provers take:
induction as a statement about a *set* of numbers that holds 0 and is closed
under successor, and the existence of the function that has a given first value
and takes a given step at each number, up to any N. `SumIs`, `SumAppend` and
`ReaggregateIs` follow, and from the last one `SecondAggregationDrops`: the
loop's count starts at the batch size and only grows, so that no batch is ever
full. `DataInv` is the inductive invariant: until the aggregator ends, all
averages are of full batches and fewer than `AggBatchSize` squared, and each
call is with a client, in the channel, in the batch, in an average, or in one of
a number of whole blocks.

That programs end. For `TestCoordinator`, `BenchmarkTask`, `BenchmarkRun`,
`ClusterSetup` and `AddAll` of `Environment` two facts stand in for liveness and
need no fairness. `NoDeadlock` follows from what each waiter knows of the one it
waits for (`ProgressInv` or `PoolInv` in each module): a channel that is ranged
over is closed when the senders are done, a full channel has a reader that is
not done, a wait group counts goroutines that are on their way, and what a
goroutine awaits can start because all it mounts was created. In `Environment` a
setup is in the queue, with a goroutine, or a result in `envCh`, whose capacity
is the number of setups: no send to it blocks, and when `AddAll` returns nil all
results are there (`AddAllIsComplete`).

`EveryStepCounts` gives each position the number of steps to the end and
shows that the sum goes down with every step of anybody (in `Environment`, of
`AddAll` and its goroutines; commands and pods leave it as it is). Sums over
goroutines are taken by counting: a goroutine with `n` steps left owns `n` pairs,
`<<goroutine, 1>>` to `<<goroutine, n>>`, or, in the benchmark modules, the
goroutines in each state are counted, so that facts on cardinalities take the
place of a sum over an arbitrary set. The steps of the iterations and phases
that follow are a product, and who starts a goroutine pays for its steps
beforehand: a new phase for all of its goroutines, `Setup` for those it will
start, the queue of `AddAll` for each setup. In `BenchmarkRun` a request that is
still to be sent stands for all steps up to its batch, and the clock for one.

The argument for `Environment`. The claims of an operation are about its own
objects: `SetupInv` and `TearDownInv` say which parts of the resource it has
made or deleted so far (`ToMake`, of what its `Setup` makes, `Made`, and
`ToDelete`, of all its `Parts`; a secret need not be made), `HistoryInv` that a
resource that is up or gone is so. Objects have names that networks may share,
therefore the claims are only about `Safe` objects, which no disturbed resource
could have, and `AloneInv` says that two operations on one resource disturb it.
`LabelInv`: an object has the label of a resource with such a part (the lemma
`Labels`: only apps share one, and their parts are told apart by name). The
lemma `OthersKeep` then shows that a step on one resource leaves the claims of
all others alone: it creates an object only where none is, and deletes by name
only one that was listed as its own and, if safe, still is. An app without
replicas is up without any object, which is why `HistoryInv` excepts it, as the
property does. `StepKeeps` and `RemoveKeeps` reduce each action to its own
claims. `OrphanInv` adds to `OrphanIsReported` that an operation which met an
error and is still at work remembers it (`failed`), so that it will be reported.

This attempt corrected the model. `AddedIsUp` was stated for all resources that
are not disturbed themselves; the induction failed where two removals of one
network delete by name, and TLC, given one more operation and no faults,
confirmed it with a third network operation that creates a service in between.
The property now speaks of `Undisturbed` resources, and also passes with four
operations and no faults (688 000 states).

The argument for `Runner`. Neither property is inductive alone. `StageInv` adds
which shared objects exist once a command has got past a call (objects are never
removed, so another command cannot undo it); `JobHasRights` then follows where a
job is created. `CommandInv` adds that a command that has begun has a name and
one that runs has no exit status, `CodeInv` that a pod that has terminated has a
code; a job keeps its creator and a terminated pod stays, so an exit status read
from it stays right.

The argument for `ClusterSetup`. `NilMeansUp` speaks only of the end, so the
strengthening says what each position stands for. `MainInv`: what exists of the
controller, by where `Setup` is. `WorkInv`: a goroutine that is not done implies
the controller, and that `Setup` waits for errors or has returned one.
`StageInv`: what a goroutine has created, by where it is. `DoneInv`: as long as
no error was received, a goroutine that is done has its part up. `CloserInv`: a
closed channel means that all are done. The lemma `PartKeeps` shows all of them
kept by a goroutine that goes on; each action of a goroutine is an instance.

Only model-checked. Liveness under fairness: `CallsReturn` (where a caller may
start over each time another has made progress), `Exits`, `FollowerEnds`,
`SetupReturns` and `AddAllReturns`; fairness and ENABLED are beyond the prover.
What `Exits`, `SetupReturns` and `AddAllReturns` come down to is in the theorems
`NoDeadlock` and `EveryStepCounts`. The properties of the runs that violate one
are not theorems, since they are false. No module declares a RECURSIVE operator.

## Where the code and its documents part

* `test_leak`: the first error of any suite makes `Main` exit while others are
  at work (`coordinator.go:122`), and their clusters stay; what a process leaves
  that the runtime stops is not meant. `--no-teardown`, which would ask for that,
  is never read.
* `test_env`: suites that run in parallel share one environment map
  (`config.go:87`), so that a pod may be told another suite's name or namespace.
* `benchmark_setup`: an error of a set-up call can be overwritten by another
  worker's success (`benchmark/coordinator.go:421`); when it is not, the unbuffered channel of
  line 417 blocks the task for ever.
* `benchmark_long`: the second aggregation drops all averages
  (`benchmark.go:268`), after a million requests with the batch size of the code.

* `environment_await`: awaiting the device of a simulator returns nil when the
  timer fires (`simulator.go:548`), where the comment announces a timeout error.

Without a run of their own, because nothing in the repository says otherwise, the
models abstract from what goes wrong, or a property excepts it:

* Cluster set-up: `CLI.AwaitReady` tests what was set and not `Enabled()`
  (`cluster/cli.go:184`), so that a CLI enabled by an argument is not awaited
  (excepted in `NilMeansUp`). The controller, services and others are created
  under `Name()`, which an argument may change, and awaited and deleted under
  `name` (`atomix.go:284`). A database with both `Raft()` and `NOPaxos()` gets
  Raft. `nopaxos.go:57` and `:67` ignore what the setters stored. `app.go:22`
  shares one map of secrets between all apps.
* Simulators: the timer of `AwaitDevicePredicate` is fixed to 5 s
  (`simulator.go:512`), and its predicate is given every device of the stream
  (`:534`, in the model `otherMatch`). `TearDown` opens its watch after the delete, over
  all pods (`:624`). `SetAddDevice(false)` is not known to the handle that
  removes the simulator, which reports an error. A simulator removed while it is
  added can make `AddAll` wait for ever (excepted in `AddAllReturns`).
* Networks and apps: errors of listing a network's services (`network.go:461`)
  and of deleting a secret (`service.go:568`) are dropped. A tear-down of a
  network that fails late leaves devices that no later one finds
  (`OrphanIsReported` asks only that something was reported at some time): when
  listing or removing them fails, the services by which they are found are
  deleted all the same (`network.go:388`), and a second `Remove`, while the pod
  terminates, returns nil with all devices registered, although
  `docs/testing.md:322` says that `Remove()` removes "a network and all its
  devices". The labels of an app are those of a random name and not of its own
  (`env/app.go:29-34`, `:78`).
* Environment: `Config()` wraps the deployment of topo (`env.go:206`),
  `AddSimulators` ignores its arguments (`env.go:227`), `Add` of an app whose
  replicas were not set returns no error and makes nothing (`service.go:228`),
  and the handle it returns is not usable (`env/app.go:152`).
* Jobs: a timeout below a second becomes a deadline of 0 (`runner.go:369`); a
  coordinator that ends before a poll sees it ready, or whose pod the deadline
  deletes, is polled for ever (`:386`, `:401`); nothing seeds the generator of
  pet names. A namespace that existed before, without the label of a test, makes
  `Delete` wait (`cluster.go:313`).
* Benchmarks: no requests in the time given divide by zero (`benchmark.go:159`);
  a parallelism of 0 blocks (`:202`), no workers panic (`coordinator.go:370`);
  a worker whose pod ends before it was seen ready is polled for ever
  (`coordinator.go:325`), and more workers than requests, without a duration,
  make a run that never ends (`:531`); all suites share one environment (`benchmark/config.go:121`).

## Plan

Done: all modules above, each component with its proofs. In the order of what
follows:

1. What the components promise each other: that `Create` and `Delete`, single
   steps in `TestCoordinator` and `BenchmarkTask`, are what `CreatedUsable` and
   `DeletedGone` say of `Cluster`; that two coordinators leave each other's
   clusters alone.
2. `RunTests`: hooks, panics, deferred tear-downs of the test worker, whose
   result is the exit code that `TestCoordinator` lets a pod end with.

## Not modelled

* The test worker (`pkg/test/{worker,test,registry}.go`): one goroutine that runs
  the hooks and methods of a suite. `TestCoordinator` sees its pod's exit code.
* `Execute`, `Connect`, clients, and the getters of `pkg/onit/env` and
  `pkg/onit/cluster`: they change no state of the program.
* The contents of objects (images, ports, limits, certificates, keys of
  secrets), sizes of databases and numbers of replicas beyond none and some:
  nothing the code does next depends on them.
* The rest of the command line, the Kubernetes clients, printing, names,
  certificates, benchmark parameters and generated stubs: they hold no state
  the properties could be about.

The Kubernetes API server, its controllers, the pods, onos-topo and the Go
runtime are modelled only as far as the code observes them, and are marked
external.
