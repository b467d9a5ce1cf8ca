---------------------------- MODULE BenchmarkRun ----------------------------
(***************************************************************************)
(* pkg/benchmark/benchmark.go: Benchmark.Run in one worker.  The caller    *)
(* warms the benchmark up with one pool of client goroutines, then feeds   *)
(* requests to a second pool through requestCh; the clients call the       *)
(* benchmarked function and send the latency to resultCh; an aggregator    *)
(* goroutine averages the latencies in batches.                            *)
(*                                                                         *)
(* A latency is only counted: results holds, for each entry of the slice,  *)
(* how many calls it is the average of.  The benchmarked function returns. *)
(* Definitions that no comment introduces beside an action are faulty      *)
(* variants, used to see that a property notices.                          *)
(***************************************************************************)
EXTENDS Naturals, Sequences, FiniteSets

CONSTANTS
  Clients,        \* the goroutines of a pool, parallelism of them
  Requests,       \* Benchmark.requests, 0 for no limit
  HasDuration,    \* is Benchmark.duration set
  AggBatchSize,   \* the constant aggBatchSize
  MaxRequests     \* bound on the requests of a run without a limit

ASSUME ClientsAssumption == IsFiniteSet(Clients) /\ Clients # {}
ASSUME RequestsAssumption ==
  /\ Requests \in Nat /\ MaxRequests \in Nat
  /\ HasDuration \in BOOLEAN
  /\ Requests = 0 => HasDuration
ASSUME BatchAssumption == AggBatchSize \in Nat \ {0}

VARIABLES
  main,       \* where Run is
  warmCh,     \* requests in the buffer of the warm-up's requestCh
  warmers,    \* warmers[c]: a client of the warm-up
  requestCh,  \* requests in the buffer of requestCh
  clients,    \* clients[c]: a client of the run
  resultCh,   \* latencies in the buffer of resultCh
  closed,     \* channels that are closed
  requests,   \* requests sent
  timeUp,     \* has the duration passed since start
  end,        \* calls finished when the end time is taken (history)
  calls,      \* calls of the run that have returned (history)
  aggregator, \* the aggregator goroutine
  count,      \* latencies in its current batch
  results     \* weights of the averages

warmVars == <<warmCh, warmers>>
aggVars == <<aggregator, count, results>>
vars == <<main, warmVars, requestCh, clients, resultCh, closed, requests, timeUp,
          end, calls, aggVars>>

Parallelism == Cardinality(Clients)

Init ==
  /\ main = "warm"
  /\ warmCh = 0 /\ requestCh = 0 /\ resultCh = 0
  /\ warmers = [c \in Clients |-> "receive"]
  /\ clients = [c \in Clients |-> "none"]
  /\ closed = {}
  /\ requests = 0 /\ calls = 0 /\ end = 0
  /\ timeUp = FALSE
  /\ aggregator = "none" /\ count = 0 /\ results = <<>>

-----------------------------------------------------------------------------
(* The warm-up.                                                            *)

(* A request goes into the buffer while the warm-up lasts.                 *)
WarmSend ==
  /\ main = "warm"
  /\ warmCh < Parallelism
  /\ warmCh' = warmCh + 1
  /\ UNCHANGED <<main, warmers, requestCh, clients, resultCh, closed, requests,
                 timeUp, end, calls, aggVars>>

WarmClose ==
  /\ main = "warm"
  /\ main' = "warmWait"
  /\ closed' = closed \cup {"warmCh"}
  /\ UNCHANGED <<warmVars, requestCh, clients, resultCh, requests, timeUp, end,
                 calls, aggVars>>

Warmer(c) ==
  /\ \/ /\ warmers[c] = "receive" /\ warmCh > 0
        /\ warmCh' = warmCh - 1
        /\ warmers' = [warmers EXCEPT ![c] = "call"]
     \/ /\ warmers[c] = "call"
        /\ warmers' = [warmers EXCEPT ![c] = "receive"]
        /\ UNCHANGED warmCh
     \/ /\ warmers[c] = "receive" /\ warmCh = 0 /\ "warmCh" \in closed
        /\ warmers' = [warmers EXCEPT ![c] = "done"]
        /\ UNCHANGED warmCh
  /\ UNCHANGED <<main, requestCh, clients, resultCh, closed, requests, timeUp,
                 end, calls, aggVars>>

(* wg.Wait of the warm-up; run starts its clients and the aggregator and   *)
(* takes the start time.                                                   *)
WarmersUnawaited == TRUE
WarmersDone == \A c \in Clients : warmers[c] = "done"

StartRun ==
  /\ main = "warmWait" /\ WarmersDone
  /\ main' = "for"
  /\ clients' = [c \in Clients |-> "receive"]
  /\ aggregator' = "range"
  /\ UNCHANGED <<warmVars, requestCh, resultCh, closed, requests, timeUp, end,
                 calls, count, results>>

-----------------------------------------------------------------------------
(* The measured run: the goroutine of Run.                                 *)

(* The condition of the loop over the requests.                            *)
MoreRequestsInclusive == (Requests = 0 \/ requests <= Requests) /\ ~(HasDuration /\ timeUp)
MoreRequests == (Requests = 0 \/ requests < Requests) /\ ~(HasDuration /\ timeUp)

ForRequests ==
  /\ main = "for"
  /\ \/ /\ MoreRequests
        /\ Requests = 0 => requests < MaxRequests
        /\ main' = "send"
        /\ UNCHANGED closed
     \/ /\ ~MoreRequests
        /\ main' = "wait"
        /\ closed' = closed \cup {"requestCh"}
  /\ UNCHANGED <<warmVars, requestCh, clients, resultCh, requests, timeUp, end,
                 calls, aggVars>>

SendUncounted ==
  /\ main = "send"
  /\ requestCh < Parallelism
  /\ requestCh' = requestCh + 1
  /\ main' = "for"
  /\ UNCHANGED <<warmVars, clients, resultCh, closed, requests, timeUp, end, calls, aggVars>>
SendRequest ==
  /\ main = "send"
  /\ requestCh < Parallelism
  /\ requestCh' = requestCh + 1
  /\ requests' = requests + 1
  /\ main' = "for"
  /\ UNCHANGED <<warmVars, clients, resultCh, closed, timeUp, end, calls, aggVars>>

(* wg.Wait, then the end time.                                             *)
OneClientDone == \E c \in Clients : clients[c] = "done"
ClientsDone == \A c \in Clients : clients[c] = "done"

TakeEndTime ==
  /\ main = "wait" /\ ClientsDone
  /\ main' = "closeResults"
  /\ end' = calls
  /\ UNCHANGED <<warmVars, requestCh, clients, resultCh, closed, requests, timeUp,
                 calls, aggVars>>

CloseNothing ==
  /\ main = "closeResults"
  /\ main' = "aggWait"
  /\ UNCHANGED <<warmVars, requestCh, clients, resultCh, closed, requests, timeUp,
                 end, calls, aggVars>>
CloseResults ==
  /\ main = "closeResults"
  /\ main' = "aggWait"
  /\ closed' = closed \cup {"resultCh"}
  /\ UNCHANGED <<warmVars, requestCh, clients, resultCh, requests, timeUp, end,
                 calls, aggVars>>

(* aggWg.Wait; Run divides by the number of averages.                      *)
AggregatorUnawaited == TRUE
AggregatorDone == aggregator = "done"

Return ==
  /\ main = "aggWait" /\ AggregatorDone
  /\ main' = IF results = <<>> THEN "panic" ELSE "returned"
  /\ UNCHANGED <<warmVars, requestCh, clients, resultCh, closed, requests, timeUp,
                 end, calls, aggVars>>

TimePasses ==
  /\ HasDuration /\ ~timeUp
  /\ main \in {"for", "send"}
  /\ timeUp' = TRUE
  /\ UNCHANGED <<main, warmVars, requestCh, clients, resultCh, closed, requests,
                 end, calls, aggVars>>

-----------------------------------------------------------------------------
(* A client: range over requestCh, call, send the latency.                 *)
Client(c) ==
  /\ \/ /\ clients[c] = "receive" /\ requestCh > 0
        /\ requestCh' = requestCh - 1
        /\ clients' = [clients EXCEPT ![c] = "call"]
        /\ UNCHANGED <<resultCh, calls>>
     \/ /\ clients[c] = "call"
        /\ clients' = [clients EXCEPT ![c] = "sendResult"]
        /\ calls' = calls + 1
        /\ UNCHANGED <<requestCh, resultCh>>
     \/ /\ clients[c] = "sendResult" /\ resultCh < AggBatchSize
        /\ resultCh' = resultCh + 1
        /\ clients' = [clients EXCEPT ![c] = "receive"]
        /\ UNCHANGED <<requestCh, calls>>
     \/ /\ clients[c] = "receive" /\ requestCh = 0 /\ "requestCh" \in closed
        /\ clients' = [clients EXCEPT ![c] = "done"]
        /\ UNCHANGED <<requestCh, resultCh, calls>>
  /\ UNCHANGED <<main, warmVars, closed, requests, timeUp, end, aggVars>>

-----------------------------------------------------------------------------
(* The aggregator.                                                         *)

(* The loop over the results once they number AggBatchSize squared: groups *)
(* of AggBatchSize of them are averaged again.  count0 is the value count  *)
(* has when the loop starts, after[i] what it has come to after i results. *)
Reaggregate(ws, count0) ==
  LET after[i \in 0 .. Len(ws)] ==
        IF i = 0
          THEN [count |-> count0, weight |-> 0, new |-> <<>>]
        ELSE IF after[i - 1].count + 1 = AggBatchSize
          THEN [count |-> 0, weight |-> 0,
                new |-> Append(after[i - 1].new, after[i - 1].weight + ws[i])]
          ELSE [count |-> after[i - 1].count + 1, weight |-> after[i - 1].weight + ws[i],
                new |-> after[i - 1].new]
  IN  after[Len(ws)].new

(* The results after a full batch has been appended.                       *)
WithBatchOverwritten(ws) == <<AggBatchSize>>
WithBatch(ws) ==
  LET batches == Append(ws, AggBatchSize)
  IN  IF Len(batches) = AggBatchSize * AggBatchSize
        THEN Reaggregate(batches, AggBatchSize)
        ELSE batches

AggregateLate ==
  /\ aggregator = "range"
  /\ resultCh > 0
  /\ resultCh' = resultCh - 1
  /\ IF count = AggBatchSize
       THEN count' = 1 /\ results' = WithBatch(results)
       ELSE count' = count + 1 /\ UNCHANGED results
  /\ UNCHANGED <<main, warmVars, requestCh, clients, closed, requests, timeUp, end,
                 calls, aggregator>>
Aggregate ==
  /\ aggregator = "range"
  /\ resultCh > 0
  /\ resultCh' = resultCh - 1
  /\ IF count + 1 = AggBatchSize
       THEN count' = 0 /\ results' = WithBatch(results)
       ELSE count' = count + 1 /\ UNCHANGED results
  /\ UNCHANGED <<main, warmVars, requestCh, clients, closed, requests, timeUp, end,
                 calls, aggregator>>

(* resultCh is closed and empty: what is left makes a last, smaller batch. *)
DropLastBatch ==
  /\ aggregator = "range"
  /\ resultCh = 0 /\ "resultCh" \in closed
  /\ aggregator' = "done"
  /\ UNCHANGED <<main, warmVars, requestCh, clients, resultCh, closed, requests,
                 timeUp, end, calls, count, results>>
LastBatch ==
  /\ aggregator = "range"
  /\ resultCh = 0 /\ "resultCh" \in closed
  /\ aggregator' = "done"
  /\ results' = IF count > 0 THEN Append(results, count) ELSE results
  /\ UNCHANGED <<main, warmVars, requestCh, clients, resultCh, closed, requests,
                 timeUp, end, calls, count>>

RunStep == ForRequests \/ SendRequest \/ TakeEndTime \/ CloseResults \/ Return
Aggregator == Aggregate \/ LastBatch

Next ==
  \/ WarmSend \/ WarmClose \/ StartRun \/ RunStep \/ TimePasses \/ Aggregator
  \/ \E c \in Clients : Warmer(c) \/ Client(c)

Spec == Init /\ [][Next]_vars

-----------------------------------------------------------------------------
TypeOK ==
  /\ main \in {"warm", "warmWait", "for", "send", "wait", "closeResults",
               "aggWait", "returned", "panic"}
  /\ warmCh \in 0 .. Parallelism /\ requestCh \in 0 .. Parallelism
  /\ resultCh \in 0 .. AggBatchSize
  /\ warmers \in [Clients -> {"receive", "call", "done"}]
  /\ clients \in [Clients -> {"none", "receive", "call", "sendResult", "done"}]
  /\ closed \in SUBSET {"warmCh", "requestCh", "resultCh"}
  /\ requests \in Nat /\ calls \in 0 .. requests /\ end \in 0 .. calls
  /\ timeUp \in BOOLEAN
  /\ aggregator \in {"none", "range", "done"}
  /\ count \in 0 .. AggBatchSize - 1
  /\ results \in Seq(Nat)

Sum(ws) ==
  LET upTo[i \in 0 .. Len(ws)] == IF i = 0 THEN 0 ELSE upTo[i - 1] + ws[i]
  IN  upTo[Len(ws)]
Samples == Sum(results)
InState(x) == Cardinality({c \in Clients : clients[c] = x})

(* A request is in requestCh, with a client that calls, or has been called *)
(* for (lines 238-256, 302-305).                                           *)
RequestsConserved == requests = requestCh + InState("call") + calls

(* The calls whose batches make AggBatchSize squared: one block of them    *)
(* goes into a second aggregation.                                         *)
BlockSize == AggBatchSize * AggBatchSize * AggBatchSize

(* No request and no latency is lost or counted twice on its way through   *)
(* the two channels, the clients and the batches; only the second          *)
(* aggregation loses latencies, a whole block each time (lines 238-283).   *)
Conservation ==
  /\ RequestsConserved
  /\ \E blocks \in 0 .. calls :
       calls = blocks * BlockSize + InState("sendResult") + resultCh + Samples
                 + (IF aggregator = "done" THEN 0 ELSE count)

(* The duration covers every call and nothing else: no warm-up call runs   *)
(* while requests are measured, and none of the run's calls ends after the *)
(* end time is taken (lines 225-226, 302-307).                             *)
DurationCoversCalls ==
  /\ (\E c \in Clients : clients[c] # "none") => \A c \in Clients : warmers[c] = "done"
  /\ main \in {"closeResults", "aggWait", "returned"} => end = requests

(* No client sends on resultCh once it is closed, in whatever order the    *)
(* clients finish; that would panic.                                       *)
NoSendOnClosed == "resultCh" \in closed => InState("call") + InState("sendResult") = 0

(* A run makes exactly the number of calls asked for, fewer only if its    *)
(* duration passes first (lines 302-307).                                  *)
CallsAsAsked ==
  main = "returned" /\ Requests > 0 =>
    calls <= Requests /\ (~timeUp => calls = Requests)

(* A run makes the calls asked for and reports all of them although they   *)
(* end in any order, except for the whole blocks that went into a second   *)
(* aggregation; it divides by zero exactly when that leaves nothing        *)
(* (lines 156-159, 255-285).                                               *)
ReportedExactly ==
  /\ CallsAsAsked
  /\ main \in {"returned", "panic"} =>
       /\ Samples = calls % BlockSize
       /\ main = "panic" <=> calls % BlockSize = 0

(* The steps that are left of a measured run that has a limit or whose     *)
(* time is up: each request still to be sent or on its way stands for the  *)
(* steps it takes up to its batch.                                         *)
ToSend == IF ~timeUp THEN Requests - requests ELSE IF main = "send" THEN 1 ELSE 0
MainLeft == [for |-> 6, send |-> 5, wait |-> 3, closeResults |-> 2, aggWait |-> 1,
             returned |-> 0, panic |-> 0]
StepsLeft ==
  6 * ToSend + MainLeft[main] + (IF timeUp THEN 0 ELSE 1)
    + 4 * requestCh + 4 * InState("call") + 3 * InState("sendResult") + InState("receive")
    + resultCh + (IF aggregator = "range" THEN 1 ELSE 0)

(* The steps that the clients of the warm-up have left once its channel is *)
(* closed: two for a request, and one to see that there is none.           *)
Warmers(states) == Cardinality({c \in Clients : warmers[c] \in states})
WarmLeft == 2 * warmCh + Warmers({"call"}) + Warmers({"receive", "call"})

(* When the time of the warm-up is over every step of every goroutine      *)
(* brings its end closer, and after the warm-up that of the run: nothing   *)
(* is done twice or over again (lines 202-225, 238-315).                   *)
StepsRunOut ==
  [][/\ main = "warmWait" =>
          main' = "for" \/ (main' = "warmWait" /\ WarmLeft' \in 0 .. WarmLeft - 1)
     /\ main \notin {"warm", "warmWait"} /\ (Requests > 0 \/ timeUp) =>
          StepsLeft' \in 0 .. StepsLeft - 1]_vars

(* The goroutines that can go on: the guards of their steps.               *)
MainCanRun ==
  \/ main \in {"warm", "for", "closeResults"}
  \/ main = "warmWait" /\ WarmersDone
  \/ main = "send" /\ requestCh < Parallelism
  \/ main = "wait" /\ ClientsDone
  \/ main = "aggWait" /\ AggregatorDone
WarmerCanRun(c) ==
  \/ warmers[c] = "call"
  \/ warmers[c] = "receive" /\ (warmCh > 0 \/ "warmCh" \in closed)
ClientCanRun(c) ==
  \/ clients[c] = "call"
  \/ clients[c] = "receive" /\ (requestCh > 0 \/ "requestCh" \in closed)
  \/ clients[c] = "sendResult" /\ resultCh < AggBatchSize
AggregatorCanRun == aggregator = "range" /\ (resultCh > 0 \/ "resultCh" \in closed)

(* Producer, clients and aggregator never wait for each other in a circle  *)
(* over the two bounded channels and the two wait groups: as long as Run   *)
(* has not ended one of them can go on (lines 202-225, 242-253, 291-315).  *)
NeverStuck ==
  main \notin {"returned", "panic"} =>
    \/ MainCanRun \/ AggregatorCanRun
    \/ \E c \in Clients : WarmerCanRun(c) \/ ClientCanRun(c)

(* "If the total number of batches reaches the batch size ^ 2, aggregate   *)
(* the aggregated results" (line 263): the averages that Run reports       *)
(* stand for all calls, also in a run that is long enough.                 *)
NoSampleDropped == main \in {"returned", "panic"} => Samples = calls
=============================================================================
