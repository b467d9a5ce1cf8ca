--------------------------- MODULE BenchmarkRunProofs ---------------------------
(***************************************************************************)
(* Proofs about BenchmarkRun, for any finite set of clients, number of     *)
(* requests and batch size: first the goroutines and the channels, then    *)
(* what the batches add up to, by induction over the averages.             *)
(***************************************************************************)
EXTENDS BenchmarkRun, NatRecursion, FiniteSetTheorems, TLAPS

ClientStates == {"none", "receive", "call", "sendResult", "done"}

(* TypeOK for all but the contents of results.                             *)
ControlTypeOK ==
  /\ main \in {"warm", "warmWait", "for", "send", "wait", "closeResults",
               "aggWait", "returned", "panic"}
  /\ warmCh \in 0 .. Parallelism /\ requestCh \in 0 .. Parallelism
  /\ resultCh \in 0 .. AggBatchSize
  /\ warmers \in [Clients -> {"receive", "call", "done"}]
  /\ clients \in [Clients -> ClientStates]
  /\ closed \in SUBSET {"warmCh", "requestCh", "resultCh"}
  /\ requests \in Nat /\ calls \in Nat /\ end \in 0 .. calls
  /\ timeUp \in BOOLEAN
  /\ aggregator \in {"none", "range", "done"}
  /\ count \in 0 .. AggBatchSize - 1

Warming == main \in {"warm", "warmWait"}
Sending == main \in {"for", "send"}
Ended == main \in {"closeResults", "aggWait", "returned", "panic"}

(* The measured run starts when the warm-up is over.                       *)
WarmInv ==
  /\ Warming => \A c \in Clients : clients[c] = "none"
  /\ ~Warming => WarmersDone /\ \A c \in Clients : clients[c] # "none"

(* Each channel of the run is closed once, when nobody sends there.        *)
ClosedInv ==
  /\ "requestCh" \in closed <=> ~Warming /\ ~Sending
  /\ "resultCh" \in closed => main \in {"aggWait", "returned", "panic"}

(* A client ends when no request is left.                                  *)
DoneInv ==
  /\ (\E c \in Clients : clients[c] = "done") => requestCh = 0 /\ "requestCh" \in closed
  /\ Ended => ClientsDone /\ end = calls

(* The loop over the requests never sends one too many, and stops early    *)
(* only when the time is up.                                               *)
LoopInv ==
  Requests > 0 =>
    /\ requests <= Requests
    /\ main = "send" => requests < Requests
    /\ "requestCh" \in closed /\ ~timeUp => requests = Requests

IInv ==
  ControlTypeOK /\ RequestsConserved /\ WarmInv /\ ClosedInv /\ DoneInv /\ LoopInv

-----------------------------------------------------------------------------
LEMMA ParallelismType == Parallelism \in Nat
BY ClientsAssumption, FS_CardinalityType DEF Parallelism

(* A client that goes from one state to another is counted in the new one. *)
LEMMA Counted ==
  ASSUME NEW x
  PROVE  InState(x) \in Nat
<1> DEFINE D == {c \in Clients : clients[c] = x}
<1>1. IsFiniteSet(D)
  BY ClientsAssumption, FS_Subset
<1>2. Cardinality(D) \in Nat
  BY <1>1, FS_CardinalityType
<1> QED
  BY <1>2 DEF InState

LEMMA ClientMoves ==
  ASSUME clients \in [Clients -> ClientStates],
         NEW c \in Clients, NEW y, clients' = [clients EXCEPT ![c] = y], clients[c] # y,
         NEW x
  PROVE  InState(x)' = IF x = y THEN InState(x) + 1
                       ELSE IF x = clients[c] THEN InState(x) - 1 ELSE InState(x)
<1> DEFINE D == {d \in Clients : clients[d] = x}
           E == {d \in Clients : clients'[d] = x}
<1>1. IsFiniteSet(D)
  BY ClientsAssumption, FS_Subset
<1>2. CASE x = y
  <2>1. E = D \cup {c} /\ c \notin D
    BY <1>2
  <2>2. Cardinality(E) = Cardinality(D) + 1
    BY <1>1, <2>1, FS_AddElement
  <2> QED
    BY <1>2, <2>2 DEF InState
<1>3. CASE x # y /\ x = clients[c]
  <2>1. E = D \ {c} /\ c \in D
    BY <1>3
  <2>2. Cardinality(E) = Cardinality(D) - 1
    BY <1>1, <2>1, FS_RemoveElement
  <2> QED
    BY <1>3, <2>2 DEF InState
<1>4. CASE x # y /\ x # clients[c]
  <2>1. E = D
    BY <1>4
  <2> QED
    BY <1>4, <2>1 DEF InState
<1> QED
  BY <1>2, <1>3, <1>4

LEMMA NobodyInState ==
  ASSUME NEW x, \A c \in Clients : clients[c] # x
  PROVE  InState(x) = 0
<1>1. {c \in Clients : clients[c] = x} = {}
  OBVIOUS
<1> QED
  BY <1>1, FS_EmptySet DEF InState

LEMMA InitIInv == Init => IInv
<1> SUFFICES ASSUME Init PROVE IInv
  OBVIOUS
<1> USE DEF Init
<1>1. ControlTypeOK
  <2>1. 0 \in 0 .. Parallelism /\ 0 \in 0 .. AggBatchSize /\ 0 \in 0 .. AggBatchSize - 1
    BY BatchAssumption, ParallelismType
  <2>2. /\ warmCh \in 0 .. Parallelism /\ requestCh \in 0 .. Parallelism
        /\ resultCh \in 0 .. AggBatchSize /\ count \in 0 .. AggBatchSize - 1
    BY <2>1
  <2>3. /\ warmers \in [Clients -> {"receive", "call", "done"}]
        /\ clients \in [Clients -> ClientStates]
    BY DEF ClientStates
  <2>4. /\ closed \in SUBSET {"warmCh", "requestCh", "resultCh"}
        /\ requests \in Nat /\ calls \in Nat /\ end \in 0 .. calls
    OBVIOUS
  <2>5. timeUp \in BOOLEAN /\ aggregator \in {"none", "range", "done"} /\ main = "warm"
    OBVIOUS
  <2> HIDE DEF Init
  <2> QED
    BY <2>2, <2>3, <2>4, <2>5 DEF ControlTypeOK
<1>2. RequestsConserved
  BY NobodyInState DEF RequestsConserved
<1>3. WarmInv /\ ClosedInv /\ DoneInv /\ LoopInv
  BY RequestsAssumption, ClientsAssumption DEF WarmInv, ClosedInv, DoneInv, LoopInv, Warming, Sending, Ended
<1> QED
  BY <1>1, <1>2, <1>3 DEF IInv

-----------------------------------------------------------------------------
(* Steps that leave the clients of the run alone.                          *)
LEMMA RunKeeps ==
  ASSUME IInv,
         \/ WarmSend \/ WarmClose \/ (\E c \in Clients : Warmer(c))
         \/ ForRequests \/ TakeEndTime \/ CloseResults \/ Return \/ TimePasses \/ Aggregator
  PROVE  IInv'
<1> USE DEF IInv, warmVars, aggVars
<1>1. UNCHANGED <<requestCh, clients, requests, calls>>
  BY DEF WarmSend, WarmClose, Warmer, ForRequests, TakeEndTime, CloseResults, Return, TimePasses,
         Aggregator, Aggregate, LastBatch
<1>2. RequestsConserved'
  BY <1>1 DEF RequestsConserved, InState
<1>3. ControlTypeOK'
  <2> USE DEF ControlTypeOK
  <2>1. CASE WarmSend
    <3>1. warmCh' \in 0 .. Parallelism
      BY <2>1, ParallelismType DEF WarmSend
    <3> QED
      BY <2>1, <3>1 DEF WarmSend
  <2>2. ASSUME NEW c \in Clients, Warmer(c) PROVE ControlTypeOK'
    <3>1. warmCh' \in 0 .. Parallelism
      BY <2>2, ParallelismType DEF Warmer
    <3>2. warmers' \in [Clients -> {"receive", "call", "done"}]
      BY <2>2 DEF Warmer
    <3> QED
      BY <2>2, <3>1, <3>2 DEF Warmer
  <2>3. CASE WarmClose \/ ForRequests \/ TakeEndTime \/ CloseResults \/ Return \/ TimePasses
    <3> USE <2>3 DEF WarmClose, ForRequests, TakeEndTime, CloseResults, Return, TimePasses
    <3>1. UNCHANGED <<warmCh, warmers, resultCh, aggregator, count>>
      OBVIOUS
    <3>2. main' \in {"warmWait", "for", "send", "wait", "closeResults", "aggWait", "returned", "panic"}
      OBVIOUS
    <3>3. closed' \in SUBSET {"warmCh", "requestCh", "resultCh"}
      OBVIOUS
    <3>4. end' = end \/ end' = calls
      OBVIOUS
    <3>5. timeUp' = timeUp \/ timeUp' = TRUE
      OBVIOUS
    <3> HIDE DEF WarmClose, ForRequests, TakeEndTime, CloseResults, Return, TimePasses
    <3>6. end' \in 0 .. calls
      BY <3>4
    <3>7. timeUp' \in BOOLEAN
      BY <3>5
    <3> QED
      BY <1>1, <3>1, <3>2, <3>3, <3>6, <3>7
  <2>4. CASE Aggregator
    <3>1. resultCh' \in 0 .. AggBatchSize /\ count' \in 0 .. AggBatchSize - 1
      BY <2>4, BatchAssumption DEF Aggregator, Aggregate, LastBatch
    <3> QED
      BY <2>4, <3>1 DEF Aggregator, Aggregate, LastBatch
  <2> QED
    BY <2>1, <2>2, <2>3, <2>4
<1>4. WarmInv' /\ ClosedInv' /\ DoneInv' /\ LoopInv'
  <2> USE DEF WarmInv, ClosedInv, DoneInv, LoopInv, Warming, Sending, Ended, WarmersDone, ClientsDone
  <2>1. CASE WarmSend \/ WarmClose
    BY <2>1 DEF WarmSend, WarmClose
  <2>2. ASSUME NEW c \in Clients, Warmer(c) PROVE WarmInv' /\ ClosedInv' /\ DoneInv' /\ LoopInv'
    BY <2>2 DEF Warmer, ControlTypeOK
  <2>3. CASE ForRequests
    BY <2>3, RequestsAssumption DEF ForRequests, MoreRequests, ControlTypeOK
  <2>4. CASE TakeEndTime \/ CloseResults \/ Return
    BY <2>4 DEF TakeEndTime, CloseResults, Return
  <2>5. CASE TimePasses
    BY <2>5 DEF TimePasses
  <2>6. CASE Aggregator
    BY <2>6 DEF Aggregator, Aggregate, LastBatch
  <2> QED
    BY <2>1, <2>2, <2>3, <2>4, <2>5, <2>6
<1> QED
  BY <1>2, <1>3, <1>4

LEMMA StartRunKeeps ==
  ASSUME IInv, StartRun
  PROVE  IInv'
<1> USE DEF IInv, StartRun, warmVars
<1>1. ControlTypeOK'
  BY DEF ControlTypeOK, ClientStates
<1>2. InState("call") = 0 /\ InState("call")' = 0
  <2>1. {c \in Clients : clients[c] = "call"} = {} /\ {c \in Clients : clients'[c] = "call"} = {}
    BY DEF WarmInv, Warming
  <2> QED
    BY <2>1, FS_EmptySet DEF InState
<1>3. RequestsConserved'
  BY <1>2 DEF RequestsConserved
<1>4. WarmInv' /\ ClosedInv' /\ DoneInv' /\ LoopInv'
  BY DEF WarmInv, ClosedInv, DoneInv, LoopInv, Warming, Sending, Ended, WarmersDone
<1> QED
  BY <1>1, <1>3, <1>4

LEMMA SendRequestKeeps ==
  ASSUME IInv, SendRequest
  PROVE  IInv'
<1> USE DEF IInv, SendRequest, warmVars, aggVars
<1>1. ControlTypeOK'
  BY ParallelismType DEF ControlTypeOK
<1>2. RequestsConserved'
  <2>1. InState("call")' = InState("call")
    BY DEF InState
  <2> QED
    BY <2>1, Counted DEF RequestsConserved, ControlTypeOK
<1>3. WarmInv' /\ ClosedInv' /\ DoneInv' /\ LoopInv'
  BY RequestsAssumption DEF WarmInv, ClosedInv, DoneInv, LoopInv, Warming, Sending, Ended,
     WarmersDone, ControlTypeOK
<1> QED
  BY <1>1, <1>2, <1>3

(* A client takes a request, calls, sends the latency, or ends.            *)
LEMMA ClientKeeps ==
  ASSUME IInv, NEW c \in Clients, Client(c)
  PROVE  IInv'
<1> USE DEF IInv, warmVars, aggVars
<1>1. PICK y \in ClientStates \ {"none"} :
        /\ clients' = [clients EXCEPT ![c] = y]
        /\ \/ clients[c] = "receive" /\ y = "call" /\ requestCh > 0 /\ requestCh' = requestCh - 1
              /\ UNCHANGED <<resultCh, calls>>
           \/ clients[c] = "call" /\ y = "sendResult" /\ calls' = calls + 1
              /\ UNCHANGED <<requestCh, resultCh>>
           \/ clients[c] = "sendResult" /\ y = "receive" /\ resultCh < AggBatchSize
              /\ resultCh' = resultCh + 1 /\ UNCHANGED <<requestCh, calls>>
           \/ clients[c] = "receive" /\ y = "done" /\ requestCh = 0 /\ "requestCh" \in closed
              /\ UNCHANGED <<requestCh, resultCh, calls>>
  BY DEF Client, ClientStates
<1>2. UNCHANGED <<main, warmVars, closed, requests, timeUp, end, aggVars>>
  BY DEF Client
<1>3. clients[c] \in {"receive", "call", "sendResult"} /\ clients[c] # y
  BY <1>1
<1>4. /\ clients \in [Clients -> ClientStates]
      /\ \A d \in Clients : clients'[d] = IF d = c THEN y ELSE clients[d]
  BY <1>1 DEF ControlTypeOK
<1>5. ControlTypeOK'
  BY <1>1, <1>2, ParallelismType, BatchAssumption DEF ControlTypeOK
<1>6. RequestsConserved'
  <2>1. InState("call")' = IF y = "call" THEN InState("call") + 1
                           ELSE IF clients[c] = "call" THEN InState("call") - 1 ELSE InState("call")
    BY <1>1, <1>3, <1>4, ClientMoves
  <2> QED
    BY <1>1, <1>2, <2>1, Counted DEF RequestsConserved, ControlTypeOK
<1>7. ~Warming /\ ~Ended
  BY <1>3 DEF WarmInv, DoneInv, ClientsDone
<1>8. WarmInv' /\ ClosedInv' /\ DoneInv' /\ LoopInv'
  BY <1>1, <1>2, <1>4, <1>7 DEF WarmInv, ClosedInv, DoneInv, LoopInv, Warming, Sending, Ended,
     WarmersDone
<1> QED
  BY <1>5, <1>6, <1>8

LEMMA InductiveInvariant == IInv /\ [Next]_vars => IInv'
<1> SUFFICES ASSUME IInv, [Next]_vars PROVE IInv'
  OBVIOUS
<1>1. CASE UNCHANGED vars
  BY <1>1 DEF vars, warmVars, aggVars, IInv, ControlTypeOK, RequestsConserved, InState, WarmInv,
              ClosedInv, DoneInv, LoopInv, Warming, Sending, Ended, WarmersDone, ClientsDone
<1>2. CASE StartRun
  BY <1>2, StartRunKeeps
<1>3. CASE RunStep
  BY <1>3, RunKeeps, SendRequestKeeps DEF RunStep
<1>4. CASE WarmSend \/ WarmClose \/ TimePasses \/ Aggregator
  BY <1>4, RunKeeps
<1>5. ASSUME NEW c \in Clients, Warmer(c) \/ Client(c) PROVE IInv'
  BY <1>5, RunKeeps, ClientKeeps
<1> QED
  BY <1>1, <1>2, <1>3, <1>4, <1>5 DEF Next

LEMMA Invariance == Spec => []IInv
BY InitIInv, InductiveInvariant, PTL DEF Spec

-----------------------------------------------------------------------------
(* No request is lost or served twice between the loop that sends it, the  *)
(* channel and the clients (run).                                          *)
THEOREM NoRequestLost == Spec => []RequestsConserved
<1>1. IInv => RequestsConserved
  BY DEF IInv
<1> QED
  BY <1>1, Invariance, PTL

(* No call of the warm-up runs while requests are measured, and every call *)
(* of the run has ended when the end time is taken (warmRequests, run).    *)
THEOREM DurationIsThatOfCalls == Spec => []DurationCoversCalls
<1>1. IInv => DurationCoversCalls
  <2> SUFFICES ASSUME IInv PROVE DurationCoversCalls
    OBVIOUS
  <2> USE DEF IInv
  <2>1. (\E c \in Clients : clients[c] # "none") => \A c \in Clients : warmers[c] = "done"
    BY DEF WarmInv, WarmersDone
  <2>2. ASSUME main \in {"closeResults", "aggWait", "returned"} PROVE end = requests
    <3>1. ClientsDone /\ end = calls
      BY <2>2 DEF DoneInv, Ended
    <3>2. requestCh = 0
      BY <3>1, ClientsAssumption DEF DoneInv, ClientsDone
    <3>3. InState("call") = 0
      BY <3>1, NobodyInState DEF ClientsDone
    <3> QED
      BY <3>1, <3>2, <3>3 DEF RequestsConserved, ControlTypeOK
  <2> QED
    BY <2>1, <2>2 DEF DurationCoversCalls
<1> QED
  BY <1>1, Invariance, PTL

(* No client sends a latency on resultCh once it is closed (run).          *)
THEOREM ResultsBeforeClose == Spec => []NoSendOnClosed
<1>1. IInv => NoSendOnClosed
  <2> SUFFICES ASSUME IInv, "resultCh" \in closed
               PROVE  InState("call") + InState("sendResult") = 0
    BY DEF NoSendOnClosed
  <2>1. ClientsDone
    BY DEF IInv, ClosedInv, DoneInv, Ended
  <2>2. InState("call") = 0 /\ InState("sendResult") = 0
    BY <2>1, NobodyInState DEF ClientsDone
  <2> QED
    BY <2>2
<1> QED
  BY <1>1, Invariance, PTL

LEMMA AsAsked ==
  ASSUME IInv
  PROVE  CallsAsAsked
<1> SUFFICES ASSUME IInv, main = "returned", Requests > 0
             PROVE  calls <= Requests /\ (~timeUp => calls = Requests)
  BY DEF CallsAsAsked
<1> USE DEF IInv
<1>1. ClientsDone
  BY DEF DoneInv, Ended
<1>2. requestCh = 0 /\ InState("call") = 0
  BY <1>1, ClientsAssumption, NobodyInState DEF DoneInv, ClientsDone
<1>3. calls = requests
  BY <1>2 DEF RequestsConserved, ControlTypeOK
<1>4. "requestCh" \in closed
  BY DEF ClosedInv, Warming, Sending
<1> QED
  BY <1>3, <1>4 DEF LoopInv

(* A run makes exactly the calls asked for, fewer only if its duration     *)
(* passes first (run).                                                     *)
THEOREM AsManyAsAsked == Spec => []CallsAsAsked
<1>1. IInv => CallsAsAsked
  BY AsAsked
<1> QED
  BY <1>1, Invariance, PTL

-----------------------------------------------------------------------------
(* Sums and the second aggregation.                                        *)

(* A function that adds up ws ends with its sum.                           *)
LEMMA SumIs ==
  ASSUME NEW ws, Len(ws) \in Nat,
         NEW f \in [0 .. Len(ws) -> Nat], f[0] = 0,
         \A i \in 1 .. Len(ws) : f[i] = f[i - 1] + ws[i]
  PROVE  Sum(ws) = f[Len(ws)]
<1> DEFINE g == CHOOSE h : h = [i \in 0 .. Len(ws) |-> IF i = 0 THEN 0 ELSE h[i - 1] + ws[i]]
           S == {n \in 0 .. Len(ws) : g[n] = f[n]}
<1>1. f = [i \in 0 .. Len(ws) |-> IF i = 0 THEN 0 ELSE f[i - 1] + ws[i]]
  OBVIOUS
<1>2. g = [i \in 0 .. Len(ws) |-> IF i = 0 THEN 0 ELSE g[i - 1] + ws[i]]
  BY <1>1
<1>3. Sum(ws) = g[Len(ws)]
  BY DEF Sum
<1> HIDE DEF g
<1>4. 0 \in S
  BY <1>2
<1>5. ASSUME NEW n \in 0 .. Len(ws), n < Len(ws), n \in S
      PROVE  n + 1 \in S
  <2>1. n + 1 \in 1 .. Len(ws) /\ (n + 1) - 1 = n /\ n + 1 \in 0 .. Len(ws) /\ n + 1 # 0
    BY <1>5
  <2>2. g[n + 1] = g[n] + ws[n + 1]
    BY <1>2, <2>1
  <2>3. f[n + 1] = f[n] + ws[n + 1]
    BY <2>1
  <2> QED
    BY <1>5, <2>1, <2>2, <2>3
<1>6. 0 .. Len(ws) \subseteq S
  <2> HIDE DEF S
  <2> QED
    BY <1>4, <1>5, BoundedInduction
<1> QED
  BY <1>3, <1>6

LEMMA SumExists ==
  ASSUME NEW ws \in Seq(Nat)
  PROVE  \E f \in [0 .. Len(ws) -> Nat] :
           /\ f[0] = 0
           /\ \A i \in 1 .. Len(ws) : f[i] = f[i - 1] + ws[i]
           /\ Sum(ws) = f[Len(ws)]
<1> DEFINE Step == [i \in 1 .. Len(ws) |-> [sum \in Nat |-> sum + ws[i]]]
<1>1. Step \in [1 .. Len(ws) -> [Nat -> Nat]]
  OBVIOUS
<1>2. Len(ws) \in Nat /\ 0 \in Nat
  OBVIOUS
<1>3. PICK f : IsRecursion(f, Len(ws), Nat, 0, Step)
  <2> HIDE DEF Step
  <2> QED
    BY <1>1, <1>2, RecursionExists
<1>4. ASSUME NEW i \in 1 .. Len(ws)
      PROVE  f[i] = f[i - 1] + ws[i]
  <2>1. i - 1 \in 0 .. Len(ws) /\ ws[i] \in Nat
    BY <1>2
  <2>2. f[i - 1] \in Nat /\ f[i] = Step[i][f[i - 1]]
    BY <1>3, <2>1 DEF IsRecursion
  <2>3. Step[i][f[i - 1]] = f[i - 1] + ws[i]
    BY <2>2
  <2> QED
    BY <2>2, <2>3
<1>5. f \in [0 .. Len(ws) -> Nat] /\ f[0] = 0
  BY <1>3 DEF IsRecursion
<1>6. Sum(ws) = f[Len(ws)]
  BY <1>2, <1>4, <1>5, SumIs
<1> QED
  BY <1>4, <1>5, <1>6

LEMMA SumEmpty == Sum(<<>>) = 0
<1>1. <<>> \in Seq(Nat) /\ Len(<<>>) = 0
  OBVIOUS
<1> QED
  BY <1>1, SumExists

LEMMA SumAppend ==
  ASSUME NEW ws \in Seq(Nat), NEW x \in Nat
  PROVE  Sum(ws) \in Nat /\ Sum(Append(ws, x)) = Sum(ws) + x
<1>1. PICK f \in [0 .. Len(ws) -> Nat] :
        /\ f[0] = 0
        /\ \A i \in 1 .. Len(ws) : f[i] = f[i - 1] + ws[i]
        /\ Sum(ws) = f[Len(ws)]
  BY SumExists
<1> DEFINE N == Len(ws)
           xs == Append(ws, x)
           g == [i \in 0 .. Len(xs) |-> IF i <= N THEN f[i] ELSE f[N] + x]
<1>2. N \in Nat /\ Len(xs) = N + 1 /\ f[N] \in Nat
  OBVIOUS
<1>3. xs[N + 1] = x /\ \A i \in 1 .. N : xs[i] = ws[i]
  OBVIOUS
<1>4. g \in [0 .. Len(xs) -> Nat]
  BY <1>2
<1>5. g[0] = 0 /\ g[Len(xs)] = f[N] + x
  BY <1>1, <1>2
<1>6. ASSUME NEW i \in 1 .. Len(xs)
      PROVE  g[i] = g[i - 1] + xs[i]
  <2>1. CASE i <= N
    <3>1. i \in 1 .. N /\ i - 1 \in 0 .. N /\ i \in 0 .. Len(xs) /\ i - 1 \in 0 .. Len(xs)
      BY <1>2, <2>1
    <3>2. g[i] = f[i] /\ g[i - 1] = f[i - 1]
      BY <3>1, <1>2
    <3> QED
      BY <1>1, <1>3, <3>1, <3>2
  <2>2. CASE i = N + 1
    <3>1. N \in 0 .. Len(xs) /\ N + 1 \in 0 .. Len(xs) /\ (N + 1) - 1 = N /\ ~(N + 1 <= N)
      BY <1>2
    <3>2. g[N + 1] = f[N] + x /\ g[N] = f[N]
      BY <3>1
    <3> QED
      BY <1>3, <2>2, <3>1, <3>2
  <2>3. i <= N \/ i = N + 1
    BY <1>2
  <2> QED
    BY <2>1, <2>2, <2>3
<1>7. Sum(xs) = g[Len(xs)]
  <2>1. Len(xs) \in Nat
    BY <1>2
  <2> HIDE DEF g, xs
  <2> QED
    BY <2>1, <1>4, <1>5, <1>6, SumIs
<1> QED
  BY <1>1, <1>2, <1>5, <1>7

(* What the loop of the second aggregation carries along, and one turn.    *)
Accumulators == [count : Nat, weight : Nat, new : Seq(Nat)]
Added(acc, w) ==
  IF acc.count + 1 = AggBatchSize
    THEN [count |-> 0, weight |-> 0, new |-> Append(acc.new, acc.weight + w)]
    ELSE [count |-> acc.count + 1, weight |-> acc.weight + w, new |-> acc.new]

LEMMA AddedType ==
  ASSUME NEW acc \in Accumulators, NEW w \in Nat
  PROVE  Added(acc, w) \in Accumulators
<1>1. acc.count \in Nat /\ acc.weight \in Nat /\ acc.new \in Seq(Nat)
  BY DEF Accumulators
<1>2. Append(acc.new, acc.weight + w) \in Seq(Nat)
  BY <1>1
<1> QED
  BY <1>1, <1>2 DEF Added, Accumulators

(* The loop of the second aggregation as the recursion it is.              *)
LEMMA ReaggregateIs ==
  ASSUME NEW ws \in Seq(Nat), NEW count0 \in Nat
  PROVE  \E after \in [0 .. Len(ws) -> Accumulators] :
           /\ after[0] = [count |-> count0, weight |-> 0, new |-> <<>>]
           /\ \A i \in 1 .. Len(ws) : after[i] = Added(after[i - 1], ws[i])
           /\ Reaggregate(ws, count0) = after[Len(ws)].new
<1> DEFINE start == [count |-> count0, weight |-> 0, new |-> <<>>]
           Step == [i \in 1 .. Len(ws) |-> [acc \in Accumulators |-> Added(acc, ws[i])]]
<1>1. Len(ws) \in Nat /\ start \in Accumulators
  BY DEF Accumulators
<1>2. Step \in [1 .. Len(ws) -> [Accumulators -> Accumulators]]
  BY AddedType
<1>3. PICK f : IsRecursion(f, Len(ws), Accumulators, start, Step)
  <2> HIDE DEF start, Step
  <2> QED
    BY <1>1, <1>2, RecursionExists
<1>4. f \in [0 .. Len(ws) -> Accumulators] /\ f[0] = start
  BY <1>3 DEF IsRecursion
<1>5. ASSUME NEW i \in 1 .. Len(ws)
      PROVE  f[i] = Added(f[i - 1], ws[i])
  <2>1. i - 1 \in 0 .. Len(ws)
    BY <1>1
  <2>2. f[i - 1] \in Accumulators /\ f[i] = Step[i][f[i - 1]]
    BY <1>3, <2>1 DEF IsRecursion
  <2> QED
    BY <2>2
<1> DEFINE IsLoop(h) ==
             h = [i \in 0 .. Len(ws) |->
                    IF i = 0
                      THEN [count |-> count0, weight |-> 0, new |-> <<>>]
                    ELSE IF h[i - 1].count + 1 = AggBatchSize
                      THEN [count |-> 0, weight |-> 0,
                            new |-> Append(h[i - 1].new, h[i - 1].weight + ws[i])]
                      ELSE [count |-> h[i - 1].count + 1, weight |-> h[i - 1].weight + ws[i],
                            new |-> h[i - 1].new]]
           after == CHOOSE h : IsLoop(h)
<1>6. Reaggregate(ws, count0) = after[Len(ws)].new
  BY DEF Reaggregate
<1>7. IsLoop(f)
  <2>1. \A i \in 0 .. Len(ws) : i # 0 => i \in 1 .. Len(ws)
    BY <1>1
  <2>2. \A i \in 0 .. Len(ws) :
          f[i] = IF i = 0 THEN start ELSE Added(f[i - 1], ws[i])
    BY <1>4, <1>5, <2>1
  <2>3. f = [i \in 0 .. Len(ws) |-> IF i = 0 THEN start ELSE Added(f[i - 1], ws[i])]
    BY <1>4, <2>2
  <2> QED
    BY <2>3, Zenon DEF Added
<1>8. IsLoop(after)
  BY <1>7
<1> HIDE DEF after
<1>9. after[0] = start /\ \A i \in 1 .. Len(ws) : after[i] = Added(after[i - 1], ws[i])
  <2>1. 0 \in 0 .. Len(ws) /\ \A i \in 1 .. Len(ws) : i \in 0 .. Len(ws) /\ i # 0
    BY <1>1
  <2> QED
    BY <1>8, <2>1, Zenon DEF Added
<1>10. \A i \in 0 .. Len(ws) : after[i] = f[i]
  <2> DEFINE S == {n \in 0 .. Len(ws) : after[n] = f[n]}
  <2>1. 0 \in S
    BY <1>1, <1>4, <1>9
  <2>2. ASSUME NEW n \in 0 .. Len(ws), n < Len(ws), n \in S
        PROVE  n + 1 \in S
    <3>1. n + 1 \in 1 .. Len(ws) /\ (n + 1) - 1 = n /\ n + 1 \in 0 .. Len(ws)
      BY <1>1, <2>2
    <3>2. after[n + 1] = Added(after[n], ws[n + 1]) /\ f[n + 1] = Added(f[n], ws[n + 1])
      BY <1>5, <1>9, <3>1
    <3> QED
      BY <2>2, <3>1, <3>2
  <2>3. 0 .. Len(ws) \subseteq S
    <3> HIDE DEF S
    <3> QED
      BY <1>1, <2>1, <2>2, BoundedInduction
  <2> QED
    BY <2>3
<1>11. Reaggregate(ws, count0) = f[Len(ws)].new
  BY <1>1, <1>6, <1>10
<1> HIDE DEF start
<1>12. f[0] = start /\ \A i \in 1 .. Len(ws) : f[i] = Added(f[i - 1], ws[i])
  BY <1>4, <1>5
<1> QED
  BY <1>4, <1>11, <1>12 DEF start

(* The loop starts with count equal to aggBatchSize and only counts up, so *)
(* it never fills a batch: every average so far is dropped (lines 264-276).*)
THEOREM SecondAggregationDrops ==
  ASSUME NEW ws \in Seq(Nat)
  PROVE  Reaggregate(ws, AggBatchSize) = <<>>
<1>1. AggBatchSize \in Nat \ {0} /\ Len(ws) \in Nat
  BY BatchAssumption
<1>2. PICK after \in [0 .. Len(ws) -> Accumulators] :
        /\ after[0] = [count |-> AggBatchSize, weight |-> 0, new |-> <<>>]
        /\ \A i \in 1 .. Len(ws) : after[i] = Added(after[i - 1], ws[i])
        /\ Reaggregate(ws, AggBatchSize) = after[Len(ws)].new
  BY <1>1, ReaggregateIs
<1> DEFINE S == {n \in 0 .. Len(ws) : after[n].count = AggBatchSize + n /\ after[n].new = <<>>}
<1>3. 0 \in S
  BY <1>1, <1>2
<1>4. ASSUME NEW n \in 0 .. Len(ws), n < Len(ws), n \in S
      PROVE  n + 1 \in S
  <2>1. n + 1 \in 1 .. Len(ws) /\ (n + 1) - 1 = n /\ n + 1 \in 0 .. Len(ws)
    BY <1>1, <1>4
  <2>2. after[n + 1] = Added(after[n], ws[n + 1])
    BY <1>2, <2>1
  <2>3. after[n].count = AggBatchSize + n /\ after[n].new = <<>>
    BY <1>4
  <2>4. after[n].count + 1 # AggBatchSize /\ after[n].count + 1 = AggBatchSize + (n + 1)
    BY <1>1, <2>3
  <2>5. after[n + 1].count = AggBatchSize + (n + 1) /\ after[n + 1].new = <<>>
    BY <2>2, <2>3, <2>4 DEF Added
  <2> QED
    BY <2>1, <2>5
<1>5. 0 .. Len(ws) \subseteq S
  <2> HIDE DEF S
  <2> QED
    BY <1>1, <1>3, <1>4, BoundedInduction
<1> QED
  BY <1>1, <1>2, <1>5

-----------------------------------------------------------------------------
(* What the averages stand for.                                            *)

(* The aggregator ends after the channel is closed and empty, and Run      *)
(* looks at its results afterwards.                                        *)
AggregatorInv ==
  /\ aggregator = "done" => resultCh = 0 /\ "resultCh" \in closed
  /\ main \in {"returned", "panic"} => aggregator = "done"
  /\ main = "returned" => results # <<>>
  /\ main = "panic" => results = <<>>

InBatch == IF aggregator = "done" THEN 0 ELSE count

(* While the aggregator runs every average stands for a full batch; with   *)
(* the last one it holds less than a block.                                *)
AveragesInv ==
  /\ results \in Seq(Nat)
  /\ aggregator # "done" =>
       Samples = AggBatchSize * Len(results) /\ Len(results) < AggBatchSize * AggBatchSize
  /\ Samples < BlockSize
  /\ Samples = 0 <=> results = <<>>

(* Every call is in flight, in the averages, or in a block that is lost.   *)
BlocksInv ==
  \E k \in Nat :
    calls = k * BlockSize + InState("sendResult") + resultCh + Samples + InBatch

DataInv == AggregatorInv /\ AveragesInv /\ BlocksInv

LEMMA BlockSizeType == BlockSize \in Nat \ {0} /\ AggBatchSize * AggBatchSize \in Nat \ {0}
<1>1. AggBatchSize * AggBatchSize \in Nat \ {0}
  BY BatchAssumption
<1> QED
  BY <1>1, BatchAssumption DEF BlockSize

LEMMA SamplesType ==
  ASSUME results \in Seq(Nat)
  PROVE  Samples \in Nat
BY SumAppend DEF Samples

LEMMA InitDataInv == Init => DataInv
<1> SUFFICES ASSUME Init
             PROVE  DataInv
  OBVIOUS
<1> USE DEF Init
<1>1. Samples = 0 /\ results \in Seq(Nat) /\ Len(results) = 0
  BY SumEmpty DEF Samples
<1>2. InState("sendResult") = 0
  BY NobodyInState
<1>3. AveragesInv
  BY <1>1, BlockSizeType, BatchAssumption DEF AveragesInv
<1>4. calls = 0 * BlockSize + InState("sendResult") + resultCh + Samples + InBatch
  BY <1>1, <1>2, BlockSizeType DEF InBatch
<1>5. BlocksInv
  BY <1>4 DEF BlocksInv
<1> QED
  BY <1>3, <1>5 DEF DataInv, AggregatorInv

(* The averages after a full batch: one more, unless they make a block.    *)
LEMMA AfterBatch ==
  ASSUME NEW ws \in Seq(Nat)
  PROVE  WithBatch(ws) = IF Len(ws) + 1 = AggBatchSize * AggBatchSize
                           THEN <<>> ELSE Append(ws, AggBatchSize)
<1>1. Append(ws, AggBatchSize) \in Seq(Nat) /\ Len(Append(ws, AggBatchSize)) = Len(ws) + 1
  BY BatchAssumption
<1>2. Reaggregate(Append(ws, AggBatchSize), AggBatchSize) = <<>>
  BY <1>1, SecondAggregationDrops
<1> QED
  BY <1>1, <1>2 DEF WithBatch

(* Steps that touch neither the clients nor the aggregator's data.         *)
LEMMA RunKeepsData ==
  ASSUME IInv, DataInv,
         \/ WarmSend \/ WarmClose \/ (\E c \in Clients : Warmer(c))
         \/ ForRequests \/ SendRequest \/ TakeEndTime \/ CloseResults \/ Return \/ TimePasses
  PROVE  DataInv'
<1> USE DEF DataInv, warmVars, aggVars
<1>1. UNCHANGED <<clients, calls, resultCh, aggregator, count, results>>
  BY DEF WarmSend, WarmClose, Warmer, ForRequests, SendRequest, TakeEndTime, CloseResults,
         Return, TimePasses
<1>2. InState("sendResult")' = InState("sendResult") /\ Samples' = Samples /\ InBatch' = InBatch
  BY <1>1 DEF InState, Samples, InBatch
<1>3. BlocksInv' /\ AveragesInv'
  BY <1>1, <1>2 DEF BlocksInv, AveragesInv, BlockSize
<1>4. AggregatorInv'
  <2>1. closed \subseteq closed'
    BY DEF WarmSend, WarmClose, Warmer, ForRequests, SendRequest, TakeEndTime, CloseResults,
           Return, TimePasses
  <2>2. main' \in {"returned", "panic"} =>
          /\ aggregator = "done"
          /\ main' = "returned" => results # <<>>
          /\ main' = "panic" => results = <<>>
    BY DEF WarmSend, WarmClose, Warmer, ForRequests, SendRequest, TakeEndTime, CloseResults,
           Return, TimePasses, AggregatorInv, AggregatorDone
  <2> QED
    BY <1>1, <2>1, <2>2 DEF AggregatorInv
<1> QED
  BY <1>3, <1>4

LEMMA StartRunKeepsData ==
  ASSUME IInv, DataInv, StartRun
  PROVE  DataInv'
<1> USE DEF DataInv, StartRun, warmVars
<1>1. InState("sendResult") = 0 /\ InState("sendResult")' = 0
  <2>1. {c \in Clients : clients[c] = "sendResult"} = {} /\ {c \in Clients : clients'[c] = "sendResult"} = {}
    BY DEF IInv, WarmInv, Warming
  <2> QED
    BY <2>1, FS_EmptySet DEF InState
<1>2. aggregator # "done"
  BY DEF AggregatorInv, IInv, ClosedInv
<1>3. Samples' = Samples /\ InBatch' = InBatch
  BY <1>2 DEF Samples, InBatch
<1>4. BlocksInv'
  BY <1>1, <1>3 DEF BlocksInv, BlockSize
<1>5. AveragesInv' /\ AggregatorInv'
  BY <1>2, <1>3 DEF AveragesInv, AggregatorInv, BlockSize
<1> QED
  BY <1>4, <1>5

(* A latency goes from a call to a client to the channel.                  *)
LEMMA ClientKeepsData ==
  ASSUME IInv, DataInv, NEW c \in Clients, Client(c)
  PROVE  DataInv'
<1> USE DEF DataInv, warmVars, aggVars
<1>1. PICK y \in ClientStates :
        /\ clients' = [clients EXCEPT ![c] = y]
        /\ \/ clients[c] = "receive" /\ y \in {"call", "done"} /\ UNCHANGED <<resultCh, calls>>
           \/ clients[c] = "call" /\ y = "sendResult" /\ calls' = calls + 1 /\ UNCHANGED resultCh
           \/ clients[c] = "sendResult" /\ y = "receive" /\ resultCh' = resultCh + 1
              /\ UNCHANGED calls
  BY DEF Client, ClientStates
<1>2. UNCHANGED <<main, closed, aggregator, count, results>>
  BY DEF Client
<1>3. clients \in [Clients -> ClientStates] /\ resultCh \in Nat /\ calls \in Nat /\ count \in Nat
  BY BatchAssumption DEF IInv, ControlTypeOK
<1>4. clients[c] # y
  BY <1>1
<1>5. InState("sendResult")' = IF y = "sendResult" THEN InState("sendResult") + 1
                               ELSE IF clients[c] = "sendResult" THEN InState("sendResult") - 1
                               ELSE InState("sendResult")
  BY <1>1, <1>3, <1>4, ClientMoves
<1>6. Samples' = Samples /\ InBatch' = InBatch /\ InBatch \in Nat
  BY <1>2, <1>3 DEF Samples, InBatch
<1>7. AveragesInv'
  BY <1>2, <1>6 DEF AveragesInv, BlockSize
<1>8. calls' - calls = (InState("sendResult")' - InState("sendResult")) + (resultCh' - resultCh)
  BY <1>1, <1>3, <1>5, Counted
<1>9. BlocksInv'
  <2>1. PICK k \in Nat : calls = k * BlockSize + InState("sendResult") + resultCh + Samples + InBatch
    BY DEF BlocksInv
  <2>2. k * BlockSize \in Nat /\ BlockSize' = BlockSize /\ Samples \in Nat
    BY BlockSizeType, SamplesType DEF AveragesInv, BlockSize
  <2>3. InState("sendResult") \in Nat /\ InState("sendResult")' \in Int /\ calls' \in Int /\ resultCh' \in Int
    BY <1>1, <1>3, <1>5, Counted
  <2>4. calls' = k * BlockSize + InState("sendResult")' + resultCh' + Samples + InBatch
    BY <1>3, <1>6, <1>8, <2>1, <2>2, <2>3
  <2> QED
    BY <1>6, <2>2, <2>4 DEF BlocksInv
<1>10. AggregatorInv'
  <2>1. "resultCh" \notin closed
    BY <1>1 DEF IInv, ClosedInv, DoneInv, Ended, ClientsDone
  <2> QED
    BY <1>2, <2>1 DEF AggregatorInv
<1> QED
  BY <1>7, <1>9, <1>10

LEMMA FewerThanBlock ==
  ASSUME NEW n \in Nat, n < AggBatchSize * AggBatchSize
  PROVE  /\ AggBatchSize * n \in Nat /\ AggBatchSize * (n + 1) = AggBatchSize * n + AggBatchSize
         /\ AggBatchSize * n + AggBatchSize <= BlockSize
         /\ n + 1 # AggBatchSize * AggBatchSize => AggBatchSize * n + AggBatchSize < BlockSize
         /\ n + 1 = AggBatchSize * AggBatchSize => AggBatchSize * n + AggBatchSize = BlockSize
<1> DEFINE a == AggBatchSize
           m == a * a
<1>1. a \in Nat \ {0} /\ m \in Nat
  BY BatchAssumption
<1>2. \A i, j \in Nat : i <= j => a * i <= a * j
  BY <1>1
<1>3. \A i, j \in Nat : i < j => a * i < a * j
  BY <1>1
<1>4. a * m = BlockSize
  BY <1>1 DEF BlockSize
<1>5. a * n \in Nat /\ a * (n + 1) = a * n + a
  BY <1>1
<1> HIDE DEF a, m
<1>6. n < m
  BY DEF a, m
<1>7. n + 1 \in Nat /\ n + 1 <= m /\ (n + 1 # m => n + 1 < m)
  BY <1>1, <1>6
<1>8. a * (n + 1) <= a * m /\ (n + 1 # m => a * (n + 1) < a * m) /\ (n + 1 = m => a * (n + 1) = a * m)
  BY <1>1, <1>2, <1>3, <1>7
<1>9. /\ a * n + a <= BlockSize
      /\ n + 1 # m => a * n + a < BlockSize
      /\ n + 1 = m => a * n + a = BlockSize
  BY <1>4, <1>5, <1>8
<1> QED
  BY <1>5, <1>9 DEF a, m

(* The aggregator takes a latency; a full batch becomes an average, or     *)
(* completes a block.                                                      *)
LEMMA AggregateKeepsData ==
  ASSUME IInv, DataInv, Aggregate
  PROVE  DataInv'
<1> USE DEF DataInv, warmVars
<1> DEFINE n == Len(results)
<1>1. /\ aggregator = "range" /\ resultCh \in Nat \ {0} /\ resultCh' = resultCh - 1
      /\ UNCHANGED <<main, clients, closed, calls, aggregator>>
      /\ count \in Nat /\ count < AggBatchSize /\ calls \in Nat
  BY BatchAssumption DEF Aggregate, IInv, ControlTypeOK
<1>2. /\ results \in Seq(Nat) /\ n \in Nat /\ Samples \in Nat
      /\ Samples = AggBatchSize * n /\ n < AggBatchSize * AggBatchSize
      /\ Samples < BlockSize
  BY <1>1, SamplesType DEF AveragesInv
<1>3. InState("sendResult")' = InState("sendResult") /\ InState("sendResult") \in Nat
  BY <1>1, Counted DEF InState
<1>4. InBatch = count /\ InBatch' = count' /\ BlockSize' = BlockSize
  BY <1>1 DEF InBatch, BlockSize
<1>5. PICK k \in Nat : calls = k * BlockSize + InState("sendResult") + resultCh + Samples + InBatch
  BY DEF BlocksInv
<1>6. k * BlockSize \in Nat /\ (k + 1) * BlockSize = k * BlockSize + BlockSize
  BY BlockSizeType
<1> DEFINE B == k * BlockSize
           F == InState("sendResult")
<1>7. /\ B \in Nat /\ F \in Nat /\ resultCh \in Int /\ Samples \in Nat /\ count \in Nat
       /\ F' = F /\ calls' = calls /\ resultCh' = resultCh - 1
       /\ calls = B + F + resultCh + Samples + count
  BY <1>1, <1>2, <1>3, <1>4, <1>5, <1>6
<1>8. AggregatorInv'
  BY <1>1 DEF AggregatorInv
<1>9. CASE count + 1 # AggBatchSize
  <2>1. count' = count + 1 /\ results' = results /\ Samples' = Samples
    BY <1>9 DEF Aggregate, Samples
  <2>2. AveragesInv'
    BY <1>1, <1>4, <2>1 DEF AveragesInv
  <2>3. calls' = B + F' + resultCh' + Samples' + InBatch'
    <3> HIDE DEF B, F
    <3> QED
      BY <1>4, <1>7, <2>1
  <2> QED
    BY <1>4, <1>8, <2>2, <2>3 DEF BlocksInv
<1>10. CASE count + 1 = AggBatchSize
  <2>1. count' = 0 /\ results' = WithBatch(results)
    BY <1>10 DEF Aggregate
  <2>2. CASE n + 1 = AggBatchSize * AggBatchSize
    <3>1. results' = <<>> /\ Samples' = 0
      BY <1>2, <2>1, <2>2, AfterBatch, SumEmpty DEF Samples
    <3>2. AveragesInv'
      <4>1. results' \in Seq(Nat) /\ Len(results') = 0
        BY <3>1
      <4>2. AggBatchSize * 0 = 0
        BY BatchAssumption
      <4> QED
        BY <1>4, <3>1, <4>1, <4>2, BlockSizeType DEF AveragesInv
    <3>3. AggBatchSize * n + AggBatchSize = BlockSize
      BY <1>2, <2>2, FewerThanBlock
    <3>4. calls' = (k + 1) * BlockSize + InState("sendResult")' + resultCh' + Samples' + InBatch'
      <4>1. Samples + count + 1 = BlockSize /\ BlockSize \in Nat
        BY <1>1, <1>2, <1>10, <3>3, BlockSizeType
      <4>2. calls' = B + BlockSize + F' + resultCh' + Samples' + InBatch'
        <5> HIDE DEF B, F
        <5> QED
          BY <1>4, <1>7, <2>1, <3>1, <4>1
      <4> QED
        BY <1>6, <4>2
    <3>5. k + 1 \in Nat
      OBVIOUS
    <3> QED
      BY <1>4, <1>8, <3>2, <3>4, <3>5 DEF BlocksInv
  <2>3. CASE n + 1 # AggBatchSize * AggBatchSize
    <3>1. results' = Append(results, AggBatchSize) /\ Samples' = Samples + AggBatchSize
      BY <1>2, <2>1, <2>3, AfterBatch, SumAppend, BatchAssumption DEF Samples
    <3>2. results' \in Seq(Nat) /\ Len(results') = n + 1 /\ results' # <<>>
      BY <1>2, <3>1, BatchAssumption
    <3>3. /\ Samples' = AggBatchSize * (n + 1) /\ Samples' < BlockSize /\ Samples' # 0
          /\ n + 1 < AggBatchSize * AggBatchSize
      <4>1. AggBatchSize * (n + 1) = AggBatchSize * n + AggBatchSize
        BY <1>2, FewerThanBlock
      <4>2. AggBatchSize * n + AggBatchSize < BlockSize
        BY <1>2, <2>3, FewerThanBlock
      <4>3. Samples + AggBatchSize # 0
        BY <1>2, BatchAssumption
      <4>4. n + 1 < AggBatchSize * AggBatchSize
        BY <1>2, <2>3, BlockSizeType
      <4> QED
        BY <1>2, <3>1, <4>1, <4>2, <4>3, <4>4
    <3>4. AveragesInv'
      BY <1>4, <3>2, <3>3 DEF AveragesInv
    <3>5. calls' = B + F' + resultCh' + Samples' + InBatch'
      <4> HIDE DEF B, F
      <4> QED
        BY <1>4, <1>10, <1>7, <2>1, <3>1, BatchAssumption
    <3> QED
      BY <1>4, <1>8, <3>4, <3>5 DEF BlocksInv
  <2> QED
    BY <2>2, <2>3
<1> QED
  BY <1>9, <1>10

(* What is left makes a last average.                                      *)
LEMMA LastBatchKeepsData ==
  ASSUME IInv, DataInv, LastBatch
  PROVE  DataInv'
<1> USE DEF DataInv, warmVars
<1> DEFINE n == Len(results)
<1>1. /\ aggregator = "range" /\ aggregator' = "done"
      /\ resultCh = 0 /\ "resultCh" \in closed
      /\ UNCHANGED <<main, clients, closed, calls, resultCh, count>>
      /\ count \in Nat /\ count < AggBatchSize /\ calls \in Nat
  BY BatchAssumption DEF LastBatch, IInv, ControlTypeOK
<1>2. /\ results \in Seq(Nat) /\ n \in Nat /\ Samples \in Nat
      /\ Samples = AggBatchSize * n /\ n < AggBatchSize * AggBatchSize
      /\ Samples < BlockSize /\ (Samples = 0 <=> results = <<>>)
  BY <1>1, SamplesType DEF AveragesInv
<1>3. InState("sendResult")' = InState("sendResult") /\ InState("sendResult") \in Nat
  BY <1>1, Counted DEF InState
<1>4. InBatch = count /\ InBatch' = 0 /\ BlockSize' = BlockSize
  BY <1>1 DEF InBatch, BlockSize
<1>5. PICK k \in Nat : calls = k * BlockSize + InState("sendResult") + resultCh + Samples + InBatch
  BY DEF BlocksInv
<1>6. k * BlockSize \in Nat
  BY BlockSizeType
<1>7. /\ results' \in Seq(Nat) /\ Samples' = Samples + count
      /\ Samples' = 0 <=> results' = <<>>
  <2>1. CASE count = 0
    <3>1. results' = results
      BY <2>1 DEF LastBatch
    <3> QED
      BY <1>2, <2>1, <3>1 DEF Samples
  <2>2. CASE count > 0
    <3>1. results' = Append(results, count)
      BY <2>2 DEF LastBatch
    <3>2. Samples' = Samples + count
      BY <1>1, <1>2, <3>1, SumAppend DEF Samples
    <3>3. results' \in Seq(Nat) /\ results' # <<>> /\ Samples' # 0
      BY <1>1, <1>2, <2>2, <3>1, <3>2
    <3> QED
      BY <3>2, <3>3
  <2> QED
    BY <1>1, <2>1, <2>2
<1>8. Samples' < BlockSize
  <2>1. AggBatchSize * n + AggBatchSize <= BlockSize
    BY <1>2, FewerThanBlock
  <2> QED
    BY <1>1, <1>2, <1>7, <2>1, BatchAssumption, BlockSizeType
<1>9. AveragesInv'
  BY <1>1, <1>4, <1>7, <1>8 DEF AveragesInv
<1>10. calls' = k * BlockSize + InState("sendResult")' + resultCh' + Samples' + InBatch'
  BY <1>1, <1>2, <1>3, <1>4, <1>5, <1>6, <1>7
<1>11. AggregatorInv'
  <2>1. main \notin {"returned", "panic"}
    BY <1>1 DEF AggregatorInv
  <2> QED
    BY <1>1, <2>1 DEF AggregatorInv
<1> QED
  BY <1>4, <1>9, <1>10, <1>11 DEF BlocksInv

LEMMA DataInductive == IInv /\ DataInv /\ [Next]_vars => DataInv'
<1> SUFFICES ASSUME IInv, DataInv, [Next]_vars
             PROVE  DataInv'
  OBVIOUS
<1>1. CASE UNCHANGED vars
  BY <1>1 DEF vars, warmVars, aggVars, DataInv, AggregatorInv, AveragesInv, BlocksInv, InBatch,
              BlockSize, InState, Samples
<1>2. CASE StartRun
  BY <1>2, StartRunKeepsData
<1>3. CASE RunStep
  BY <1>3, RunKeepsData DEF RunStep
<1>4. CASE WarmSend \/ WarmClose \/ TimePasses
  BY <1>4, RunKeepsData
<1>5. CASE Aggregator
  BY <1>5, AggregateKeepsData, LastBatchKeepsData DEF Aggregator
<1>6. ASSUME NEW c \in Clients, Warmer(c) \/ Client(c)
      PROVE  DataInv'
  BY <1>6, RunKeepsData, ClientKeepsData
<1> QED
  BY <1>1, <1>2, <1>3, <1>4, <1>5, <1>6 DEF Next

LEMMA DataInvariance == Spec => [](IInv /\ DataInv)
<1>1. Init => IInv /\ DataInv
  BY InitIInv, InitDataInv
<1>2. IInv /\ DataInv /\ [Next]_vars => (IInv /\ DataInv)'
  BY InductiveInvariant, DataInductive
<1> QED
  BY <1>1, <1>2, PTL DEF Spec

-----------------------------------------------------------------------------
(* Every variable keeps its type: the channels stay within their buffers,  *)
(* the batch within its size, the averages are a sequence of numbers       *)
(* (Benchmark.Run).                                                        *)
THEOREM TypeCorrect == Spec => []TypeOK
<1>1. IInv /\ DataInv => TypeOK
  <2> SUFFICES ASSUME IInv, DataInv
               PROVE  TypeOK
    OBVIOUS
  <2>1. calls \in 0 .. requests
    BY Counted, ParallelismType DEF IInv, RequestsConserved, ControlTypeOK
  <2>2. results \in Seq(Nat)
    BY DEF DataInv, AveragesInv
  <2> QED
    BY <2>1, <2>2 DEF IInv, ControlTypeOK, ClientStates, TypeOK
<1> QED
  BY <1>1, DataInvariance, PTL

(* No latency is lost or counted twice between the clients, the channel    *)
(* and the averages, but for whole blocks in the second aggregation (run,  *)
(* the aggregator goroutine).                                              *)
THEOREM NoLatencyLost == Spec => []Conservation
<1>1. IInv /\ DataInv => Conservation
  <2> SUFFICES ASSUME IInv, DataInv
               PROVE  Conservation
    OBVIOUS
  <2>1. PICK k \in Nat : calls = k * BlockSize + InState("sendResult") + resultCh + Samples + InBatch
    BY DEF DataInv, BlocksInv
  <2>2. /\ calls \in Nat /\ resultCh \in Nat /\ count \in Nat /\ InBatch \in Nat
        /\ Samples \in Nat /\ InState("sendResult") \in Nat
    BY BatchAssumption, Counted, SamplesType
       DEF IInv, ControlTypeOK, DataInv, AveragesInv, InBatch
  <2>3. k <= k * BlockSize /\ k * BlockSize \in Nat
    BY BlockSizeType
  <2>4. k * BlockSize <= calls
    <3> DEFINE B == k * BlockSize
               F == InState("sendResult")
    <3>1. B \in Nat /\ F \in Nat /\ calls = B + F + resultCh + Samples + InBatch
      BY <2>1, <2>2, <2>3
    <3> HIDE DEF B, F
    <3>2. B <= calls
      BY <2>2, <3>1
    <3> QED
      BY <3>2 DEF B
  <2>5. k \in 0 .. calls
    BY <2>2, <2>3, <2>4
  <2> QED
    BY <2>1, <2>5 DEF Conservation, IInv, InBatch
<1> QED
  BY <1>1, DataInvariance, PTL

(* The remainder of a number that is some blocks and less than a block.    *)
LEMMA Remainder ==
  ASSUME NEW b \in Nat \ {0}, NEW k \in Nat, NEW r \in Nat, r < b
  PROVE  (k * b + r) % b = r
OBVIOUS

(* A run reports exactly the calls it made, less whole blocks of them, and *)
(* panics exactly when that leaves none (run, Run).                        *)
THEOREM ReportIsExact == Spec => []ReportedExactly
<1>1. IInv /\ DataInv => ReportedExactly
  <2> SUFFICES ASSUME IInv, DataInv
               PROVE  ReportedExactly
    OBVIOUS
  <2>1. CallsAsAsked
    BY AsAsked
  <2>2. ASSUME main \in {"returned", "panic"}
        PROVE  Samples = calls % BlockSize /\ (main = "panic" <=> calls % BlockSize = 0)
    <3>1. aggregator = "done" /\ resultCh = 0 /\ (main = "panic" <=> results = <<>>)
      BY <2>2 DEF DataInv, AggregatorInv
    <3>2. InState("sendResult") = 0
      BY <2>2, NobodyInState DEF IInv, DoneInv, Ended, ClientsDone
    <3>3. Samples \in Nat /\ Samples < BlockSize /\ (Samples = 0 <=> results = <<>>)
      BY SamplesType DEF DataInv, AveragesInv
    <3>4. PICK k \in Nat : calls = k * BlockSize + Samples
      <4>1. PICK k \in Nat : calls = k * BlockSize + InState("sendResult") + resultCh + Samples + InBatch
        BY DEF DataInv, BlocksInv
      <4>2. k * BlockSize \in Nat
        BY BlockSizeType
      <4> QED
        BY <3>1, <3>2, <3>3, <4>1, <4>2 DEF InBatch
    <3>5. calls % BlockSize = Samples
      BY <3>3, <3>4, BlockSizeType, Remainder
    <3> QED
      BY <3>1, <3>3, <3>5
  <2> QED
    BY <2>1, <2>2 DEF ReportedExactly
<1> QED
  BY <1>1, DataInvariance, PTL

-----------------------------------------------------------------------------
(* The run comes to an end.                                                *)

(* What the goroutines wait for has happened or will: channels are closed  *)
(* in time and the aggregator is there.                                    *)
ProgressInv ==
  /\ main # "warm" => "warmCh" \in closed
  /\ aggregator = "none" <=> Warming
  /\ main \in {"aggWait", "returned", "panic"} => "resultCh" \in closed
  /\ timeUp => HasDuration

LEMMA ProgressInductive ==
  ASSUME IInv, ProgressInv, [Next]_vars
  PROVE  ProgressInv'
<1> USE DEF ProgressInv, Warming, warmVars, aggVars
<1>1. CASE UNCHANGED vars
  BY <1>1 DEF vars
<1>2. CASE WarmSend \/ WarmClose \/ StartRun
  BY <1>2 DEF WarmSend, WarmClose, StartRun
<1>3. CASE RunStep
  BY <1>3 DEF RunStep, ForRequests, SendRequest, TakeEndTime, CloseResults, Return
<1>4. CASE TimePasses \/ Aggregator
  BY <1>4 DEF TimePasses, Aggregator, Aggregate, LastBatch
<1>5. ASSUME NEW c \in Clients, Warmer(c) \/ Client(c)
      PROVE  ProgressInv'
  BY <1>5 DEF Warmer, Client
<1> QED
  BY <1>1, <1>2, <1>3, <1>4, <1>5 DEF Next

LEMMA FullInvariance == Spec => [](IInv /\ DataInv /\ ProgressInv)
<1>1. Init => ProgressInv
  BY DEF Init, ProgressInv, Warming
<1>2. IInv /\ ProgressInv /\ [Next]_vars => ProgressInv'
  BY ProgressInductive
<1> QED
  BY <1>1, <1>2, DataInvariance, PTL DEF Spec

LEMMA SomeClient == Parallelism \in Nat \ {0}
<1>1. Cardinality(Clients) # 0
  BY ClientsAssumption, FS_EmptySet
<1> QED
  BY <1>1, ParallelismType DEF Parallelism

(* Producer, clients and aggregator never all wait: no circle of full and  *)
(* empty channels and wait groups is ever reached (warm, run).             *)
THEOREM NoDeadlock == Spec => []NeverStuck
<1>1. IInv /\ DataInv /\ ProgressInv => NeverStuck
  <2> SUFFICES ASSUME IInv, DataInv, ProgressInv, main \notin {"returned", "panic"},
                      ~MainCanRun, ~AggregatorCanRun,
                      \A c \in Clients : ~WarmerCanRun(c) /\ ~ClientCanRun(c)
               PROVE  FALSE
    BY DEF NeverStuck
  <2>1. /\ clients \in [Clients -> ClientStates] /\ warmers \in [Clients -> {"receive", "call", "done"}]
        /\ requestCh \in 0 .. Parallelism /\ resultCh \in 0 .. AggBatchSize
        /\ aggregator \in {"none", "range", "done"}
    BY DEF IInv, ControlTypeOK
  <2>2. main \in {"warmWait", "send", "wait", "aggWait"}
    BY DEF IInv, ControlTypeOK, MainCanRun
  <2>3. CASE main = "warmWait"
    <3>1. "warmCh" \in closed
      BY <2>3 DEF ProgressInv
    <3> QED
      BY <2>1, <2>3, <3>1 DEF MainCanRun, WarmersDone, WarmerCanRun
  <2>4. CASE main = "send" \/ main = "wait"
    <3>1. "resultCh" \notin closed /\ aggregator = "range"
      BY <2>1, <2>4 DEF IInv, ClosedInv, DataInv, AggregatorInv, ProgressInv, Warming
    <3>2. resultCh < AggBatchSize
      BY <2>1, <3>1, BatchAssumption DEF AggregatorCanRun
    <3>3. \A c \in Clients : clients[c] # "none"
      BY <2>4 DEF IInv, WarmInv, Warming
    <3>4. \A c \in Clients : clients[c] \in {"receive", "done"}
      BY <2>1, <3>2, <3>3 DEF ClientCanRun, ClientStates
    <3>5. CASE main = "send"
      <4>1. requestCh > 0
        BY <2>1, <3>5, SomeClient DEF MainCanRun
      <4>2. \A c \in Clients : clients[c] # "receive"
        BY <4>1 DEF ClientCanRun
      <4>3. PICK c \in Clients : clients[c] = "done"
        BY <3>4, <4>2, ClientsAssumption
      <4> QED
        BY <4>1, <4>3 DEF IInv, DoneInv
    <3>6. CASE main = "wait"
      <4>1. "requestCh" \in closed
        BY <3>6 DEF IInv, ClosedInv, Warming, Sending
      <4>2. \A c \in Clients : clients[c] # "receive"
        BY <4>1 DEF ClientCanRun
      <4> QED
        BY <3>4, <3>6, <4>2 DEF MainCanRun, ClientsDone
    <3> QED
      BY <2>4, <3>5, <3>6
  <2>5. CASE main = "aggWait"
    BY <2>1, <2>5 DEF ProgressInv, Warming, MainCanRun, AggregatorDone, AggregatorCanRun
  <2> QED
    BY <2>2, <2>3, <2>4, <2>5
<1> QED
  BY <1>1, FullInvariance, PTL

LEMMA MainLeftIs ==
  /\ MainLeft["for"] = 6 /\ MainLeft["send"] = 5 /\ MainLeft["wait"] = 3
  /\ MainLeft["closeResults"] = 2 /\ MainLeft["aggWait"] = 1
  /\ MainLeft["returned"] = 0 /\ MainLeft["panic"] = 0
BY DEF MainLeft

(* The steps left are counted in four parts: the goroutine of Run, the     *)
(* clock, the requests on their way, and the aggregator.                   *)
OfRun == 6 * ToSend + MainLeft[main]
OfClock == IF timeUp THEN 0 ELSE 1
OfClients == 4 * requestCh + 4 * InState("call") + 3 * InState("sendResult") + InState("receive") + resultCh
OfAggregator == IF aggregator = "range" THEN 1 ELSE 0

LEMMA Parts ==
  ASSUME IInv, ~Warming, Requests > 0 \/ timeUp
  PROVE  /\ ToSend \in Nat /\ OfRun \in Nat /\ OfClock \in Nat /\ OfClients \in Nat /\ OfAggregator \in Nat
         /\ StepsLeft = OfRun + OfClock + OfClients + OfAggregator
<1>1. /\ requestCh \in Nat /\ resultCh \in Nat /\ requests \in Nat /\ timeUp \in BOOLEAN
      /\ main \in {"for", "send", "wait", "closeResults", "aggWait", "returned", "panic"}
  BY ParallelismType, BatchAssumption DEF IInv, ControlTypeOK, Warming
<1>2. ToSend \in Nat
  BY <1>1, RequestsAssumption DEF ToSend, IInv, LoopInv
<1>3. MainLeft[main] \in Nat
  BY <1>1, MainLeftIs
<1>4. InState("call") \in Nat /\ InState("sendResult") \in Nat /\ InState("receive") \in Nat
  BY Counted
<1>5. OfRun \in Nat /\ OfClock \in Nat /\ OfAggregator \in Nat
  BY <1>2, <1>3 DEF OfRun, OfClock, OfAggregator
<1>6. OfClients \in Nat
  BY <1>1, <1>4 DEF OfClients
<1>7. StepsLeft = OfRun + OfClock + OfClients + OfAggregator
  BY <1>1, <1>2, <1>3, <1>4 DEF StepsLeft, OfRun, OfClock, OfClients, OfAggregator
<1> QED
  BY <1>2, <1>5, <1>6, <1>7

(* A step of Run's goroutine: nothing is sent twice.                       *)
LEMMA RunStepsDown ==
  ASSUME IInv, ProgressInv, ~Warming, Requests > 0 \/ timeUp,
         ForRequests \/ TakeEndTime \/ CloseResults \/ Return
  PROVE  OfRun' < OfRun /\ OfClients' = OfClients /\ OfClock' = OfClock /\ OfAggregator' = OfAggregator
<1> USE DEF warmVars, aggVars
<1>1. UNCHANGED <<requestCh, clients, resultCh, timeUp, aggregator, requests>>
  BY DEF ForRequests, TakeEndTime, CloseResults, Return
<1>2. OfClients' = OfClients /\ OfClock' = OfClock /\ OfAggregator' = OfAggregator
  BY <1>1 DEF OfClients, OfClock, OfAggregator, InState
<1>3. ToSend \in Nat
  BY Parts
<1>4. \/ main = "for" /\ main' = "send" /\ ~timeUp
      \/ main = "for" /\ main' = "wait"
      \/ main = "wait" /\ main' = "closeResults"
      \/ main = "closeResults" /\ main' = "aggWait"
      \/ main = "aggWait" /\ main' \in {"returned", "panic"}
  BY DEF ForRequests, TakeEndTime, CloseResults, Return, MoreRequests, ProgressInv
<1>5. ToSend' = ToSend
  BY <1>1, <1>4 DEF ToSend
<1>6. MainLeft[main'] < MainLeft[main] /\ MainLeft[main'] \in Nat /\ MainLeft[main] \in Nat
  BY <1>4, MainLeftIs
<1>7. OfRun' < OfRun
  BY <1>3, <1>5, <1>6 DEF OfRun
<1> QED
  BY <1>2, <1>7

LEMMA SendStepsDown ==
  ASSUME IInv, ~Warming, Requests > 0 \/ timeUp, SendRequest
  PROVE  /\ OfRun' = OfRun - 5 /\ OfClients' = OfClients + 4
         /\ OfClock' = OfClock /\ OfAggregator' = OfAggregator
<1> USE DEF SendRequest, warmVars, aggVars
<1>1. OfClock' = OfClock /\ OfAggregator' = OfAggregator
  BY DEF OfClock, OfAggregator
<1>2. requestCh \in Nat /\ resultCh \in Nat /\ requests \in Nat /\ timeUp \in BOOLEAN
  BY ParallelismType, BatchAssumption DEF IInv, ControlTypeOK
<1>3. \A x : InState(x)' = InState(x) /\ InState(x) \in Nat
  BY Counted DEF InState
<1>4. requestCh' = requestCh + 1 /\ resultCh' = resultCh
  OBVIOUS
<1>5. OfClients' = OfClients + 4
  BY <1>2, <1>3, <1>4 DEF OfClients
<1>6. ToSend' = ToSend - 1 /\ ToSend \in Nat
  <2>1. ToSend \in Nat
    BY Parts
  <2> QED
    BY <1>2, <2>1, RequestsAssumption DEF ToSend
<1>7. main = "send" /\ main' = "for"
  OBVIOUS
<1>8. OfRun' = OfRun - 5
  BY <1>6, <1>7, MainLeftIs DEF OfRun
<1> QED
  BY <1>1, <1>5, <1>8

LEMMA TimeStepsDown ==
  ASSUME IInv, ~Warming, Requests > 0 \/ timeUp, TimePasses
  PROVE  OfRun' <= OfRun /\ OfClients' = OfClients /\ OfClock' < OfClock /\ OfAggregator' = OfAggregator
<1> USE DEF TimePasses, warmVars, aggVars
<1>1. OfClients' = OfClients /\ OfClock' < OfClock /\ OfAggregator' = OfAggregator
  BY DEF OfClients, OfClock, OfAggregator, InState
<1>2. ToSend \in Nat /\ requests \in Nat /\ Requests > 0
  BY Parts DEF IInv, ControlTypeOK
<1>3. ToSend' <= ToSend /\ ToSend' \in Nat
  BY <1>2, RequestsAssumption DEF ToSend, IInv, LoopInv
<1>4. MainLeft[main'] = MainLeft[main] /\ MainLeft[main] \in Nat
  BY MainLeftIs
<1>5. OfRun' <= OfRun
  BY <1>2, <1>3, <1>4 DEF OfRun
<1> QED
  BY <1>1, <1>5

(* A client's step brings one request on by one step.                      *)
LEMMA ClientStepsDown ==
  ASSUME IInv, ~Warming, NEW c \in Clients, Client(c)
  PROVE  /\ OfClients' < OfClients /\ OfRun' = OfRun /\ OfClock' = OfClock
         /\ OfAggregator' = OfAggregator
<1> USE DEF warmVars, aggVars
<1>1. OfRun' = OfRun /\ OfClock' = OfClock /\ OfAggregator' = OfAggregator
  BY DEF Client, OfRun, ToSend, OfClock, OfAggregator
<1>2. /\ clients \in [Clients -> ClientStates] /\ requestCh \in Nat /\ resultCh \in Nat
      /\ \A x : InState(x) \in Nat
  BY ParallelismType, BatchAssumption, Counted DEF IInv, ControlTypeOK
<1>3. PICK y \in ClientStates :
        /\ clients' = [clients EXCEPT ![c] = y]
        /\ \/ clients[c] = "receive" /\ y = "call" /\ requestCh' = requestCh - 1 /\ resultCh' = resultCh
           \/ clients[c] = "call" /\ y = "sendResult" /\ requestCh' = requestCh /\ resultCh' = resultCh
           \/ clients[c] = "sendResult" /\ y = "receive" /\ requestCh' = requestCh
              /\ resultCh' = resultCh + 1
           \/ clients[c] = "receive" /\ y = "done" /\ requestCh' = requestCh /\ resultCh' = resultCh
  BY DEF Client, ClientStates
<1>4. clients[c] # y
  BY <1>3
<1>5. \A x : InState(x)' = IF x = y THEN InState(x) + 1
                           ELSE IF x = clients[c] THEN InState(x) - 1 ELSE InState(x)
  BY <1>2, <1>3, <1>4, ClientMoves
<1> DEFINE rec == InState("receive")
           call == InState("call")
           snd == InState("sendResult")
<1>6. rec \in Nat /\ call \in Nat /\ snd \in Nat
  BY <1>2
<1>7. \/ rec' = rec - 1 /\ call' = call + 1 /\ snd' = snd
         /\ requestCh' = requestCh - 1 /\ resultCh' = resultCh
      \/ rec' = rec /\ call' = call - 1 /\ snd' = snd + 1
         /\ requestCh' = requestCh /\ resultCh' = resultCh
      \/ rec' = rec + 1 /\ call' = call /\ snd' = snd - 1
         /\ requestCh' = requestCh /\ resultCh' = resultCh + 1
      \/ rec' = rec - 1 /\ call' = call /\ snd' = snd
         /\ requestCh' = requestCh /\ resultCh' = resultCh
  BY <1>3, <1>5
<1>8. OfClients = 4 * requestCh + 4 * call + 3 * snd + rec + resultCh
  BY DEF OfClients
<1>9. OfClients' = 4 * requestCh' + 4 * call' + 3 * snd' + rec' + resultCh'
  BY DEF OfClients
<1> HIDE DEF rec, call, snd
<1>10. OfClients' < OfClients
  BY <1>2, <1>6, <1>7, <1>8, <1>9
<1> QED
  BY <1>1, <1>10

LEMMA AggregatorStepsDown ==
  ASSUME IInv, ~Warming, Requests > 0 \/ timeUp, Aggregator
  PROVE  /\ OfRun' = OfRun /\ OfClock' = OfClock
         /\ \/ OfClients' = OfClients - 1 /\ OfAggregator' = OfAggregator
            \/ OfClients' = OfClients /\ OfAggregator' = OfAggregator - 1
<1> USE DEF Aggregator, Aggregate, LastBatch, warmVars
<1>1. OfRun' = OfRun /\ OfClock' = OfClock
  BY DEF OfRun, ToSend, OfClock
<1>2. \A x : InState(x)' = InState(x) /\ InState(x) \in Nat
  BY Counted DEF InState
<1>3. resultCh \in Nat /\ requestCh \in Nat /\ requestCh' = requestCh
  BY ParallelismType, BatchAssumption DEF IInv, ControlTypeOK
<1>4. CASE Aggregate
  <2>1. resultCh' = resultCh - 1 /\ OfAggregator' = OfAggregator
    BY <1>4 DEF OfAggregator
  <2>2. OfClients' = OfClients - 1
    BY <1>2, <1>3, <2>1 DEF OfClients
  <2> QED
    BY <1>1, <2>1, <2>2
<1>5. CASE LastBatch
  <2>1. resultCh' = resultCh /\ OfAggregator' = OfAggregator - 1
    BY <1>5 DEF OfAggregator
  <2>2. OfClients' = OfClients
    BY <1>2, <1>3, <2>1 DEF OfClients
  <2> QED
    BY <1>1, <2>1, <2>2
<1> QED
  BY <1>4, <1>5

PartsOK ==
  ~Warming /\ (Requests > 0 \/ timeUp) =>
    /\ OfRun \in Nat /\ OfClock \in Nat /\ OfClients \in Nat /\ OfAggregator \in Nat
    /\ StepsLeft = OfRun + OfClock + OfClients + OfAggregator

(* The four parts before and after a step.                                 *)
OneLess(r0, k0, c0, a0, r, k, c, a) ==
  \/ r < r0 /\ k = k0 /\ c = c0 /\ a = a0
  \/ r = r0 - 5 /\ k = k0 /\ c = c0 + 4 /\ a = a0
  \/ r <= r0 /\ k < k0 /\ c = c0 /\ a = a0
  \/ r = r0 /\ k = k0 /\ c < c0 /\ a = a0
  \/ r = r0 /\ k = k0 /\ c = c0 - 1 /\ a = a0
  \/ r = r0 /\ k = k0 /\ c = c0 /\ a = a0 - 1

LEMMA LessInAll ==
  ASSUME NEW r0 \in Nat, NEW k0 \in Nat, NEW c0 \in Nat, NEW a0 \in Nat,
         NEW r \in Nat, NEW k \in Nat, NEW c \in Nat, NEW a \in Nat,
         OneLess(r0, k0, c0, a0, r, k, c, a)
  PROVE  r + k + c + a \in 0 .. (r0 + k0 + c0 + a0) - 1
BY DEF OneLess

(* A client of the warm-up that takes a request, calls, or sees that there *)
(* is none, has one step less to go.                                       *)
LEMMA WarmersType ==
  ASSUME NEW S
  PROVE  IsFiniteSet({c \in Clients : warmers[c] \in S}) /\ Warmers(S) \in Nat
<1> DEFINE D == {c \in Clients : warmers[c] \in S}
<1>1. IsFiniteSet(D)
  BY ClientsAssumption, FS_Subset
<1>2. Cardinality(D) \in Nat
  BY <1>1, FS_CardinalityType
<1> QED
  BY <1>1, <1>2 DEF Warmers

LEMMA WarmerMoves ==
  ASSUME warmers \in [Clients -> {"receive", "call", "done"}],
         NEW c \in Clients, NEW y, warmers' = [warmers EXCEPT ![c] = y],
         NEW S
  PROVE  /\ warmers[c] \in S /\ y \notin S => Warmers(S)' = Warmers(S) - 1
         /\ warmers[c] \notin S /\ y \in S => Warmers(S)' = Warmers(S) + 1
         /\ (warmers[c] \in S <=> y \in S) => Warmers(S)' = Warmers(S)
<1> DEFINE D == {d \in Clients : warmers[d] \in S}
           E == {d \in Clients : warmers'[d] \in S}
<1>1. IsFiniteSet(D)
  BY ClientsAssumption, FS_Subset
<1>2. ASSUME warmers[c] \in S, y \notin S PROVE Cardinality(E) = Cardinality(D) - 1
  <2>1. E = D \ {c} /\ c \in D
    BY <1>2
  <2> QED
    BY <1>1, <2>1, FS_RemoveElement
<1>3. ASSUME warmers[c] \notin S, y \in S PROVE Cardinality(E) = Cardinality(D) + 1
  <2>1. E = D \cup {c} /\ c \notin D
    BY <1>3
  <2> QED
    BY <1>1, <2>1, FS_AddElement
<1>4. ASSUME warmers[c] \in S <=> y \in S PROVE Cardinality(E) = Cardinality(D)
  <2>1. E = D
    BY <1>4
  <2> QED
    BY <2>1
<1> QED
  BY <1>2, <1>3, <1>4 DEF Warmers

LEMMA WarmStepsDown ==
  ASSUME IInv, NEW c \in Clients, Warmer(c)
  PROVE  WarmLeft' \in 0 .. WarmLeft - 1
<1> DEFINE C == {"call"}
           N == {"receive", "call"}
<1>1. warmers \in [Clients -> {"receive", "call", "done"}] /\ warmCh \in Nat
  BY ParallelismType DEF IInv, ControlTypeOK
<1>2. PICK y \in {"receive", "call", "done"} :
        /\ warmers' = [warmers EXCEPT ![c] = y]
        /\ \/ warmers[c] = "receive" /\ y = "call" /\ warmCh > 0 /\ warmCh' = warmCh - 1
           \/ warmers[c] = "call" /\ y = "receive" /\ warmCh' = warmCh
           \/ warmers[c] = "receive" /\ y = "done" /\ warmCh' = warmCh
  BY DEF Warmer
<1>3. /\ Warmers(C) \in Nat /\ Warmers(N) \in Nat
      /\ Warmers(C)' \in Nat /\ Warmers(N)' \in Nat
  <2>1. /\ IsFiniteSet({d \in Clients : warmers'[d] \in C})
        /\ IsFiniteSet({d \in Clients : warmers'[d] \in N})
    BY ClientsAssumption, FS_Subset
  <2> QED
    BY <2>1, WarmersType, FS_CardinalityType DEF Warmers
<1>4. /\ warmers[c] \in C /\ y \notin C => Warmers(C)' = Warmers(C) - 1
      /\ warmers[c] \notin C /\ y \in C => Warmers(C)' = Warmers(C) + 1
      /\ (warmers[c] \in C <=> y \in C) => Warmers(C)' = Warmers(C)
  BY <1>1, <1>2, WarmerMoves
<1>5. /\ warmers[c] \in N /\ y \notin N => Warmers(N)' = Warmers(N) - 1
      /\ (warmers[c] \in N <=> y \in N) => Warmers(N)' = Warmers(N)
  BY <1>1, <1>2, WarmerMoves
<1> DEFINE call == Warmers(C)
           left == Warmers(N)
<1>6. /\ call \in Nat /\ left \in Nat /\ call' \in Nat /\ left' \in Nat
      /\ \/ warmCh > 0 /\ warmCh' = warmCh - 1 /\ call' = call + 1 /\ left' = left
         \/ warmCh' = warmCh /\ call' = call - 1 /\ left' = left
         \/ warmCh' = warmCh /\ call' = call /\ left' = left - 1
  BY <1>2, <1>3, <1>4, <1>5
<1>7. WarmLeft = 2 * warmCh + call + left /\ WarmLeft' = 2 * warmCh' + call' + left'
  BY DEF WarmLeft
<1> HIDE DEF call, left
<1> QED
  BY <1>1, <1>6, <1>7

(* Every step uses up one of the finitely many steps left, of the warm-up  *)
(* once its time is over and then of a run with a limit or whose time is   *)
(* up, so both end as soon as no goroutine waits for ever; NoDeadlock says *)
(* that none does (warm, run).                                             *)
THEOREM EveryStepCounts == Spec => StepsRunOut
<1> DEFINE Running == main \notin {"warm", "warmWait"} /\ (Requests > 0 \/ timeUp)
           Down == Running => StepsLeft' \in 0 .. StepsLeft - 1
<1>1. IInv => PartsOK
  BY Parts DEF PartsOK
<1>2. IInv /\ ProgressInv /\ PartsOK /\ PartsOK' /\ [Next]_vars => [Down]_vars
  <2> SUFFICES ASSUME IInv, ProgressInv, PartsOK, PartsOK', Next, Running
               PROVE  StepsLeft' \in 0 .. StepsLeft - 1
    OBVIOUS
  <2>1. ~Warming
    BY DEF Warming
  <2>2. /\ main' \notin {"warm", "warmWait"} /\ (timeUp => timeUp')
        /\ \/ ForRequests \/ TakeEndTime \/ CloseResults \/ Return
           \/ SendRequest \/ TimePasses \/ Aggregator \/ \E c \in Clients : Client(c)
    <3>1. ~WarmSend /\ ~WarmClose /\ ~StartRun
      BY DEF WarmSend, WarmClose, StartRun
    <3>2. \A c \in Clients : ~Warmer(c)
      BY <2>1 DEF Warmer, IInv, WarmInv, WarmersDone
    <3>3. \/ RunStep \/ TimePasses \/ Aggregator \/ \E c \in Clients : Client(c)
      BY <3>1, <3>2 DEF Next
    <3>4. main' \notin {"warm", "warmWait"} /\ (timeUp => timeUp')
      BY <3>3 DEF RunStep, ForRequests, SendRequest, TakeEndTime, CloseResults, Return, TimePasses,
                  Aggregator, Aggregate, LastBatch, Client
    <3> QED
      BY <3>3, <3>4 DEF RunStep
  <2>3. /\ OfRun \in Nat /\ OfClock \in Nat /\ OfClients \in Nat /\ OfAggregator \in Nat
        /\ StepsLeft = OfRun + OfClock + OfClients + OfAggregator
    BY <2>1 DEF PartsOK
  <2>4. /\ OfRun' \in Nat /\ OfClock' \in Nat /\ OfClients' \in Nat /\ OfAggregator' \in Nat
        /\ StepsLeft' = OfRun' + OfClock' + OfClients' + OfAggregator'
    BY <2>2 DEF PartsOK, Warming
  <2>5. OneLess(OfRun, OfClock, OfClients, OfAggregator, OfRun', OfClock', OfClients', OfAggregator')
    BY <2>1, <2>2, RunStepsDown, SendStepsDown, TimeStepsDown, AggregatorStepsDown, ClientStepsDown,
       Zenon DEF OneLess
  <2>6. OfRun' + OfClock' + OfClients' + OfAggregator'
          \in 0 .. (OfRun + OfClock + OfClients + OfAggregator) - 1
    BY <2>3, <2>4, <2>5, LessInAll
  <2> QED
    BY <2>3, <2>4, <2>6
<1> DEFINE Warmed == main = "warmWait" =>
                       main' = "for" \/ (main' = "warmWait" /\ WarmLeft' \in 0 .. WarmLeft - 1)
<1>3. IInv /\ ProgressInv /\ [Next]_vars => [Warmed]_vars
  <2> SUFFICES ASSUME IInv, ProgressInv, Next, main = "warmWait"
               PROVE  main' = "for" \/ (main' = "warmWait" /\ WarmLeft' \in 0 .. WarmLeft - 1)
    OBVIOUS
  <2>1. StartRun \/ \E c \in Clients : Warmer(c)
    <3>1. ~WarmSend /\ ~WarmClose /\ ~RunStep /\ ~TimePasses
      BY DEF WarmSend, WarmClose, RunStep, ForRequests, SendRequest, TakeEndTime, CloseResults,
             Return, TimePasses
    <3>2. ~Aggregator
      BY DEF Aggregator, Aggregate, LastBatch, ProgressInv, Warming
    <3>3. \A c \in Clients : ~Client(c)
      BY DEF Client, IInv, WarmInv, Warming
    <3> QED
      BY <3>1, <3>2, <3>3 DEF Next
  <2>2. StartRun => main' = "for"
    BY DEF StartRun
  <2>3. \A c \in Clients : Warmer(c) => main' = main
    BY DEF Warmer
  <2> QED
    BY <2>1, <2>2, <2>3, WarmStepsDown
<1> DEFINE Both == /\ main = "warmWait" =>
                        main' = "for" \/ (main' = "warmWait" /\ WarmLeft' \in 0 .. WarmLeft - 1)
                   /\ main \notin {"warm", "warmWait"} /\ (Requests > 0 \/ timeUp) =>
                        StepsLeft' \in 0 .. StepsLeft - 1
<1>4. [Down]_vars /\ [Warmed]_vars => [Both]_vars
  OBVIOUS
<1>5. Spec => [][Both]_vars
  <2> HIDE DEF Down, Warmed, Both
  <2> QED
    BY <1>1, <1>2, <1>3, <1>4, FullInvariance, PTL DEF Spec
<1> QED
  BY <1>5 DEF StepsRunOut
=============================================================================
