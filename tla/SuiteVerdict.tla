---------------------------- MODULE SuiteVerdict ----------------------------
(***************************************************************************)
(* What a coordinator promises to whoever reads its exit status: suites    *)
(* run in rounds, each suite returns an error or the exit code of its pod, *)
(* and the process exits with 0 only when every suite of every round has   *)
(* passed, with a suite's own code only when every suite of the round has  *)
(* returned, and with ErrorCode as soon as it likes once one is in error.  *)
(* The Go runtime may end it at any time with CrashCode.                   *)
(***************************************************************************)
EXTENDS Integers

CONSTANTS
  Suites,      \* the suites of a round
  Iterations,  \* rounds to run; any number of them if negative
  ExitCodes    \* exit codes of the suites

VARIABLES
  round,      \* the round that runs; 0 before the first
  returned,   \* suites of the round that have returned
  errored,    \* those of them that returned an error
  code,       \* code[s]: the exit code s returned
  exit        \* exit status of the process, NotExited while it runs

verdictVars == <<round, returned, errored, code, exit>>

NotExited == -1
ErrorCode == 1
CrashCode == 2

Init ==
  /\ round = 0
  /\ returned = Suites
  /\ errored = {}
  /\ code = [s \in Suites |-> 0]
  /\ exit = NotExited

AllPassed == returned = Suites /\ errored = {} /\ \A s \in Suites : code[s] = 0
MoreRounds == round < Iterations \/ Iterations < 0

StartRound ==
  /\ AllPassed /\ MoreRounds
  /\ round' = round + 1
  /\ returned' = {}
  /\ UNCHANGED <<errored, code, exit>>

ReturnCode(s) ==
  /\ s \in Suites \ returned
  /\ returned' = returned \cup {s}
  /\ \E c \in ExitCodes : code' = [code EXCEPT ![s] = c]
  /\ UNCHANGED <<round, errored, exit>>

ReturnError(s) ==
  /\ s \in Suites \ returned
  /\ returned' = returned \cup {s}
  /\ errored' = errored \cup {s}
  /\ UNCHANGED <<round, code, exit>>

ExitSuccess ==
  /\ AllPassed /\ ~MoreRounds
  /\ exit' = 0
  /\ UNCHANGED <<round, returned, errored, code>>

ExitCode(s) ==
  /\ returned = Suites /\ errored = {}
  /\ code[s] # 0
  /\ exit' = code[s]
  /\ UNCHANGED <<round, returned, errored, code>>

(* The round could not be started, or a suite is in error.                 *)
ExitError ==
  /\ errored # {} \/ (AllPassed /\ MoreRounds)
  /\ exit' = ErrorCode
  /\ UNCHANGED <<round, returned, errored, code>>

Crash ==
  /\ exit' = CrashCode
  /\ UNCHANGED <<round, returned, errored, code>>

Next ==
  /\ exit = NotExited
  /\ \/ StartRound \/ ExitSuccess \/ ExitError \/ Crash
     \/ \E s \in Suites : ReturnCode(s) \/ ReturnError(s) \/ ExitCode(s)

Spec == Init /\ [][Next]_verdictVars
=============================================================================
