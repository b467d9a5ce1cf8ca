------------------------------ MODULE GrantLog ------------------------------
(***************************************************************************)
(* What Cluster.createClusterRoleBinding promises, with no API server in   *)
(* sight: the subjects of the one cluster role binding form a log, each    *)
(* Create appends the caller's service account to it in a single step, a   *)
(* Create that goes on to the service account has appended exactly once,   *)
(* and one that fails has appended at most once.                           *)
(***************************************************************************)
EXTENDS Sequences

CONSTANTS
  Callers,      \* processes that call Create
  Namespaces,   \* the namespaces of the clusters
  NamespaceOf   \* the cluster each caller manages

VARIABLES
  log,    \* the namespaces whose service accounts are bound, in order
  phase   \* phase[c]: how far the Create of c has come

logVars == <<log, phase>>

Init ==
  /\ log = <<>>
  /\ phase = [c \in Callers |-> "idle"]

Begin(c) ==
  /\ phase[c] = "idle"
  /\ phase' = [phase EXCEPT ![c] = "pending"]
  /\ UNCHANGED log

Grant(c) ==
  /\ phase[c] = "pending"
  /\ log' = Append(log, NamespaceOf[c])
  /\ phase' = [phase EXCEPT ![c] = "granted"]

(* A Create that reports an error has had no effect on the log...          *)
Fail(c) ==
  /\ phase[c] = "pending"
  /\ phase' = [phase EXCEPT ![c] = "idle"]
  /\ UNCHANGED log

(* ... or its one append went in and the answer was lost.                  *)
GrantUnacknowledged(c) ==
  /\ phase[c] = "pending"
  /\ log' = Append(log, NamespaceOf[c])
  /\ phase' = [phase EXCEPT ![c] = "idle"]

Finish(c) ==
  /\ phase[c] = "granted"
  /\ phase' = [phase EXCEPT ![c] = "idle"]
  /\ UNCHANGED log

Next ==
  \E c \in Callers :
    Begin(c) \/ Grant(c) \/ Fail(c) \/ GrantUnacknowledged(c) \/ Finish(c)

Spec == Init /\ [][Next]_logVars
=============================================================================
