------------------------------- MODULE Cluster -------------------------------
(***************************************************************************)
(* pkg/cluster/cluster.go: Create and Delete of a test cluster, called by  *)
(* any number of processes (onit, the test and benchmark coordinators, one *)
(* goroutine per suite) against one Kubernetes API server.                 *)
(*                                                                         *)
(* Every test cluster has its own namespace and service account, but all   *)
(* of them share ONE cluster role and ONE cluster role binding, to which   *)
(* each Create adds a subject by reading it, appending to the copy and     *)
(* writing the copy back under the resource version it was read at.        *)
(*                                                                         *)
(* The names that a comment does not introduce beside an action (such as   *)
(* NoConflict) are faulty variants, used to see that a property notices.   *)
(*                                                                         *)
(* One action is one API call with the code up to the next call.  The API  *)
(* server is external: it applies each call atomically, refuses an update  *)
(* at a stale version, refuses objects in a namespace that is not active,  *)
(* and may fail a call with or without having applied it.                  *)
(***************************************************************************)
EXTENDS Naturals, Sequences, FiniteSets

CONSTANTS
  Callers,       \* processes that call Create and Delete
  Namespaces,    \* namespaces of the test clusters
  NamespaceOf,   \* NamespaceOf[c]: the namespace of the Cluster value of c
  Preexisting,   \* namespaces that existed before, without the test label
  MaxCalls,      \* bound on the calls of Create and Delete
  MaxFaults,     \* bound on the failed API calls
  MaxExpiries    \* bound on the watches the server closes

ASSUME NamespaceAssumption ==
  /\ NamespaceOf \in [Callers -> Namespaces]
  /\ Preexisting \subseteq Namespaces
ASSUME BoundsAssumption ==
  /\ MaxCalls \in Nat
  /\ MaxFaults \in Nat
  /\ MaxExpiries \in Nat

VARIABLES
  namespaces,       \* phase of each namespace on the server
  labelled,         \* namespaces that carry the label test=<name>
  clusterRole,      \* does the cluster role exist
  binding,          \* the cluster role binding; version 0 means not found
  serviceAccounts,  \* namespaces that hold their service account
  pc,               \* pc[c]: the API call that c makes next
  roleBinding,      \* roleBinding[c]: the copy of the binding that c holds
  watch,            \* watch[c]: the namespace watch of Delete
  result,           \* result[c]: what the last call of c returned
  creates,          \* creates[n]: Create calls for n so far (history)
  calls,            \* calls of Create and Delete so far
  faults,           \* failed API calls so far
  expiries          \* watches closed by the server so far

server == <<namespaces, labelled, clusterRole, binding, serviceAccounts>>
bounds == <<creates, calls, faults, expiries>>
vars == <<server, pc, roleBinding, watch, result, bounds>>

Phases == {"absent", "active", "terminating"}
CreateCalls == {"createNamespace", "createClusterRole", "getBinding",
                "createBinding", "updateBinding", "createServiceAccount"}
DeleteCalls == {"watchNamespace", "deleteNamespace", "awaitDeleted"}
(* A watch is nil when Watch failed, and holds a Deleted event or is       *)
(* closed once the server has sent or closed it.                           *)
Watches == {"nil", "open", "deleted", "closed"}
Results == {"none", "created", "deleted", "error", "panic"}

Bindings == [version : Nat, subjects : Seq(Namespaces)]
NoBinding == [version |-> 0, subjects |-> <<>>]
Subjects(b) == {b.subjects[i] : i \in DOMAIN b.subjects}

ServerTypeOK ==
  /\ namespaces \in [Namespaces -> Phases]
  /\ labelled \in SUBSET Namespaces
  /\ clusterRole \in BOOLEAN
  /\ binding \in Bindings
  /\ binding.subjects = <<>> <=> binding.version = 0
  /\ serviceAccounts \in SUBSET Namespaces

CallerTypeOK ==
  /\ pc \in [Callers -> {"idle"} \cup CreateCalls \cup DeleteCalls]
  /\ roleBinding \in [Callers -> Bindings]
  /\ watch \in [Callers -> Watches]
  /\ result \in [Callers -> Results]
  /\ creates \in [Namespaces -> Nat]
  /\ calls \in Nat /\ faults \in Nat /\ expiries \in Nat

(* The types; a binding that exists has a subject.                         *)
TypeOK == ServerTypeOK /\ CallerTypeOK

Init ==
  /\ namespaces = [n \in Namespaces |->
                     IF n \in Preexisting THEN "active" ELSE "absent"]
  /\ labelled = {}
  /\ clusterRole = FALSE
  /\ binding = NoBinding
  /\ serviceAccounts = {}
  /\ pc = [c \in Callers |-> "idle"]
  /\ roleBinding = [c \in Callers |-> NoBinding]
  /\ watch = [c \in Callers |-> "nil"]
  /\ result = [c \in Callers |-> "none"]
  /\ creates = [n \in Namespaces |-> 0]
  /\ calls = 0
  /\ faults = 0
  /\ expiries = 0

-----------------------------------------------------------------------------
(* What the server does with a call; AlreadyExists changes nothing.        *)

ApplyCreateNamespace(n) ==
  /\ namespaces' = [namespaces EXCEPT ![n] =
                      IF @ = "absent" THEN "active" ELSE @]
  /\ labelled' = IF namespaces[n] = "absent" THEN labelled \cup {n} ELSE labelled
  /\ UNCHANGED <<clusterRole, binding, serviceAccounts>>

ApplyCreateClusterRole ==
  /\ clusterRole' = TRUE
  /\ UNCHANGED <<namespaces, labelled, binding, serviceAccounts>>

ApplyWriteBinding(subjects) ==
  /\ binding' = [version |-> binding.version + 1, subjects |-> subjects]
  /\ UNCHANGED <<namespaces, labelled, clusterRole, serviceAccounts>>

ApplyCreateServiceAccount(n) ==
  /\ namespaces[n] = "active"
  /\ serviceAccounts' = serviceAccounts \cup {n}
  /\ UNCHANGED <<namespaces, labelled, clusterRole, binding>>

ApplyDeleteNamespace(n) ==
  /\ namespaces[n] # "absent"
  /\ namespaces' = [namespaces EXCEPT ![n] = "terminating"]
  /\ UNCHANGED <<labelled, clusterRole, binding, serviceAccounts>>

-----------------------------------------------------------------------------
(* The caller.                                                             *)

Goto(c, call) == pc' = [pc EXCEPT ![c] = call]

Return(c, value) ==
  /\ Goto(c, "idle")
  /\ result' = [result EXCEPT ![c] = value]

BeginCreate(c) ==
  /\ pc[c] = "idle"
  /\ calls < MaxCalls
  /\ calls' = calls + 1
  /\ creates' = [creates EXCEPT ![NamespaceOf[c]] = @ + 1]
  /\ Goto(c, "createNamespace")
  /\ result' = [result EXCEPT ![c] = "none"]
  /\ UNCHANGED <<server, roleBinding, watch, faults, expiries>>

CreateNamespace(c) ==
  /\ pc[c] = "createNamespace"
  /\ ApplyCreateNamespace(NamespaceOf[c])
  /\ Goto(c, "createClusterRole")
  /\ UNCHANGED <<roleBinding, watch, result, bounds>>

CreateClusterRole(c) ==
  /\ pc[c] = "createClusterRole"
  /\ ApplyCreateClusterRole
  /\ Goto(c, "getBinding")
  /\ UNCHANGED <<roleBinding, watch, result, bounds>>

(* The object to write: the binding as read, with one more subject; a      *)
(* binding that was not found starts out with no subject.                  *)
WithSubjectForgotten(n) ==
  IF binding.version = 0 THEN binding
  ELSE [binding EXCEPT !.subjects = Append(@, n)]
WithSubject(n) == [binding EXCEPT !.subjects = Append(@, n)]

GetBinding(c) ==
  /\ pc[c] = "getBinding"
  /\ roleBinding' = [roleBinding EXCEPT ![c] = WithSubject(NamespaceOf[c])]
  /\ Goto(c, IF binding.version = 0 THEN "createBinding" ELSE "updateBinding")
  /\ UNCHANGED <<server, watch, result, bounds>>

(* AlreadyExists: another caller created it first, start over.             *)
CreateBindingAndRetry(c) ==
  /\ pc[c] = "createBinding"
  /\ IF binding.version = 0
       THEN ApplyWriteBinding(roleBinding[c].subjects)
       ELSE UNCHANGED server
  /\ Goto(c, "getBinding")
  /\ UNCHANGED <<roleBinding, watch, result, bounds>>
CreateBinding(c) ==
  /\ pc[c] = "createBinding"
  /\ \/ /\ binding.version = 0
        /\ ApplyWriteBinding(roleBinding[c].subjects)
        /\ Goto(c, "createServiceAccount")
     \/ /\ binding.version # 0
        /\ Goto(c, "getBinding")
        /\ UNCHANGED server
  /\ UNCHANGED <<roleBinding, watch, result, bounds>>

(* Conflict: the binding changed since it was read, start over.            *)
NoConflict(c) == FALSE
IsConflict(c) == binding.version # roleBinding[c].version
IgnoreConflict == "createServiceAccount"
RetryStaleCopy == "updateBinding"
OnConflict == "getBinding"

UpdateBinding(c) ==
  /\ pc[c] = "updateBinding"
  /\ \/ /\ ~IsConflict(c)
        /\ ApplyWriteBinding(roleBinding[c].subjects)
        /\ Goto(c, "createServiceAccount")
     \/ /\ IsConflict(c)
        /\ Goto(c, OnConflict)
        /\ UNCHANGED server
  /\ UNCHANGED <<roleBinding, watch, result, bounds>>

(* Refused in a namespace that is gone or on its way out.                  *)
CreateServiceAccountUnchecked(c) ==
  /\ pc[c] = "createServiceAccount"
  /\ \/ ApplyCreateServiceAccount(NamespaceOf[c])
     \/ namespaces[NamespaceOf[c]] # "active" /\ UNCHANGED server
  /\ Return(c, "created")
  /\ UNCHANGED <<roleBinding, watch, bounds>>
CreateServiceAccount(c) ==
  /\ pc[c] = "createServiceAccount"
  /\ \/ /\ ApplyCreateServiceAccount(NamespaceOf[c])
        /\ Return(c, "created")
     \/ /\ namespaces[NamespaceOf[c]] # "active"
        /\ Return(c, "error")
        /\ UNCHANGED server
  /\ UNCHANGED <<roleBinding, watch, bounds>>

BeginDelete(c) ==
  /\ pc[c] = "idle"
  /\ calls < MaxCalls
  /\ calls' = calls + 1
  /\ Goto(c, "watchNamespace")
  /\ result' = [result EXCEPT ![c] = "none"]
  /\ UNCHANGED <<server, roleBinding, watch, creates, faults, expiries>>

(* The watch is opened before the delete, on the label of the namespace.   *)
WatchNamespace(c) ==
  /\ pc[c] = "watchNamespace"
  /\ watch' = [watch EXCEPT ![c] = "open"]
  /\ Goto(c, "deleteNamespace")
  /\ UNCHANGED <<server, roleBinding, result, bounds>>

(* NotFound, or Conflict while it terminates (depending on the server's    *)
(* release), is returned with the watch left running.  Ranging over the    *)
(* events of a watch that failed to open panics.                           *)
DeleteNamespaceNoWait(c) ==
  /\ pc[c] = "deleteNamespace"
  /\ ApplyDeleteNamespace(NamespaceOf[c])
  /\ Return(c, "deleted")
  /\ UNCHANGED <<roleBinding, watch, bounds>>
DeleteNamespace(c) ==
  /\ pc[c] = "deleteNamespace"
  /\ \/ /\ ApplyDeleteNamespace(NamespaceOf[c])
        /\ IF watch[c] = "nil"
             THEN Return(c, "panic")
             ELSE Goto(c, "awaitDeleted") /\ UNCHANGED result
     \/ /\ namespaces[NamespaceOf[c]] # "active"
        /\ Return(c, "error")
        /\ UNCHANGED server
  /\ UNCHANGED <<roleBinding, watch, bounds>>

(* The loop over the events ends at the Deleted event, which stops the     *)
(* watch, and also when the server has closed the stream.                  *)
AwaitDeleted(c) ==
  /\ pc[c] = "awaitDeleted"
  /\ watch[c] \in {"deleted", "closed"}
  /\ watch' = [watch EXCEPT ![c] = "closed"]
  /\ Return(c, "deleted")
  /\ UNCHANGED <<server, roleBinding, bounds>>

-----------------------------------------------------------------------------
(* Failures and the server's own steps.                                    *)

(* A call fails and has no effect.  Every error but a failed Watch ends    *)
(* the operation; the failed Watch is only logged.                         *)
FailCall(c) ==
  /\ faults < MaxFaults
  /\ faults' = faults + 1
  /\ \/ /\ pc[c] \in CreateCalls \cup {"deleteNamespace"}
        /\ Return(c, "error")
        /\ UNCHANGED watch
     \/ /\ pc[c] = "watchNamespace"
        /\ watch' = [watch EXCEPT ![c] = "nil"]
        /\ Goto(c, "deleteNamespace")
        /\ UNCHANGED result
  /\ UNCHANGED <<server, roleBinding, creates, calls, expiries>>

(* A call is applied but the caller only sees an error, or stops.          *)
LoseReply(c) ==
  /\ faults < MaxFaults
  /\ faults' = faults + 1
  /\ \/ pc[c] = "createNamespace" /\ ApplyCreateNamespace(NamespaceOf[c])
     \/ pc[c] = "createClusterRole" /\ ApplyCreateClusterRole
     \/ /\ pc[c] = "createBinding"
        /\ binding.version = 0
        /\ ApplyWriteBinding(roleBinding[c].subjects)
     \/ /\ pc[c] = "updateBinding"
        /\ ~IsConflict(c)
        /\ ApplyWriteBinding(roleBinding[c].subjects)
     \/ /\ pc[c] = "createServiceAccount"
        /\ ApplyCreateServiceAccount(NamespaceOf[c])
     \/ pc[c] = "deleteNamespace" /\ ApplyDeleteNamespace(NamespaceOf[c])
  /\ Return(c, "error")
  /\ UNCHANGED <<roleBinding, watch, creates, calls, expiries>>

(* The namespace controller has emptied a namespace and removes it: open   *)
(* watches that select its label receive a Deleted event.                  *)
FinalizeNamespace(n) ==
  /\ namespaces[n] = "terminating"
  /\ namespaces' = [namespaces EXCEPT ![n] = "absent"]
  /\ labelled' = labelled \ {n}
  /\ serviceAccounts' = serviceAccounts \ {n}
  /\ watch' = [c \in Callers |->
       IF watch[c] = "open" /\ NamespaceOf[c] = n /\ n \in labelled
         THEN "deleted" ELSE watch[c]]
  /\ UNCHANGED <<clusterRole, binding, pc, roleBinding, result, bounds>>

(* The server ends the watch of a waiting caller before its event.         *)
ExpireWatch(c) ==
  /\ pc[c] = "awaitDeleted"
  /\ watch[c] = "open"
  /\ expiries < MaxExpiries
  /\ expiries' = expiries + 1
  /\ watch' = [watch EXCEPT ![c] = "closed"]
  /\ UNCHANGED <<server, pc, roleBinding, result, creates, calls, faults>>

CreateStep(c) ==
  \/ CreateNamespace(c) \/ CreateClusterRole(c) \/ GetBinding(c)
  \/ CreateBinding(c) \/ UpdateBinding(c) \/ CreateServiceAccount(c)
DeleteStep(c) == WatchNamespace(c) \/ DeleteNamespace(c) \/ AwaitDeleted(c)

Next ==
  \/ \E c \in Callers :
       \/ BeginCreate(c) \/ CreateStep(c)
       \/ BeginDelete(c) \/ DeleteStep(c)
       \/ FailCall(c) \/ LoseReply(c) \/ ExpireWatch(c)
  \/ \E n \in Namespaces : FinalizeNamespace(n)

Spec == Init /\ [][Next]_vars

(* A caller inside Create or Delete keeps running, and the namespace       *)
(* controller finishes what it started.                                    *)
FairSpec ==
  /\ Spec
  /\ \A c \in Callers : WF_vars(CreateStep(c) \/ DeleteStep(c))
  /\ \A n \in Namespaces : WF_vars(FinalizeNamespace(n))

-----------------------------------------------------------------------------
(* Access granted to one cluster is never lost to the read-modify-write of *)
(* another (createClusterRoleBinding, lines 239-279): a subject once in    *)
(* the shared binding stays there.                                         *)
GrantsSurvive == [][Subjects(binding) \subseteq Subjects(binding')]_vars

(* Wherever a test cluster's service account exists, whoever created or    *)
(* recreated it, the shared role exists and the account is bound to it:    *)
(* pods that run under it are never refused.                               *)
AccountsOnlyGranted ==
  \A n \in serviceAccounts : clusterRole /\ n \in Subjects(binding)

(* Retrying after AlreadyExists or Conflict never appends a second subject *)
(* for the same Create, even when an earlier answer was lost.              *)
OneSubjectPerCreate ==
  \A n \in Namespaces :
    Cardinality({i \in DOMAIN binding.subjects : binding.subjects[i] = n})
      <= creates[n]

(* Create that returns nil leaves an active namespace that holds a bound   *)
(* account, whatever other callers do to the same namespace meanwhile.     *)
CreatedIsUsable ==
  [][\A c \in Callers :
       result[c] = "none" /\ result'[c] = "created" =>
         /\ namespaces'[NamespaceOf[c]] = "active"
         /\ NamespaceOf[c] \in serviceAccounts' \cap Subjects(binding')]_vars

(* Callers that share their namespace with no other.                       *)
Alone == {c \in Callers : \A d \in Callers \ {c} : NamespaceOf[d] # NamespaceOf[c]}

(* Where a namespace has one caller and no watch was closed early, Delete  *)
(* returns nil only once the namespace is gone, so that a Create that      *)
(* follows does not run into the old one.                                  *)
DeletedMeansGone ==
  [][\A c \in Alone :
       result[c] = "none" /\ result'[c] = "deleted" /\ expiries = 0 =>
         namespaces[NamespaceOf[c]] = "absent"]_vars

(* Create and Delete return. The retry loop of createClusterRoleBinding    *)
(* starts over only when another caller has made progress (lines 274-279). *)
(* Delete of a cluster that Create made, where no other caller has the     *)
(* same namespace, opens its watch before it deletes, so that it cannot    *)
(* miss the Deleted event (lines 297-320).                                 *)
CallsReturn ==
  /\ \A c \in Callers : pc[c] \in CreateCalls ~> pc[c] \notin CreateCalls
  /\ \A c \in Alone :
       pc[c] \in DeleteCalls /\ NamespaceOf[c] \notin Preexisting
         ~> pc[c] \notin DeleteCalls

(* Create implements the atomic log of grants.                             *)
PhaseOf(call) ==
  CASE call \in CreateCalls \ {"createServiceAccount"} -> "pending"
    [] call = "createServiceAccount" -> "granted"
    [] OTHER -> "idle"
grantPhase == [c \in Callers |-> PhaseOf(pc[c])]
GL == INSTANCE GrantLog WITH log <- binding.subjects, phase <- grantPhase
ImplementsGrantLog == GL!Spec
=============================================================================
