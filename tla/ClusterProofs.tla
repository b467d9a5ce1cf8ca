---------------------------- MODULE ClusterProofs ----------------------------
(***************************************************************************)
(* Proofs about Cluster, for any number of callers and namespaces, any     *)
(* assignment of callers to namespaces and any number of calls and faults. *)
(***************************************************************************)
EXTENDS Cluster, FiniteSetTheorems, TLAPS

Writing == {"createBinding", "updateBinding"}

(* What makes the optimistic update safe: a copy that a caller is about to *)
(* write is never newer than the binding, and while it is as new it holds  *)
(* exactly the subjects of the binding and one more.                       *)
CopyInv ==
  \A c \in Callers : pc[c] \in Writing =>
    /\ roleBinding[c].version <= binding.version
    /\ roleBinding[c].version = binding.version =>
         roleBinding[c].subjects = Append(binding.subjects, NamespaceOf[c])
    /\ pc[c] = "createBinding" <=> roleBinding[c].version = 0

(* Where a caller stands in Create tells what it has set up already.       *)
StageInv ==
  \A c \in Callers :
    /\ pc[c] \in Writing \cup {"getBinding", "createServiceAccount"} =>
         clusterRole
    /\ pc[c] = "createServiceAccount" => NamespaceOf[c] \in Subjects(binding)

IInv == TypeOK /\ CopyInv /\ StageInv /\ AccountsOnlyGranted

(* Appending to the subjects adds the one subject and keeps the others.    *)
LEMMA AppendSubjects ==
  ASSUME NEW b \in Bindings, NEW n \in Namespaces, NEW v \in Nat
  PROVE  LET b2 == [version |-> v, subjects |-> Append(b.subjects, n)]
         IN  /\ b2 \in Bindings
             /\ b2.subjects # <<>>
             /\ Subjects(b2) = Subjects(b) \cup {n}
<1> DEFINE s == b.subjects
           t == Append(s, n)
           b2 == [version |-> v, subjects |-> t]
<1>1. s \in Seq(Namespaces)
  BY DEF Bindings
<1>2. /\ t \in Seq(Namespaces)
      /\ Len(t) = Len(s) + 1
      /\ Len(s) \in Nat
      /\ DOMAIN s = 1 .. Len(s)
      /\ DOMAIN t = 1 .. Len(s) + 1
      /\ t[Len(s) + 1] = n
      /\ \A i \in 1 .. Len(s) : t[i] = s[i]
  BY <1>1
<1>3. t # <<>>
  <2>1. Len(<<>>) = 0
    OBVIOUS
  <2> QED
    BY <1>2, <2>1
<1>4. b2 \in Bindings
  BY <1>2 DEF Bindings
<1>5. Subjects(b2) = Subjects(b) \cup {n}
  <2> HIDE DEF t
  <2>1. Subjects(b2) = {t[i] : i \in 1 .. Len(s) + 1}
    BY <1>2 DEF Subjects
  <2>2. Subjects(b) = {s[i] : i \in 1 .. Len(s)}
    BY <1>2 DEF Subjects
  <2>3. \A i \in 1 .. Len(s) + 1 : i \in 1 .. Len(s) \/ i = Len(s) + 1
    BY <1>2
  <2>4. Len(s) + 1 \in 1 .. Len(s) + 1 /\ 1 .. Len(s) \subseteq 1 .. Len(s) + 1
    BY <1>2
  <2>5. {t[i] : i \in 1 .. Len(s) + 1} = {s[i] : i \in 1 .. Len(s)} \cup {n}
    BY <1>2, <2>3, <2>4
  <2> QED
    BY <2>1, <2>2, <2>5
<1> QED
  BY <1>3, <1>4, <1>5

(* A write of the binding that the server accepts appends one subject.     *)
LEMMA WriteAppends ==
  ASSUME IInv, NEW c \in Callers, pc[c] \in Writing,
         roleBinding[c].version = binding.version,
         ApplyWriteBinding(roleBinding[c].subjects)
  PROVE  /\ binding'.subjects = Append(binding.subjects, NamespaceOf[c])
         /\ binding'.version = binding.version + 1
         /\ binding' \in Bindings
         /\ binding'.subjects # <<>>
         /\ Subjects(binding') = Subjects(binding) \cup {NamespaceOf[c]}
<1>1. NamespaceOf[c] \in Namespaces
  BY NamespaceAssumption
<1>2. /\ binding \in Bindings
      /\ binding.version + 1 \in Nat
      /\ roleBinding[c].subjects = Append(binding.subjects, NamespaceOf[c])
  BY DEF IInv, TypeOK, ServerTypeOK, CopyInv, Bindings
<1>3. binding' = [version  |-> binding.version + 1,
                  subjects |-> Append(binding.subjects, NamespaceOf[c])]
  BY <1>2 DEF ApplyWriteBinding
<1>4. /\ binding' \in Bindings
      /\ binding'.subjects # <<>>
      /\ Subjects(binding') = Subjects(binding) \cup {NamespaceOf[c]}
  BY <1>1, <1>2, <1>3, AppendSubjects
<1> QED
  BY <1>3, <1>4

LEMMA InitInv == Init => IInv
<1> SUFFICES ASSUME Init PROVE IInv
  OBVIOUS
<1>1. NoBinding \in Bindings
  BY DEF NoBinding, Bindings
<1>2. TypeOK
  BY <1>1, BoundsAssumption DEF Init, TypeOK, ServerTypeOK, CallerTypeOK, NoBinding, Phases, Watches, Results
<1> QED
  BY <1>2 DEF Init, IInv, CopyInv, StageInv, AccountsOnlyGranted, Writing

(* A call the server applies leaves its objects well-typed.                *)
LEMMA ServerType ==
  ASSUME IInv, NEW n \in Namespaces,
         \/ ApplyCreateNamespace(n)
         \/ ApplyCreateClusterRole
         \/ ApplyCreateServiceAccount(n)
         \/ ApplyDeleteNamespace(n)
         \/ UNCHANGED server
  PROVE  ServerTypeOK'
<1> USE DEF IInv, TypeOK, ServerTypeOK
<1>1. CASE ApplyCreateNamespace(n)
  BY <1>1 DEF ApplyCreateNamespace, Phases
<1>2. CASE ApplyCreateClusterRole
  BY <1>2 DEF ApplyCreateClusterRole
<1>3. CASE ApplyCreateServiceAccount(n)
  BY <1>3 DEF ApplyCreateServiceAccount
<1>4. CASE ApplyDeleteNamespace(n)
  BY <1>4 DEF ApplyDeleteNamespace, Phases
<1>5. CASE UNCHANGED server
  BY <1>5 DEF server
<1> QED
  BY <1>1, <1>2, <1>3, <1>4, <1>5

(* So does a write of the binding.                                         *)
LEMMA WriteType ==
  ASSUME IInv, NEW c \in Callers, pc[c] \in Writing,
         roleBinding[c].version = binding.version,
         ApplyWriteBinding(roleBinding[c].subjects)
  PROVE  ServerTypeOK'
<1>1. binding' \in Bindings /\ binding'.subjects # <<>> /\ binding'.version # 0
  BY WriteAppends DEF IInv, TypeOK, ServerTypeOK, Bindings
<1> QED
  BY <1>1 DEF IInv, TypeOK, ServerTypeOK, ApplyWriteBinding

(* A caller that writes the binding holds a copy at its version.           *)
LEMMA WritesAtVersion ==
  ASSUME IInv, NEW c \in Callers,
         \/ pc[c] = "createBinding" /\ binding.version = 0
         \/ pc[c] = "updateBinding" /\ ~IsConflict(c)
  PROVE  pc[c] \in Writing /\ roleBinding[c].version = binding.version
BY DEF IInv, CopyInv, Writing, IsConflict

LEMMA ServerStep == IInv /\ [Next]_vars => ServerTypeOK'
<1> SUFFICES ASSUME IInv, [Next]_vars PROVE ServerTypeOK'
  OBVIOUS
<1> USE NamespaceAssumption
<1>1. ASSUME NEW c \in Callers,
             BeginCreate(c) \/ BeginDelete(c) \/ GetBinding(c) \/ WatchNamespace(c)
               \/ AwaitDeleted(c) \/ FailCall(c) \/ ExpireWatch(c)
      PROVE  ServerTypeOK'
  <2>1. UNCHANGED server
    BY <1>1 DEF BeginCreate, BeginDelete, GetBinding, WatchNamespace, AwaitDeleted,
                FailCall, ExpireWatch
  <2> QED
    BY <2>1 DEF IInv, TypeOK, ServerTypeOK, server
<1>2. ASSUME NEW c \in Callers,
             CreateNamespace(c) \/ CreateClusterRole(c) \/ CreateServiceAccount(c)
               \/ DeleteNamespace(c)
      PROVE  ServerTypeOK'
  BY <1>2, ServerType, NamespaceOf[c] \in Namespaces
     DEF CreateNamespace, CreateClusterRole, CreateServiceAccount, DeleteNamespace
<1>3. ASSUME NEW c \in Callers, CreateBinding(c) \/ UpdateBinding(c) PROVE ServerTypeOK'
  <2>1. CASE ApplyWriteBinding(roleBinding[c].subjects) /\ binding.version = roleBinding[c].version
                /\ pc[c] \in Writing
    BY <2>1, WriteType
  <2>2. CASE UNCHANGED server
    BY <2>2 DEF IInv, TypeOK, ServerTypeOK, server
  <2> QED
    BY <1>3, <2>1, <2>2, WritesAtVersion DEF CreateBinding, UpdateBinding
<1>4. ASSUME NEW c \in Callers, LoseReply(c) PROVE ServerTypeOK'
  <2>1. CASE ApplyWriteBinding(roleBinding[c].subjects) /\ binding.version = roleBinding[c].version
                /\ pc[c] \in Writing
    BY <2>1, WriteType
  <2> QED
    BY <1>4, <2>1, WritesAtVersion, ServerType, NamespaceOf[c] \in Namespaces DEF LoseReply
<1>5. ASSUME NEW n \in Namespaces, FinalizeNamespace(n) PROVE ServerTypeOK'
  BY <1>5 DEF FinalizeNamespace, Phases, IInv, TypeOK, ServerTypeOK
<1>6. CASE UNCHANGED vars
  BY <1>6 DEF vars, server, IInv, TypeOK, ServerTypeOK
<1> QED
  BY <1>1, <1>2, <1>3, <1>4, <1>5, <1>6 DEF Next, CreateStep, DeleteStep

LEMMA CallerStep == IInv /\ [Next]_vars => CallerTypeOK'
<1> SUFFICES ASSUME IInv, [Next]_vars PROVE CallerTypeOK'
  OBVIOUS
<1> USE NamespaceAssumption DEF IInv, TypeOK, CallerTypeOK, bounds, Goto, Return,
        CreateCalls, DeleteCalls, Results
<1>1. ASSUME NEW c \in Callers, BeginCreate(c) PROVE CallerTypeOK'
  BY <1>1 DEF BeginCreate
<1>2. ASSUME NEW c \in Callers, BeginDelete(c) PROVE CallerTypeOK'
  BY <1>2 DEF BeginDelete
<1>3. ASSUME NEW c \in Callers, CreateNamespace(c) \/ CreateClusterRole(c) PROVE CallerTypeOK'
  BY <1>3 DEF CreateNamespace, CreateClusterRole
<1>4. ASSUME NEW c \in Callers, GetBinding(c) PROVE CallerTypeOK'
  <2>1. /\ binding \in Bindings
        /\ Append(binding.subjects, NamespaceOf[c]) \in Seq(Namespaces)
    BY DEF ServerTypeOK, Bindings
  <2>2. WithSubject(NamespaceOf[c]) \in Bindings
    BY <2>1 DEF WithSubject, Bindings
  <2> QED
    BY <1>4, <2>2 DEF GetBinding
<1>5. ASSUME NEW c \in Callers, CreateBinding(c) PROVE CallerTypeOK'
  BY <1>5 DEF CreateBinding
<1>6. ASSUME NEW c \in Callers, UpdateBinding(c) PROVE CallerTypeOK'
  BY <1>6 DEF UpdateBinding, OnConflict
<1>7. ASSUME NEW c \in Callers, CreateServiceAccount(c) PROVE CallerTypeOK'
  BY <1>7 DEF CreateServiceAccount
<1>8. ASSUME NEW c \in Callers, DeleteStep(c) PROVE CallerTypeOK'
  BY <1>8 DEF DeleteStep, WatchNamespace, DeleteNamespace, AwaitDeleted, Watches
<1>9. ASSUME NEW c \in Callers, FailCall(c) \/ ExpireWatch(c) PROVE CallerTypeOK'
  BY <1>9 DEF FailCall, ExpireWatch, Watches
<1>10. ASSUME NEW c \in Callers, LoseReply(c) PROVE CallerTypeOK'
  BY <1>10 DEF LoseReply
<1>11. ASSUME NEW n \in Namespaces, FinalizeNamespace(n) PROVE CallerTypeOK'
  BY <1>11 DEF FinalizeNamespace, Watches
<1>12. CASE UNCHANGED vars
  BY <1>12 DEF vars
<1> QED
  BY <1>1, <1>2, <1>3, <1>4, <1>5, <1>6, <1>7, <1>8, <1>9, <1>10, <1>11, <1>12
     DEF Next, CreateStep

(* The binding changes in no other way than by one append of its writer,   *)
(* who leaves the loop.                                                    *)
Appends(c) ==
  /\ pc[c] \in Writing
  /\ binding'.version = binding.version + 1
  /\ binding'.subjects = Append(binding.subjects, NamespaceOf[c])
  /\ Subjects(binding') = Subjects(binding) \cup {NamespaceOf[c]}
  /\ pc' = [pc EXCEPT ![c] = "createServiceAccount"] \/ pc' = [pc EXCEPT ![c] = "idle"]
  /\ UNCHANGED <<namespaces, labelled, clusterRole, serviceAccounts, roleBinding>>

LEMMA BindingStep ==
  IInv /\ [Next]_vars => UNCHANGED binding \/ \E c \in Callers : Appends(c)
<1> SUFFICES ASSUME IInv, [Next]_vars
             PROVE  UNCHANGED binding \/ \E c \in Callers : Appends(c)
  OBVIOUS
<1>1. ASSUME NEW c \in Callers, CreateBinding(c) \/ UpdateBinding(c) \/ LoseReply(c)
      PROVE  UNCHANGED binding \/ Appends(c)
  <2>1. CASE /\ \/ pc[c] = "createBinding" /\ binding.version = 0
                \/ pc[c] = "updateBinding" /\ ~IsConflict(c)
             /\ ApplyWriteBinding(roleBinding[c].subjects)
    <3>1. pc[c] \in Writing /\ roleBinding[c].version = binding.version
      BY <2>1, WritesAtVersion
    <3>2. /\ binding'.subjects = Append(binding.subjects, NamespaceOf[c])
          /\ binding'.version = binding.version + 1
          /\ Subjects(binding') = Subjects(binding) \cup {NamespaceOf[c]}
      BY <2>1, <3>1, WriteAppends
    <3>3. /\ pc' = [pc EXCEPT ![c] = "createServiceAccount"] \/ pc' = [pc EXCEPT ![c] = "idle"]
          /\ UNCHANGED roleBinding
      BY <1>1, <2>1 DEF CreateBinding, UpdateBinding, LoseReply, Goto, Return
    <3> QED
      BY <2>1, <3>1, <3>2, <3>3 DEF Appends, ApplyWriteBinding
  <2>2. CASE UNCHANGED binding
    BY <2>2
  <2> QED
    BY <1>1, <2>1, <2>2
       DEF CreateBinding, UpdateBinding, LoseReply, server, ApplyCreateNamespace,
           ApplyCreateClusterRole, ApplyCreateServiceAccount, ApplyDeleteNamespace
<1>2. ASSUME NEW c \in Callers,
             \/ BeginCreate(c) \/ CreateNamespace(c) \/ CreateClusterRole(c)
             \/ GetBinding(c) \/ CreateServiceAccount(c) \/ BeginDelete(c)
             \/ DeleteStep(c) \/ FailCall(c) \/ ExpireWatch(c)
      PROVE  UNCHANGED binding
  BY <1>2 DEF BeginCreate, CreateNamespace, CreateClusterRole, GetBinding,
              CreateServiceAccount, BeginDelete, DeleteStep, WatchNamespace,
              DeleteNamespace, AwaitDeleted, FailCall, ExpireWatch, server,
              ApplyCreateNamespace, ApplyCreateClusterRole,
              ApplyCreateServiceAccount, ApplyDeleteNamespace
<1>3. ASSUME NEW n \in Namespaces, FinalizeNamespace(n) PROVE UNCHANGED binding
  BY <1>3 DEF FinalizeNamespace
<1>4. CASE UNCHANGED vars
  BY <1>4 DEF vars, server
<1> QED
  BY <1>1, <1>2, <1>3, <1>4 DEF Next, CreateStep

(* A caller enters the loop, and refreshes its copy, only by reading.      *)
LEMMA CopyStep ==
  ASSUME IInv, [Next]_vars, NEW c \in Callers, pc'[c] \in Writing
  PROVE  \/ UNCHANGED <<pc[c], roleBinding[c]>>
         \/ /\ UNCHANGED binding
            /\ roleBinding'[c] = WithSubject(NamespaceOf[c])
            /\ pc[c] = "getBinding"
            /\ pc'[c] = IF binding.version = 0 THEN "createBinding" ELSE "updateBinding"
<1> USE DEF IInv, TypeOK, CallerTypeOK, Goto, Return, Writing
<1>1. ASSUME NEW d \in Callers, GetBinding(d)
      PROVE  \/ UNCHANGED <<pc[c], roleBinding[c]>>
             \/ /\ UNCHANGED binding
                /\ roleBinding'[c] = WithSubject(NamespaceOf[c])
                /\ pc[c] = "getBinding"
                /\ pc'[c] = IF binding.version = 0 THEN "createBinding" ELSE "updateBinding"
  BY <1>1 DEF GetBinding, server
<1>2. ASSUME NEW d \in Callers,
             \/ BeginCreate(d) \/ CreateNamespace(d) \/ CreateClusterRole(d)
             \/ CreateBinding(d) \/ UpdateBinding(d) \/ CreateServiceAccount(d)
             \/ BeginDelete(d) \/ DeleteStep(d) \/ FailCall(d) \/ LoseReply(d)
             \/ ExpireWatch(d)
      PROVE  UNCHANGED <<pc[c], roleBinding[c]>>
  BY <1>2 DEF BeginCreate, CreateNamespace, CreateClusterRole, CreateBinding,
              UpdateBinding, OnConflict, CreateServiceAccount, BeginDelete, DeleteStep,
              WatchNamespace, DeleteNamespace, AwaitDeleted, FailCall, LoseReply, ExpireWatch
<1>3. ASSUME NEW n \in Namespaces, FinalizeNamespace(n) PROVE UNCHANGED <<pc[c], roleBinding[c]>>
  BY <1>3 DEF FinalizeNamespace
<1>4. CASE UNCHANGED vars
  BY <1>4 DEF vars
<1> QED
  BY <1>1, <1>2, <1>3, <1>4 DEF Next, CreateStep

LEMMA CopyInvStep == IInv /\ [Next]_vars => CopyInv'
<1> SUFFICES ASSUME IInv, [Next]_vars, NEW c \in Callers, (pc[c] \in Writing)'
             PROVE  (/\ roleBinding[c].version <= binding.version
                     /\ roleBinding[c].version = binding.version =>
                          roleBinding[c].subjects = Append(binding.subjects, NamespaceOf[c])
                     /\ pc[c] = "createBinding" <=> roleBinding[c].version = 0)'
  BY DEF CopyInv
<1>1. /\ binding.version \in Nat
      /\ roleBinding[c].version \in Nat
  BY DEF IInv, TypeOK, ServerTypeOK, CallerTypeOK, Bindings
<1>2. CASE UNCHANGED <<pc[c], roleBinding[c]>>
  <2>1. pc[c] \in Writing
    BY <1>2
  <2>2. CASE UNCHANGED binding
    BY <1>2, <2>1, <2>2 DEF IInv, CopyInv
  <2>3. CASE binding'.version = binding.version + 1
    BY <1>1, <1>2, <2>1, <2>3 DEF IInv, CopyInv
  <2> QED
    BY <2>2, <2>3, BindingStep DEF Appends
<1>3. CASE /\ UNCHANGED binding
           /\ roleBinding'[c] = WithSubject(NamespaceOf[c])
           /\ pc'[c] = IF binding.version = 0 THEN "createBinding" ELSE "updateBinding"
  <2>1. /\ roleBinding'[c].version = binding.version
        /\ roleBinding'[c].subjects = Append(binding.subjects, NamespaceOf[c])
    BY <1>3 DEF WithSubject, IInv, TypeOK, ServerTypeOK, Bindings
  <2> QED
    BY <1>1, <1>3, <2>1
<1> QED
  BY <1>2, <1>3, CopyStep

(* The role and the grants are never taken back.                           *)
LEMMA GrantsMonotone ==
  IInv /\ [Next]_vars => /\ Subjects(binding) \subseteq Subjects(binding')
                         /\ clusterRole => clusterRole'
<1> SUFFICES ASSUME IInv, [Next]_vars
             PROVE  /\ Subjects(binding) \subseteq Subjects(binding')
                    /\ clusterRole => clusterRole'
  OBVIOUS
<1>1. Subjects(binding) \subseteq Subjects(binding')
  BY BindingStep DEF Appends
<1>2. ASSUME NEW c \in Callers,
             \/ BeginCreate(c) \/ CreateStep(c) \/ BeginDelete(c) \/ DeleteStep(c)
             \/ FailCall(c) \/ LoseReply(c) \/ ExpireWatch(c)
      PROVE  clusterRole => clusterRole'
  BY <1>2 DEF BeginCreate, CreateStep, CreateNamespace, CreateClusterRole, GetBinding,
              CreateBinding, UpdateBinding, CreateServiceAccount, BeginDelete, DeleteStep,
              WatchNamespace, DeleteNamespace, AwaitDeleted, FailCall, LoseReply, ExpireWatch,
              server, ApplyCreateNamespace, ApplyCreateClusterRole, ApplyWriteBinding,
              ApplyCreateServiceAccount, ApplyDeleteNamespace
<1>3. ASSUME NEW n \in Namespaces, FinalizeNamespace(n) PROVE clusterRole => clusterRole'
  BY <1>3 DEF FinalizeNamespace
<1>4. CASE UNCHANGED vars
  BY <1>4 DEF vars, server
<1> QED
  BY <1>1, <1>2, <1>3, <1>4 DEF Next

(* The stages of Create are entered one from the other.                    *)
LEMMA StageStep ==
  ASSUME IInv, [Next]_vars, NEW c \in Callers
  PROVE  /\ pc'[c] = "createServiceAccount" =>
              \/ pc[c] = "createServiceAccount"
              \/ pc[c] \in Writing /\ NamespaceOf[c] \in Subjects(binding')
         /\ pc'[c] \in Writing \cup {"getBinding"} =>
              pc[c] \in Writing \cup {"getBinding"} \/ clusterRole'
<1> DEFINE Goal ==
      /\ pc'[c] = "createServiceAccount" =>
           \/ pc[c] = "createServiceAccount"
           \/ pc[c] \in Writing /\ NamespaceOf[c] \in Subjects(binding')
      /\ pc'[c] \in Writing \cup {"getBinding"} =>
           pc[c] \in Writing \cup {"getBinding"} \/ clusterRole'
<1> USE DEF IInv, TypeOK, CallerTypeOK, Goto, Return, Writing
<1>1. ASSUME NEW d \in Callers, CreateBinding(d) \/ UpdateBinding(d) PROVE Goal
  <2>1. CASE /\ \/ pc[d] = "createBinding" /\ binding.version = 0
                \/ pc[d] = "updateBinding" /\ ~IsConflict(d)
             /\ ApplyWriteBinding(roleBinding[d].subjects)
    <3>1. pc[d] \in Writing /\ roleBinding[d].version = binding.version
      BY <2>1, WritesAtVersion
    <3>2. NamespaceOf[d] \in Subjects(binding')
      BY <2>1, <3>1, WriteAppends
    <3> QED
      BY <1>1, <3>1, <3>2 DEF CreateBinding, UpdateBinding, OnConflict
  <2>2. CASE pc' = [pc EXCEPT ![d] = "getBinding"]
    BY <1>1, <2>2 DEF CreateBinding, UpdateBinding
  <2> QED
    BY <1>1, <2>1, <2>2 DEF CreateBinding, UpdateBinding, OnConflict
<1>2. ASSUME NEW d \in Callers, CreateClusterRole(d) PROVE Goal
  BY <1>2 DEF CreateClusterRole, ApplyCreateClusterRole
<1>3. ASSUME NEW d \in Callers, GetBinding(d) PROVE Goal
  BY <1>3 DEF GetBinding
<1>4. ASSUME NEW d \in Callers,
             \/ BeginCreate(d) \/ CreateNamespace(d) \/ CreateServiceAccount(d)
             \/ BeginDelete(d) \/ DeleteStep(d) \/ FailCall(d) \/ LoseReply(d)
             \/ ExpireWatch(d)
      PROVE  Goal
  BY <1>4 DEF BeginCreate, CreateNamespace, CreateServiceAccount, BeginDelete, DeleteStep,
              WatchNamespace, DeleteNamespace, AwaitDeleted, FailCall, LoseReply, ExpireWatch
<1>5. ASSUME NEW n \in Namespaces, FinalizeNamespace(n) PROVE Goal
  BY <1>5 DEF FinalizeNamespace
<1>6. CASE UNCHANGED vars
  BY <1>6 DEF vars
<1> QED
  BY <1>1, <1>2, <1>3, <1>4, <1>5, <1>6 DEF Next, CreateStep

LEMMA StageInvStep == IInv /\ [Next]_vars => StageInv'
BY GrantsMonotone, StageStep DEF IInv, StageInv

(* An account only appears in the last stage of Create.                    *)
LEMMA AccountStep ==
  IInv /\ [Next]_vars =>
    \A n \in serviceAccounts' :
      \/ n \in serviceAccounts
      \/ \E c \in Callers : pc[c] = "createServiceAccount" /\ n = NamespaceOf[c]
<1> SUFFICES ASSUME IInv, [Next]_vars, NEW n \in serviceAccounts'
             PROVE  \/ n \in serviceAccounts
                    \/ \E c \in Callers : pc[c] = "createServiceAccount" /\ n = NamespaceOf[c]
  OBVIOUS
<1>1. ASSUME NEW c \in Callers, CreateServiceAccount(c) \/ LoseReply(c)
      PROVE  n \in serviceAccounts \/ (pc[c] = "createServiceAccount" /\ n = NamespaceOf[c])
  <2>1. CASE pc[c] = "createServiceAccount" /\ ApplyCreateServiceAccount(NamespaceOf[c])
    BY <2>1 DEF ApplyCreateServiceAccount
  <2>2. CASE UNCHANGED serviceAccounts
    BY <2>2
  <2> QED
    BY <1>1, <2>1, <2>2
       DEF CreateServiceAccount, LoseReply, server, ApplyCreateNamespace,
           ApplyCreateClusterRole, ApplyWriteBinding, ApplyDeleteNamespace
<1>2. ASSUME NEW c \in Callers,
             \/ BeginCreate(c) \/ CreateNamespace(c) \/ CreateClusterRole(c)
             \/ GetBinding(c) \/ CreateBinding(c) \/ UpdateBinding(c) \/ BeginDelete(c)
             \/ DeleteStep(c) \/ FailCall(c) \/ ExpireWatch(c)
      PROVE  n \in serviceAccounts
  BY <1>2 DEF BeginCreate, CreateNamespace, CreateClusterRole, GetBinding, CreateBinding,
              UpdateBinding, BeginDelete, DeleteStep, WatchNamespace, DeleteNamespace,
              AwaitDeleted, FailCall, ExpireWatch, server, ApplyCreateNamespace,
              ApplyCreateClusterRole, ApplyWriteBinding, ApplyDeleteNamespace
<1>3. ASSUME NEW m \in Namespaces, FinalizeNamespace(m) PROVE n \in serviceAccounts
  BY <1>3 DEF FinalizeNamespace
<1>4. CASE UNCHANGED vars
  BY <1>4 DEF vars, server
<1> QED
  BY <1>1, <1>2, <1>3, <1>4 DEF Next, CreateStep

LEMMA AccountsStep == IInv /\ [Next]_vars => AccountsOnlyGranted'
BY GrantsMonotone, AccountStep DEF IInv, AccountsOnlyGranted, StageInv

LEMMA InvStep == IInv /\ [Next]_vars => IInv'
BY ServerStep, CallerStep, CopyInvStep, StageInvStep, AccountsStep DEF IInv, TypeOK

THEOREM InductiveInvariant == Spec => []IInv
BY InitInv, InvStep, PTL DEF Spec

(* The objects on the server and the state of the callers keep their types *)
(* and a binding that exists has a subject (setupRBAC, lines 101-279).     *)
THEOREM TypeCorrect == Spec => []TypeOK
<1>1. IInv => TypeOK
  BY DEF IInv
<1> QED
  BY InductiveInvariant, <1>1, PTL

(* A service account exists only where the role exists and binds it.       *)
THEOREM AccountsGranted == Spec => []AccountsOnlyGranted
<1>1. IInv => AccountsOnlyGranted
  BY DEF IInv
<1> QED
  BY InductiveInvariant, <1>1, PTL

(* No Create ever removes the subject that another one added.              *)
THEOREM NoLostGrant == Spec => GrantsSurvive
<1>1. IInv /\ [Next]_vars => [Subjects(binding) \subseteq Subjects(binding')]_vars
  BY GrantsMonotone
<1> QED
  BY InductiveInvariant, <1>1, PTL DEF Spec, GrantsSurvive

(* A Create that returns nil leaves an active namespace that holds its     *)
(* account, bound to the role.                                             *)
THEOREM CreatedUsable == Spec => CreatedIsUsable
<1> DEFINE P(c) == result[c] = "none" /\ result'[c] = "created" =>
                     /\ namespaces'[NamespaceOf[c]] = "active"
                     /\ NamespaceOf[c] \in serviceAccounts' \cap Subjects(binding')
<1>1. ASSUME IInv, Next, NEW c \in Callers PROVE P(c)
  <2> SUFFICES ASSUME result[c] = "none", result'[c] = "created"
               PROVE  /\ namespaces'[NamespaceOf[c]] = "active"
                      /\ NamespaceOf[c] \in serviceAccounts' \cap Subjects(binding')
    OBVIOUS
  <2>1. result \in [Callers -> Results]
    BY <1>1 DEF IInv, TypeOK, CallerTypeOK
  <2>2. ASSUME NEW d \in Callers,
               \/ BeginCreate(d) \/ CreateNamespace(d) \/ CreateClusterRole(d)
               \/ GetBinding(d) \/ CreateBinding(d) \/ UpdateBinding(d) \/ BeginDelete(d)
               \/ DeleteStep(d) \/ FailCall(d) \/ LoseReply(d) \/ ExpireWatch(d)
        PROVE  FALSE
    BY <2>1, <2>2
       DEF BeginCreate, CreateNamespace, CreateClusterRole, GetBinding, CreateBinding,
           UpdateBinding, BeginDelete, DeleteStep, WatchNamespace, DeleteNamespace,
           AwaitDeleted, FailCall, LoseReply, ExpireWatch, Return
  <2>3. ASSUME NEW n \in Namespaces, FinalizeNamespace(n) PROVE FALSE
    BY <2>3 DEF FinalizeNamespace
  <2>4. PICK d \in Callers : CreateServiceAccount(d)
    BY <1>1, <2>2, <2>3 DEF Next, CreateStep
  <2>5. /\ d = c
        /\ ApplyCreateServiceAccount(NamespaceOf[c])
        /\ pc[c] = "createServiceAccount"
    BY <2>1, <2>4 DEF CreateServiceAccount, Return
  <2>6. NamespaceOf[c] \in Subjects(binding)
    BY <1>1, <2>5 DEF IInv, StageInv
  <2> QED
    BY <2>5, <2>6 DEF ApplyCreateServiceAccount
<1>2. IInv /\ [Next]_vars => [\A c \in Callers : P(c)]_vars
  BY <1>1
<1> QED
  BY InductiveInvariant, <1>2, PTL DEF Spec, CreatedIsUsable

-----------------------------------------------------------------------------
(* Every subject in the binding, and every Create that has yet to append   *)
(* one, is paid for by a Create that began.                                *)
Entries(n) == {i \in DOMAIN binding.subjects : binding.subjects[i] = n}
Pending(n) ==
  {c \in Callers : NamespaceOf[c] = n /\ pc[c] \in CreateCalls \ {"createServiceAccount"}}
BudgetInv ==
  \A n \in Namespaces :
    /\ IsFiniteSet(Pending(n))
    /\ Cardinality(Entries(n)) + Cardinality(Pending(n)) <= creates[n]

LEMMA EntriesCounted ==
  ASSUME IInv, NEW n
  PROVE  IsFiniteSet(Entries(n)) /\ Cardinality(Entries(n)) \in Nat
<1>1. Len(binding.subjects) \in Nat /\ DOMAIN binding.subjects = 1 .. Len(binding.subjects)
  BY DEF IInv, TypeOK, ServerTypeOK, Bindings
<1>2. IsFiniteSet(DOMAIN binding.subjects)
  BY <1>1, FS_Interval
<1>3. IsFiniteSet(Entries(n))
  BY <1>2, FS_Subset, Entries(n) \in SUBSET DOMAIN binding.subjects DEF Entries
<1> QED
  BY <1>3, FS_CardinalityType

(* A write adds the entry of its caller, and no other.                     *)
LEMMA EntryAppended ==
  ASSUME IInv, NEW c \in Callers, NEW n,
         binding'.subjects = Append(binding.subjects, NamespaceOf[c])
  PROVE  Cardinality(Entries(n)') =
           Cardinality(Entries(n)) + (IF n = NamespaceOf[c] THEN 1 ELSE 0)
<1>1. PICK s : s = binding.subjects
  OBVIOUS
<1>2. PICK t : t = Append(s, NamespaceOf[c])
  OBVIOUS
<1>3. s \in Seq(Namespaces) /\ NamespaceOf[c] \in Namespaces
  BY <1>1, NamespaceAssumption DEF IInv, TypeOK, ServerTypeOK, Bindings
<1>4. /\ Len(s) \in Nat
      /\ DOMAIN s = 1 .. Len(s)
      /\ DOMAIN t = 1 .. Len(s) + 1
      /\ t[Len(s) + 1] = NamespaceOf[c]
      /\ \A i \in 1 .. Len(s) : t[i] = s[i]
  BY <1>2, <1>3
<1>5. /\ \A i \in 1 .. Len(s) + 1 : i \in 1 .. Len(s) \/ i = Len(s) + 1
      /\ 1 .. Len(s) \subseteq 1 .. Len(s) + 1
      /\ Len(s) + 1 \in 1 .. Len(s) + 1
      /\ Len(s) + 1 \notin 1 .. Len(s)
  BY <1>4
<1>6. Entries(n) = {i \in 1 .. Len(s) : s[i] = n}
  BY <1>1, <1>4 DEF Entries
<1>7. Entries(n)' = {i \in 1 .. Len(s) + 1 : t[i] = n}
  BY <1>1, <1>2, <1>4 DEF Entries
<1>8. CASE n = NamespaceOf[c]
  <2>1. Entries(n)' = Entries(n) \cup {Len(s) + 1} /\ Len(s) + 1 \notin Entries(n)
    BY <1>4, <1>5, <1>6, <1>7, <1>8
  <2> QED
    BY <1>8, <2>1, EntriesCounted, FS_AddElement
<1>9. CASE n # NamespaceOf[c]
  <2>1. Entries(n)' = Entries(n)
    BY <1>4, <1>5, <1>6, <1>7, <1>9
  <2> QED
    BY <1>9, <2>1, EntriesCounted
<1> QED
  BY <1>8, <1>9

(* A Create is pending from its beginning until it has appended or failed. *)
LEMMA PendingStep ==
  IInv /\ [Next]_vars =>
    \/ \E c \in Callers : BeginCreate(c)
    \/ UNCHANGED creates /\ \A n \in Namespaces : Pending(n)' \subseteq Pending(n)
<1> SUFFICES ASSUME IInv, [Next]_vars
             PROVE  \/ \E c \in Callers : BeginCreate(c)
                    \/ UNCHANGED creates /\ \A n \in Namespaces : Pending(n)' \subseteq Pending(n)
  OBVIOUS
<1> DEFINE Early(call) == call \in CreateCalls \ {"createServiceAccount"}
           Goal == UNCHANGED creates /\ \A d \in Callers : Early(pc'[d]) => Early(pc[d])
<1>1. Goal => UNCHANGED creates /\ \A n \in Namespaces : Pending(n)' \subseteq Pending(n)
  BY DEF Pending
<1> USE DEF IInv, TypeOK, CallerTypeOK, Goto, Return, CreateCalls, bounds
<1>2. ASSUME NEW c \in Callers, CreateStep(c) PROVE Goal
  BY <1>2 DEF CreateStep, CreateNamespace, CreateClusterRole, GetBinding, CreateBinding,
              UpdateBinding, OnConflict, CreateServiceAccount
<1>3. ASSUME NEW c \in Callers,
             BeginDelete(c) \/ DeleteStep(c) \/ FailCall(c) \/ LoseReply(c) \/ ExpireWatch(c)
      PROVE  Goal
  <2>1. CASE BeginDelete(c) \/ ExpireWatch(c)
    BY <2>1 DEF BeginDelete, ExpireWatch
  <2>2. CASE DeleteStep(c)
    BY <2>2 DEF DeleteStep, WatchNamespace, DeleteNamespace, AwaitDeleted
  <2>3. CASE FailCall(c)
    BY <2>3 DEF FailCall
  <2>4. CASE LoseReply(c)
    BY <2>4 DEF LoseReply
  <2> QED
    BY <1>3, <2>1, <2>2, <2>3, <2>4
<1>4. ASSUME NEW n \in Namespaces, FinalizeNamespace(n) PROVE Goal
  BY <1>4 DEF FinalizeNamespace
<1>5. ASSUME UNCHANGED vars PROVE Goal
  BY <1>5 DEF vars
<1> HIDE DEF IInv, TypeOK, CallerTypeOK, Goto, Return, CreateCalls, bounds, Goal
<1>6. (\E c \in Callers : BeginCreate(c)) \/ Goal
  BY <1>2, <1>3, <1>4, <1>5 DEF Next
<1> QED
  BY <1>1, <1>6

(* The writer is one of the pending callers, and then no more.             *)
LEMMA WriterLeaves ==
  ASSUME IInv, NEW c \in Callers, Appends(c)
  PROVE  c \in Pending(NamespaceOf[c]) /\ c \notin Pending(NamespaceOf[c])'
BY DEF IInv, TypeOK, CallerTypeOK, Appends, Pending, Writing, CreateCalls

LEMMA BudgetStep == IInv /\ BudgetInv /\ [Next]_vars => BudgetInv'
<1> SUFFICES ASSUME IInv, BudgetInv, [Next]_vars, NEW n \in Namespaces
             PROVE  (/\ IsFiniteSet(Pending(n))
                     /\ Cardinality(Entries(n)) + Cardinality(Pending(n)) <= creates[n])'
  BY DEF BudgetInv
<1>1. /\ IsFiniteSet(Pending(n)) /\ Cardinality(Pending(n)) \in Nat
      /\ Cardinality(Entries(n)) \in Nat /\ creates[n] \in Nat
      /\ Cardinality(Entries(n)) + Cardinality(Pending(n)) <= creates[n]
  BY EntriesCounted, FS_CardinalityType DEF BudgetInv, IInv, TypeOK, CallerTypeOK
<1>2. ASSUME NEW c \in Callers, BeginCreate(c)
      PROVE  (/\ IsFiniteSet(Pending(n))
              /\ Cardinality(Entries(n)) + Cardinality(Pending(n)) <= creates[n])'
  <2>1. Entries(n)' = Entries(n)
    BY <1>2 DEF BeginCreate, server, Entries
  <2>2. CASE n = NamespaceOf[c]
    <3>1. Pending(n)' = Pending(n) \cup {c} /\ c \notin Pending(n)
      BY <1>2, <2>2 DEF BeginCreate, Goto, Pending, CreateCalls, IInv, TypeOK, CallerTypeOK
    <3>2. IsFiniteSet(Pending(n)') /\ Cardinality(Pending(n)') = Cardinality(Pending(n)) + 1
      BY <1>1, <3>1, FS_AddElement
    <3>3. creates'[n] = creates[n] + 1
      BY <1>2, <2>2 DEF BeginCreate, IInv, TypeOK, CallerTypeOK
    <3> QED
      BY <1>1, <2>1, <3>2, <3>3
  <2>3. CASE n # NamespaceOf[c]
    <3>1. Pending(n)' = Pending(n)
      BY <1>2, <2>3 DEF BeginCreate, Goto, Pending, IInv, TypeOK, CallerTypeOK
    <3>2. creates'[n] = creates[n]
      BY <1>2, <2>3 DEF BeginCreate, IInv, TypeOK, CallerTypeOK
    <3> QED
      BY <1>1, <2>1, <3>1, <3>2
  <2> QED
    BY <2>2, <2>3
<1>3. ASSUME UNCHANGED creates, Pending(n)' \subseteq Pending(n)
      PROVE  (/\ IsFiniteSet(Pending(n))
              /\ Cardinality(Entries(n)) + Cardinality(Pending(n)) <= creates[n])'
  <2>1. /\ IsFiniteSet(Pending(n)') /\ Cardinality(Pending(n)') \in Nat
        /\ Cardinality(Pending(n)') <= Cardinality(Pending(n))
    BY <1>1, <1>3, FS_Subset, FS_CardinalityType
  <2>2. CASE UNCHANGED binding
    <3>1. Entries(n)' = Entries(n)
      BY <2>2 DEF Entries
    <3> QED
      BY <1>1, <1>3, <2>1, <3>1
  <2>3. ASSUME NEW c \in Callers, Appends(c)
        PROVE  Cardinality(Entries(n)') + Cardinality(Pending(n)') <= creates'[n]
    <3>1. Cardinality(Entries(n)') =
            Cardinality(Entries(n)) + (IF n = NamespaceOf[c] THEN 1 ELSE 0)
      BY <2>3, EntryAppended DEF Appends
    <3>2. CASE n # NamespaceOf[c]
      BY <1>1, <1>3, <2>1, <3>1, <3>2
    <3>3. CASE n = NamespaceOf[c]
      <4>1. c \in Pending(n) /\ Pending(n)' \subseteq Pending(n) \ {c}
        BY <1>3, <2>3, <3>3, WriterLeaves
      <4>2. /\ IsFiniteSet(Pending(n) \ {c})
            /\ Cardinality(Pending(n) \ {c}) = Cardinality(Pending(n)) - 1
        BY <1>1, <4>1, FS_RemoveElement
      <4>3. Cardinality(Pending(n)') <= Cardinality(Pending(n)) - 1
        BY <4>1, <4>2, FS_Subset
      <4> QED
        BY <1>1, <1>3, <2>1, <3>1, <3>3, <4>3
    <3> QED
      BY <3>2, <3>3
  <2> QED
    BY <2>1, <2>2, <2>3, BindingStep
<1> QED
  BY <1>2, <1>3, PendingStep

LEMMA BudgetInit == Init => BudgetInv
<1> SUFFICES ASSUME Init, NEW n \in Namespaces
             PROVE  /\ IsFiniteSet(Pending(n))
                    /\ Cardinality(Entries(n)) + Cardinality(Pending(n)) <= creates[n]
  BY DEF BudgetInv
<1>1. Pending(n) = {}
  BY DEF Init, Pending, CreateCalls
<1>2. Entries(n) = {}
  BY DEF Init, Entries, NoBinding
<1>3. creates[n] = 0
  BY DEF Init
<1> QED
  BY <1>1, <1>2, <1>3, FS_EmptySet

(* However often a Create starts over, and whatever answers it loses, it   *)
(* adds at most one subject (createClusterRoleBinding, lines 239-279).     *)
THEOREM SubjectsPaidFor == Spec => []OneSubjectPerCreate
<1>1. IInv /\ BudgetInv => OneSubjectPerCreate
  <2> SUFFICES ASSUME IInv, BudgetInv, NEW n \in Namespaces
               PROVE  Cardinality(Entries(n)) <= creates[n]
    BY DEF OneSubjectPerCreate, Entries
  <2>1. Cardinality(Entries(n)) \in Nat /\ Cardinality(Pending(n)) \in Nat /\ creates[n] \in Nat
    BY EntriesCounted, FS_CardinalityType DEF BudgetInv, IInv, TypeOK, CallerTypeOK
  <2> QED
    BY <2>1 DEF BudgetInv
<1> QED
  BY InitInv, InvStep, BudgetInit, BudgetStep, <1>1, PTL DEF Spec

(* While Delete runs, its watch was closed early only if the server did    *)
(* that, and has told of the deletion only if the namespace is gone and    *)
(* nobody else creates it anew.                                            *)
Deleting(c) == pc[c] \in {"deleteNamespace", "awaitDeleted"}
WatchInv ==
  \A c \in Callers : Deleting(c) =>
    /\ watch[c] = "closed" => expiries > 0
    /\ watch[c] = "deleted" /\ c \in Alone => namespaces[NamespaceOf[c]] = "absent"

(* A caller leaves the namespaces of the others alone, and is in Delete    *)
(* once it has opened its watch.                                           *)
LEMMA OthersLeave ==
  ASSUME IInv, NEW d \in Callers,
         \/ BeginCreate(d) \/ CreateStep(d) \/ BeginDelete(d) \/ DeleteStep(d)
         \/ FailCall(d) \/ LoseReply(d) \/ ExpireWatch(d),
         NEW c \in Callers, c # d
  PROVE  /\ UNCHANGED <<pc[c], watch[c]>>
         /\ NamespaceOf[c] # NamespaceOf[d] => UNCHANGED namespaces[NamespaceOf[c]]
         /\ expiries' \in {expiries, expiries + 1}
<1> USE NamespaceAssumption
    DEF IInv, TypeOK, CallerTypeOK, ServerTypeOK, Goto, Return, server, bounds
<1>1. CASE BeginCreate(d) \/ BeginDelete(d) \/ ExpireWatch(d)
  BY <1>1 DEF BeginCreate, BeginDelete, ExpireWatch
<1>2. CASE CreateNamespace(d) \/ CreateClusterRole(d) \/ GetBinding(d)
  BY <1>2 DEF CreateNamespace, CreateClusterRole, GetBinding, ApplyCreateNamespace,
              ApplyCreateClusterRole
<1>3. CASE CreateBinding(d) \/ UpdateBinding(d) \/ CreateServiceAccount(d)
  BY <1>3 DEF CreateBinding, UpdateBinding, OnConflict, CreateServiceAccount,
              ApplyWriteBinding, ApplyCreateServiceAccount
<1>4. CASE DeleteStep(d)
  BY <1>4 DEF DeleteStep, WatchNamespace, DeleteNamespace, AwaitDeleted, ApplyDeleteNamespace
<1>5. CASE FailCall(d)
  BY <1>5 DEF FailCall
<1>6. CASE LoseReply(d)
  BY <1>6 DEF LoseReply, ApplyCreateNamespace, ApplyCreateClusterRole, ApplyWriteBinding,
              ApplyCreateServiceAccount, ApplyDeleteNamespace
<1> QED
  BY <1>1, <1>2, <1>3, <1>4, <1>5, <1>6 DEF CreateStep

LEMMA WatchStep == IInv /\ WatchInv /\ [Next]_vars => WatchInv'
<1> SUFFICES ASSUME IInv, WatchInv, [Next]_vars, NEW c \in Callers, Deleting(c)'
             PROVE  (/\ watch[c] = "closed" => expiries > 0
                     /\ watch[c] = "deleted" /\ c \in Alone =>
                          namespaces[NamespaceOf[c]] = "absent")'
  BY DEF WatchInv
<1> DEFINE Goal == (/\ watch[c] = "closed" => expiries > 0
                    /\ watch[c] = "deleted" /\ c \in Alone =>
                         namespaces[NamespaceOf[c]] = "absent")'
<1>1. /\ pc \in [Callers -> {"idle"} \cup CreateCalls \cup DeleteCalls]
      /\ watch \in [Callers -> Watches]
      /\ namespaces \in [Namespaces -> Phases]
      /\ expiries \in Nat
      /\ NamespaceOf[c] \in Namespaces
  BY NamespaceAssumption DEF IInv, TypeOK, CallerTypeOK, ServerTypeOK
<1>2. Alone' = Alone
  BY DEF Alone
<1>3. ASSUME NEW d \in Callers, d # c,
             \/ BeginCreate(d) \/ CreateStep(d) \/ BeginDelete(d) \/ DeleteStep(d)
             \/ FailCall(d) \/ LoseReply(d) \/ ExpireWatch(d)
      PROVE  Goal
  <2>1. /\ UNCHANGED <<pc[c], watch[c]>>
        /\ NamespaceOf[c] # NamespaceOf[d] => UNCHANGED namespaces[NamespaceOf[c]]
        /\ expiries' \in {expiries, expiries + 1}
    BY <1>3, OthersLeave
  <2>2. c \in Alone => NamespaceOf[c] # NamespaceOf[d]
    BY <1>3 DEF Alone
  <2> QED
    BY <1>1, <1>2, <2>1, <2>2 DEF WatchInv, Deleting
<1>4. CASE WatchNamespace(c)
  BY <1>1, <1>4 DEF WatchNamespace
<1>5. CASE DeleteNamespace(c)
  BY <1>1, <1>2, <1>5
     DEF DeleteNamespace, Goto, Return, WatchInv, Deleting, ApplyDeleteNamespace, server, bounds
<1>6. CASE FailCall(c)
  BY <1>1, <1>6 DEF FailCall, Goto, Return, Deleting
<1>7. CASE ExpireWatch(c)
  BY <1>1, <1>7 DEF ExpireWatch
<1>8. CASE BeginCreate(c) \/ CreateStep(c) \/ BeginDelete(c) \/ AwaitDeleted(c) \/ LoseReply(c)
  <2>1. pc'[c] \in {"idle", "watchNamespace"} \cup CreateCalls
    BY <1>1, <1>8 DEF BeginCreate, CreateStep, CreateNamespace, CreateClusterRole, GetBinding,
       CreateBinding, UpdateBinding, OnConflict, CreateServiceAccount, BeginDelete,
       AwaitDeleted, LoseReply, Goto, Return, CreateCalls
  <2> QED
    BY <2>1 DEF Deleting, CreateCalls
<1>9. ASSUME NEW n \in Namespaces, FinalizeNamespace(n) PROVE Goal
  BY <1>1, <1>2, <1>9 DEF FinalizeNamespace, WatchInv, Deleting, bounds
<1>10. CASE UNCHANGED vars
  BY <1>1, <1>2, <1>10 DEF vars, server, bounds, WatchInv, Deleting
<1> QED
  BY <1>3, <1>4, <1>5, <1>6, <1>7, <1>8, <1>9, <1>10 DEF Next, DeleteStep

(* Where a namespace has one caller and no watch was closed early, Delete  *)
(* returns nil only when the namespace is gone (teardownNamespace of       *)
(* cluster.go).                                                            *)
THEOREM DeletedGone == Spec => DeletedMeansGone
<1> DEFINE P(c) == result[c] = "none" /\ result'[c] = "deleted" /\ expiries = 0 =>
                     namespaces[NamespaceOf[c]] = "absent"
<1>1. ASSUME IInv, WatchInv, Next, NEW c \in Alone PROVE P(c)
  <2> SUFFICES ASSUME result[c] = "none", result'[c] = "deleted", expiries = 0
               PROVE  namespaces[NamespaceOf[c]] = "absent"
    OBVIOUS
  <2>1. result \in [Callers -> Results] /\ c \in Callers
    BY <1>1 DEF IInv, TypeOK, CallerTypeOK, Alone
  <2>2. ASSUME NEW d \in Callers,
               \/ BeginCreate(d) \/ CreateStep(d) \/ BeginDelete(d) \/ WatchNamespace(d)
               \/ DeleteNamespace(d) \/ FailCall(d) \/ LoseReply(d) \/ ExpireWatch(d)
        PROVE  FALSE
    BY <2>1, <2>2
       DEF BeginCreate, CreateStep, CreateNamespace, CreateClusterRole, GetBinding,
           CreateBinding, UpdateBinding, CreateServiceAccount, BeginDelete, WatchNamespace,
           DeleteNamespace, FailCall, LoseReply, ExpireWatch, Return
  <2>3. ASSUME NEW n \in Namespaces, FinalizeNamespace(n) PROVE FALSE
    BY <2>3 DEF FinalizeNamespace
  <2>4. PICK d \in Callers : AwaitDeleted(d)
    BY <1>1, <2>2, <2>3 DEF Next, DeleteStep
  <2>5. pc[c] = "awaitDeleted" /\ watch[c] \in {"deleted", "closed"}
    BY <2>1, <2>4 DEF AwaitDeleted, Return
  <2> QED
    BY <1>1, <2>1, <2>5 DEF WatchInv, Deleting
<1>2. Init => WatchInv
  BY DEF Init, WatchInv, Deleting
<1>3. IInv /\ WatchInv /\ [Next]_vars => [\A c \in Alone : P(c)]_vars
  BY <1>1
<1> QED
  BY InitInv, InvStep, WatchStep, <1>2, <1>3, PTL DEF Spec, DeletedMeansGone

-----------------------------------------------------------------------------
(* The abstract phase follows the caller that moves.                       *)
LEMMA PhaseMoves ==
  ASSUME CallerTypeOK, NEW c \in Callers, NEW call, Goto(c, call)
  PROVE  grantPhase' = [grantPhase EXCEPT ![c] = PhaseOf(call)]
<1>1. pc' = [pc EXCEPT ![c] = call] /\ DOMAIN pc = Callers
  BY DEF CallerTypeOK, Goto
<1> QED
  BY <1>1 DEF grantPhase

LEMMA PhaseValues ==
  /\ \A call \in {"createNamespace", "createClusterRole", "getBinding"} \cup Writing :
       PhaseOf(call) = "pending"
  /\ PhaseOf("createServiceAccount") = "granted"
  /\ \A call \in {"idle"} \cup DeleteCalls : PhaseOf(call) = "idle"
BY DEF PhaseOf, CreateCalls, DeleteCalls, Writing

(* An append of the binding is the abstract grant, with or without its     *)
(* acknowledgement.                                                        *)
LEMMA AppendRefines ==
  ASSUME IInv, NEW c \in Callers, Appends(c)
  PROVE  GL!Grant(c) \/ GL!GrantUnacknowledged(c)
<1>1. grantPhase[c] = "pending"
  BY PhaseValues DEF Appends, grantPhase
<1>2. CASE pc' = [pc EXCEPT ![c] = "createServiceAccount"]
  <2>1. grantPhase' = [grantPhase EXCEPT ![c] = "granted"]
    BY <1>2, PhaseMoves, PhaseValues DEF Goto, IInv, TypeOK
  <2> QED
    BY <1>1, <2>1 DEF Appends, GL!Grant
<1>3. CASE pc' = [pc EXCEPT ![c] = "idle"]
  <2>1. grantPhase' = [grantPhase EXCEPT ![c] = "idle"]
    BY <1>3, PhaseMoves, PhaseValues DEF Goto, IInv, TypeOK
  <2> QED
    BY <1>1, <2>1 DEF Appends, GL!GrantUnacknowledged
<1> QED
  BY <1>2, <1>3 DEF Appends

(* A step of a caller that leaves the binding alone begins, fails or       *)
(* finishes a Create, or is not seen in the log.                           *)
LEMMA MoveRefines ==
  ASSUME IInv, NEW c \in Callers, UNCHANGED binding,
         NEW call, Goto(c, call),
         PhaseOf(pc[c]) = PhaseOf(call)
           \/ <<PhaseOf(pc[c]), PhaseOf(call)>> \in
                {<<"idle", "pending">>, <<"pending", "idle">>, <<"granted", "idle">>}
  PROVE  [GL!Next]_(GL!logVars)
<1>1. grantPhase' = [grantPhase EXCEPT ![c] = PhaseOf(call)]
  BY PhaseMoves DEF IInv, TypeOK
<1>2. grantPhase[c] = PhaseOf(pc[c])
  BY DEF grantPhase
<1>3. CASE PhaseOf(pc[c]) = PhaseOf(call)
  <2>1. grantPhase' = grantPhase
    BY <1>1, <1>2, <1>3 DEF grantPhase
  <2> QED
    BY <2>1 DEF GL!logVars
<1>4. CASE PhaseOf(pc[c]) = "idle" /\ PhaseOf(call) = "pending"
  BY <1>1, <1>2, <1>4 DEF GL!Next, GL!Begin
<1>5. CASE PhaseOf(pc[c]) = "pending" /\ PhaseOf(call) = "idle"
  BY <1>1, <1>2, <1>5 DEF GL!Next, GL!Fail
<1>6. CASE PhaseOf(pc[c]) = "granted" /\ PhaseOf(call) = "idle"
  BY <1>1, <1>2, <1>6 DEF GL!Next, GL!Finish
<1> QED
  BY <1>3, <1>4, <1>5, <1>6

LEMMA StepRefines == IInv /\ [Next]_vars => [GL!Next]_(GL!logVars)
<1> SUFFICES ASSUME IInv, [Next]_vars, UNCHANGED binding
             PROVE  [GL!Next]_(GL!logVars)
  BY BindingStep, AppendRefines DEF GL!Next
<1> USE DEF Return
<1>1. ASSUME NEW c \in Callers, BeginCreate(c) PROVE [GL!Next]_(GL!logVars)
  BY <1>1, MoveRefines, PhaseValues DEF BeginCreate
<1>2. ASSUME NEW c \in Callers, CreateNamespace(c) \/ CreateClusterRole(c)
      PROVE  [GL!Next]_(GL!logVars)
  BY <1>2, MoveRefines, PhaseValues DEF CreateNamespace, CreateClusterRole
<1>3. ASSUME NEW c \in Callers, GetBinding(c) PROVE [GL!Next]_(GL!logVars)
  BY <1>3, MoveRefines, PhaseValues DEF GetBinding, Writing
<1>4. ASSUME NEW c \in Callers, CreateBinding(c) \/ UpdateBinding(c)
      PROVE  [GL!Next]_(GL!logVars)
  <2>1. Goto(c, "getBinding") /\ pc[c] \in Writing
    BY <1>4 DEF CreateBinding, UpdateBinding, OnConflict, Writing, ApplyWriteBinding,
                IInv, TypeOK, ServerTypeOK, Bindings
  <2> QED
    BY <2>1, MoveRefines, PhaseValues
<1>5. ASSUME NEW c \in Callers, CreateServiceAccount(c) PROVE [GL!Next]_(GL!logVars)
  BY <1>5, MoveRefines, PhaseValues DEF CreateServiceAccount
<1>6. ASSUME NEW c \in Callers, BeginDelete(c) \/ DeleteStep(c) PROVE [GL!Next]_(GL!logVars)
  BY <1>6, MoveRefines, PhaseValues
     DEF BeginDelete, DeleteStep, WatchNamespace, DeleteNamespace, AwaitDeleted, DeleteCalls
<1>7. ASSUME NEW c \in Callers, FailCall(c) \/ LoseReply(c) PROVE [GL!Next]_(GL!logVars)
  BY <1>7, MoveRefines, PhaseValues DEF FailCall, LoseReply, CreateCalls, DeleteCalls, Writing
<1>8. ASSUME UNCHANGED pc PROVE [GL!Next]_(GL!logVars)
  BY <1>8 DEF GL!logVars, grantPhase
<1> QED
  BY <1>1, <1>2, <1>3, <1>4, <1>5, <1>6, <1>7, <1>8
     DEF Next, CreateStep, ExpireWatch, FinalizeNamespace, vars

(* The read-append-write loop behaves as one atomic append: Create         *)
(* implements GrantLog.                                                    *)
THEOREM Refinement == Spec => ImplementsGrantLog
<1>1. Init => GL!Init
  BY DEF Init, GL!Init, NoBinding, grantPhase, PhaseOf, CreateCalls
<1> QED
  BY InductiveInvariant, StepRefines, <1>1, PTL DEF Spec, ImplementsGrantLog, GL!Spec
=============================================================================
