--------------------------- MODULE NamespaceProofs ---------------------------
(***************************************************************************)
(* The specification is type correct, and no failed call and no restart    *)
(* leaves an agent in a namespace that the labels of the RoleBindings do   *)
(* not lead to, unless two RoleBindings are given one name.                *)
(***************************************************************************)
EXTENDS NamespaceBinding, TLAPS
-----------------------------------------------------------------------------
(* Type correctness. *)

(* What the worker holds: a ClusterEnvironment that the cache had, and the *)
(* namespaces once it binds them.                                          *)
WorkerType ==
  /\ x.pc \in {"idle", "finalizer", "test", "bind", "unbind", "removeFinalizer"}
  /\ x.pc = "idle" => x = Idle
  /\ x.pc # "idle" => /\ x.k \in Clusters /\ x.obj \in Cluster
                      /\ x.obj.phase \in {"new", "live", "terminating"}
  /\ x.pc \in {"finalizer", "test", "removeFinalizer"} =>
       x = [pc |-> x.pc, k |-> x.k, obj |-> x.obj]
  /\ x.pc \in {"bind", "unbind"} =>
       x = [pc |-> x.pc, k |-> x.k, obj |-> x.obj, want |-> x.want,
            todo |-> x.todo, err |-> x.err]

(* The inductive invariant behind TypeOK. *)
NamespaceType == TypeOK /\ WorkerType

(* The phases, and the writes of one part of a ClusterEnvironment.         *)
Phases == {"absent", "new", "live", "terminating", "gone"}

LEMMA ClusterWrites ==
  ASSUME NEW o \in Cluster
  PROVE  /\ o.phase \in Phases /\ o.version \in Nat
         /\ \A phase \in Phases : [o EXCEPT !.phase = phase] \in Cluster
         /\ \A spec \in SUBSET Namespaces : [o EXCEPT !.spec = spec] \in Cluster
         /\ o.version < MaxVersion => [o EXCEPT !.version = @ + 1] \in Cluster
<1>1. o.version \in 0 .. MaxVersion
  BY DEF Cluster
<1>2. o.version \in Nat /\ (o.version < MaxVersion => o.version + 1 \in 0 .. MaxVersion)
  BY <1>1, NamespaceAssumption
<1>3. o.version < MaxVersion => [o EXCEPT !.version = @ + 1] \in Cluster
  BY <1>2 DEF Cluster
<1> QED BY <1>2, <1>3 DEF Cluster, Phases

LEMMA NoObjType == NoObj \in Cluster
<1>1. 0 \in 0 .. MaxVersion
  BY NamespaceAssumption
<1> QED BY <1>1 DEF NoObj, Cluster

LEMMA NamespaceTypeInit == Init => NamespaceType
<1> SUFFICES ASSUME Init PROVE NamespaceType
  OBVIOUS
<1>1. ce \in [Clusters -> Cluster] /\ cache \in [Clusters -> Cluster]
  BY NoObjType DEF Init
<1>2. x.pc = "idle" /\ WorkerType
  BY DEF Init, WorkerType, Idle
<1>3. /\ queue \subseteq Clusters
      /\ \A b \in bindings : b.ce \in Clusters /\ b.ns \in Namespaces
      /\ deployment \in [Namespaces -> Clusters \cup {NoCluster}]
      /\ configMap \in [Namespaces -> Clusters \cup {NoCluster}]
  BY DEF Init
<1>4. secret \in [Clusters -> BOOLEAN] /\ calm \in BOOLEAN
  BY DEF Init
<1> QED BY <1>1, <1>2, <1>3, <1>4 DEF NamespaceType, TypeOK

(* What users write and what the cache takes over is a ClusterEnvironment; *)
(* the worker is not concerned.                                            *)
LEMMA UserTypeStep ==
  ASSUME NamespaceType, NEW k \in Clusters,
         \/ CreateCluster(k) \/ EditCluster(k) \/ DeleteCluster(k)
         \/ DeleteSecret(k) \/ Sync(k) \/ Resync(k)
  PROVE  NamespaceType'
<1> USE NamespaceAssumption DEF NamespaceType, TypeOK
<1>0. x' = x /\ WorkerType'
  BY DEF CreateCluster, EditCluster, DeleteCluster, DeleteSecret, Sync, Resync, WorkerType
<1>1. CASE CreateCluster(k)
  <2> PICK spec \in SUBSET Namespaces :
        ce' = [ce EXCEPT ![k] = [NoObj EXCEPT !.phase = "new", !.spec = spec]]
    BY <1>1 DEF CreateCluster
  <2>1. [NoObj EXCEPT !.phase = "new", !.spec = spec] \in Cluster
    <3>1. [NoObj EXCEPT !.phase = "new"] \in Cluster
      BY NoObjType, ClusterWrites DEF Phases
    <3>2. [NoObj EXCEPT !.phase = "new", !.spec = spec]
            = [[NoObj EXCEPT !.phase = "new"] EXCEPT !.spec = spec]
      BY DEF NoObj
    <3> QED BY <3>1, <3>2, ClusterWrites
  <2>2. ce' \in [Clusters -> Cluster]
    BY <2>1
  <2> QED BY <1>0, <1>1, <2>2 DEF CreateCluster, agents, outside
<1>2. CASE EditCluster(k)
  <2> PICK spec \in SUBSET Namespaces :
        ce' = [ce EXCEPT ![k].spec = spec, ![k].version = @ + 1]
    BY <1>2 DEF EditCluster
  <2>1. [ce[k] EXCEPT !.spec = spec, !.version = ce[k].version + 1] \in Cluster
    <3>1. [ce[k] EXCEPT !.version = @ + 1] \in Cluster
      BY <1>2, ClusterWrites DEF EditCluster
    <3>2. [ce[k] EXCEPT !.spec = spec, !.version = ce[k].version + 1]
            = [[ce[k] EXCEPT !.version = @ + 1] EXCEPT !.spec = spec]
      BY DEF Cluster
    <3> QED BY <3>1, <3>2, ClusterWrites
  <2>2. ce' \in [Clusters -> Cluster]
    BY <2>1
  <2> QED BY <1>0, <1>2, <2>2 DEF EditCluster, agents, outside
<1>3. CASE DeleteCluster(k)
  <2>1. ce' \in [Clusters -> Cluster]
    BY <1>3, ClusterWrites DEF DeleteCluster, Phases
  <2> QED BY <1>0, <1>3, <2>1 DEF DeleteCluster, agents, outside
<1>4. CASE DeleteSecret(k) \/ Sync(k) \/ Resync(k)
  BY <1>0, <1>4 DEF DeleteSecret, Sync, Resync, agents, outside
<1> QED BY <1>1, <1>2, <1>3, <1>4

(* The worker takes up what the cache holds and is not missing, and adds   *)
(* or removes the finalizer of the ClusterEnvironment it took up.          *)
LEMMA ClusterTypeStep ==
  ASSUME NamespaceType,
         \/ \E k \in Clusters : Reconcile(k)
         \/ AddFinalizer \/ RemoveFinalizer \/ Crash \/ Calm
  PROVE  NamespaceType'
<1> USE NamespaceAssumption DEF NamespaceType, TypeOK
<1>1. ASSUME NEW k \in Clusters, Reconcile(k) PROVE NamespaceType'
  <2>1. cache[k] \in Cluster
    OBVIOUS
  <2>2. cache[k].phase \in {"absent", "new", "live", "terminating", "gone"}
    BY <2>1 DEF Cluster
  <2>3. WorkerType'
    BY <1>1, <2>1, <2>2 DEF Reconcile, WorkerType, Idle
  <2>4. /\ queue' \subseteq Clusters
        /\ UNCHANGED <<ce, cache, secret, bindings, deployment, configMap, calm>>
    BY <1>1 DEF Reconcile, agents, outside
  <2> QED BY <2>3, <2>4 DEF WorkerType
<1>2. CASE AddFinalizer
  <2>1. CASE ce[x.k] = x.obj
    <3>1. x.k \in Clusters /\ x.obj \in Cluster
      BY <1>2 DEF AddFinalizer, WorkerType
    <3>2. ce' \in [Clusters -> Cluster]
      BY <1>2, <2>1, <3>1, ClusterWrites DEF AddFinalizer, Phases
    <3>3. x' = [pc |-> "test", k |-> x.k, obj |-> [x.obj EXCEPT !.phase = "live"]]
      BY <1>2, <2>1 DEF AddFinalizer, WorkerType
    <3>4. [x.obj EXCEPT !.phase = "live"] \in Cluster
          /\ [x.obj EXCEPT !.phase = "live"].phase = "live"
      BY <3>1 DEF Cluster
    <3>5. WorkerType'
      BY <3>1, <3>3, <3>4 DEF WorkerType
    <3> QED BY <1>2, <2>1, <3>2, <3>5 DEF AddFinalizer, agents, outside, WorkerType
  <2>2. CASE ce[x.k] # x.obj
    BY <1>2, <2>2 DEF AddFinalizer, Requeue, Idle, agents, outside, WorkerType
  <2> QED BY <2>1, <2>2
<1>3. CASE RemoveFinalizer
  <2>1. x.k \in Clusters
    BY <1>3 DEF RemoveFinalizer, WorkerType
  <2>2. ce' \in [Clusters -> Cluster]
    BY <1>3, <2>1, ClusterWrites DEF RemoveFinalizer, Phases
  <2> QED BY <1>3, <2>2 DEF RemoveFinalizer, Idle, agents, outside, WorkerType
<1>4. CASE Crash
  BY <1>4 DEF Crash, Idle, agents, outside, WorkerType
<1>5. CASE Calm
  BY <1>5 DEF Calm, agents, WorkerType
<1> QED BY <1>1, <1>2, <1>3, <1>4, <1>5

(* The steps from the test to the end of the unbinding write nothing of    *)
(* the ClusterEnvironment; they keep what the worker took up.              *)
LEMMA WorkerTypeStep ==
  ASSUME NamespaceType,
         \/ testNamespacesPermissions \/ finalizeClusterEnvironmentInNamespaces
         \/ getOrphanNamespaces \/ FinishReconcile
  PROVE  NamespaceType'
<1> USE DEF NamespaceType, TypeOK
<1>1. CASE testNamespacesPermissions
  BY <1>1 DEF testNamespacesPermissions, ToBind, Requeue, Idle, agents, outside, WorkerType
<1>2. CASE finalizeClusterEnvironmentInNamespaces
  BY <1>2 DEF finalizeClusterEnvironmentInNamespaces, ToBind, Requeue, Idle, agents,
              outside, WorkerType
<1>3. CASE getOrphanNamespaces
  BY <1>3 DEF getOrphanNamespaces, agents, outside, WorkerType
<1>4. CASE FinishReconcile
  BY <1>4 DEF FinishReconcile, Requeue, Idle, agents, outside, WorkerType
<1> QED BY <1>1, <1>2, <1>3, <1>4

(* A RoleBinding and an agent are of the ClusterEnvironment the worker     *)
(* took up, and of the namespace it binds or unbinds.                      *)
LEMMA BindTypeStep ==
  ASSUME NamespaceType, NEW n \in Namespaces, bindNamespace(n) \/ unbindNamespace(n)
  PROVE  NamespaceType'
<1> USE DEF NamespaceType, TypeOK
<1>1. /\ x.k \in Clusters
      /\ UNCHANGED <<ce, cache, queue, secret, calm>>
  BY DEF bindNamespace, unbindNamespace, WorkerType, outside
<1>2. \A b \in bindings' : b.ce \in Clusters /\ b.ns \in Namespaces
  BY <1>1 DEF bindNamespace, unbindNamespace, createRoleBinding, deleteRoleBinding,
              RoleBinding, agents
<1>3. /\ deployment' \in [Namespaces -> Clusters \cup {NoCluster}]
      /\ configMap' \in [Namespaces -> Clusters \cup {NoCluster}]
  BY <1>1 DEF bindNamespace, unbindNamespace, Created, Deleted, agents
<1>4. \E err : x' = [x EXCEPT !.todo = @ \ {n}, !.err = err]
  BY DEF bindNamespace, unbindNamespace
<1>5. WorkerType'
  BY <1>4 DEF WorkerType, bindNamespace, unbindNamespace
<1> QED BY <1>1, <1>2, <1>3, <1>5 DEF WorkerType

(* Type correctness: whatever fails and whatever is edited meanwhile, the  *)
(* worker holds a ClusterEnvironment that exists, and RoleBindings and     *)
(* agents are of ClusterEnvironments and namespaces of the system.         *)
THEOREM NamespaceTypeCorrect == Spec => []TypeOK
<1>1. NamespaceType /\ [Next]_vars => NamespaceType'
  <2> SUFFICES ASSUME NamespaceType, [Next]_vars PROVE NamespaceType'
    OBVIOUS
  <2>1. CASE UNCHANGED vars
    BY <2>1 DEF vars, NamespaceType, TypeOK, WorkerType
  <2> QED BY <2>1, UserTypeStep, ClusterTypeStep, WorkerTypeStep, BindTypeStep
             DEF Next, Worker
<1>2. NamespaceType => TypeOK
  BY DEF NamespaceType
<1> QED BY <1>1, <1>2, NamespaceTypeInit, PTL DEF Spec
-----------------------------------------------------------------------------
(* Agents are found again. *)

(* Before anything is reconciled there is no agent. *)
LEMMA FoundInit == Init => FoundInv
  BY DEF Init, FoundInv, AgentsAreFound

(* An agent half that is created where there was none belongs to the       *)
(* worker's ClusterEnvironment; one that is deleted belongs to nobody.     *)
LEMMA AgentHalves ==
  ASSUME NEW agent, NEW n \in Namespaces,
         agent = [m \in Namespaces |-> agent[m]]
  PROVE  /\ Created(agent, n) = [m \in Namespaces |-> Created(agent, n)[m]]
         /\ Deleted(agent, n) = [m \in Namespaces |-> Deleted(agent, n)[m]]
         /\ \A m \in Namespaces :
              /\ Created(agent, n)[m] = agent[m] \/ (m = n /\ Created(agent, n)[m] = x.k)
              /\ Deleted(agent, n)[m] \in {agent[m], NoCluster}
  BY DEF Created, Deleted

(* Binding a namespace authorizes it before its agent is created: a        *)
(* RoleBinding that has the name already is the namespace's own.           *)
LEMMA BindStep ==
  ASSUME NamesDiffer, TypeOK, FoundInv, NEW n \in Namespaces, bindNamespace(n)
  PROVE  FoundInv'
<1>1. CASE UNCHANGED <<bindings, agents>>
  BY <1>1 DEF FoundInv, AgentsAreFound, getAuthorizedNamespaces, agents
<1>2. CASE /\ createRoleBinding(x.k, n)
           /\ deployment' \in {Created(deployment, n), deployment}
           /\ configMap' \in {Created(configMap, n), configMap}
  <2> DEFINE name == bakeRoleBindingName(Role[n], x.k, n)
             new == RoleBinding(name, x.k, n)
  <2>0. /\ x.k \in Clusters
        /\ \A b \in bindings : b.name = name => b.ce = x.k /\ b.ns = n
    <3>1. x.k \in Clusters
      BY DEF TypeOK, bindNamespace
    <3>2. \A b \in bindings : /\ b.ce \in Clusters /\ b.ns \in Namespaces
                              /\ b.name = bakeRoleBindingName(Role[b.ns], b.ce, b.ns)
      BY DEF TypeOK, FoundInv
    <3> QED BY <3>1, <3>2 DEF NamesDiffer
  <2>1. /\ bindings \subseteq bindings'
        /\ bindings' \subseteq bindings \cup {new}
        /\ \E b \in bindings' : b.name = name
    <3>1. bindings' = IF \E b \in bindings : b.name = name THEN bindings
                      ELSE bindings \cup {new}
      BY <1>2 DEF createRoleBinding
    <3>2. new.name = name
      BY DEF RoleBinding
    <3> HIDE DEF name, new
    <3>3. CASE \E b \in bindings : b.name = name
      BY <3>1, <3>3
    <3>4. CASE ~\E b \in bindings : b.name = name
      BY <3>1, <3>2, <3>4
    <3> QED BY <3>3, <3>4
  <2>2. /\ deployment' = [m \in Namespaces |-> deployment'[m]]
        /\ configMap' = [m \in Namespaces |-> configMap'[m]]
        /\ \A m \in Namespaces :
             /\ deployment'[m] = deployment[m] \/ (m = n /\ deployment'[m] = x.k)
             /\ configMap'[m] = configMap[m] \/ (m = n /\ configMap'[m] = x.k)
    BY <1>2, AgentHalves DEF FoundInv
  <2>3. /\ new.ce = x.k /\ new.ns = n
        /\ new.name = name
    BY DEF RoleBinding
  <2>4. \A b \in bindings' : /\ b.ns \in Namespaces
                             /\ b.name = bakeRoleBindingName(Role[b.ns], b.ce, b.ns)
    BY <2>1, <2>3 DEF FoundInv
  <2>5. AgentsAreFound'
    <3> SUFFICES ASSUME NEW m \in Namespaces,
                        NEW k \in {deployment'[m], configMap'[m]} \ {NoCluster}
                 PROVE  \E b \in bindings' : b.ce = k /\ b.ns = m
      BY DEF AgentsAreFound, getAuthorizedNamespaces
    <3>1. CASE m = n /\ k = x.k
      BY <3>1, <2>0, <2>1, <2>3
    <3>2. CASE k \in {deployment[m], configMap[m]}
      BY <3>2, <2>1 DEF FoundInv, AgentsAreFound, getAuthorizedNamespaces
    <3> QED BY <3>1, <3>2, <2>2
  <2> QED BY <2>2, <2>4, <2>5 DEF FoundInv
<1> QED BY <1>1, <1>2 DEF bindNamespace

(* Unbinding a namespace deletes no RoleBinding that creation named.       *)
LEMMA UnbindStep ==
  ASSUME NamesDiffer, TypeOK, FoundInv, NEW n \in Namespaces, unbindNamespace(n)
  PROVE  FoundInv'
<1>1. CASE UNCHANGED <<bindings, agents>>
  BY <1>1 DEF FoundInv, AgentsAreFound, getAuthorizedNamespaces, agents
<1>2. CASE /\ deleteRoleBinding(x.k, n)
           /\ deployment' \in {Deleted(deployment, n), deployment}
           /\ configMap' \in {Deleted(configMap, n), configMap}
  <2>1. \A b \in bindings : b.name # getRoleBindingName(x.k, n)
    <3>1. x.k \in Clusters
      BY DEF TypeOK, unbindNamespace
    <3>2. \A b \in bindings : /\ b.ce \in Clusters /\ b.ns \in Namespaces
                              /\ b.name = bakeRoleBindingName(Role[b.ns], b.ce, b.ns)
      BY DEF TypeOK, FoundInv
    <3> QED BY <3>1, <3>2 DEF NamesDiffer
  <2>2. bindings' = bindings
    BY <1>2, <2>1 DEF deleteRoleBinding
  <2>3. /\ deployment' = [m \in Namespaces |-> deployment'[m]]
        /\ configMap' = [m \in Namespaces |-> configMap'[m]]
        /\ \A m \in Namespaces : /\ deployment'[m] \in {deployment[m], NoCluster}
                                 /\ configMap'[m] \in {configMap[m], NoCluster}
    BY <1>2, AgentHalves DEF FoundInv
  <2>4. AgentsAreFound'
    BY <2>2, <2>3 DEF FoundInv, AgentsAreFound, getAuthorizedNamespaces
  <2> QED BY <2>2, <2>3, <2>4 DEF FoundInv
<1> QED BY <1>1, <1>2 DEF unbindNamespace

(* No other step writes RoleBindings or agents.                            *)
LEMMA FoundStep ==
  ASSUME NamesDiffer
  PROVE  TypeOK /\ FoundInv /\ [Next]_vars => FoundInv'
<1> SUFFICES ASSUME TypeOK, FoundInv, [Next]_vars PROVE FoundInv'
  OBVIOUS
<1>1. ASSUME NEW n \in Namespaces, bindNamespace(n) PROVE FoundInv'
  BY <1>1, BindStep
<1>2. ASSUME NEW n \in Namespaces, unbindNamespace(n) PROVE FoundInv'
  BY <1>2, UnbindStep
<1>3. ASSUME UNCHANGED <<bindings, deployment, configMap>> PROVE FoundInv'
  BY <1>3 DEF FoundInv, AgentsAreFound, getAuthorizedNamespaces
<1>4. CASE Worker
  BY <1>1, <1>2, <1>3, <1>4
     DEF Worker, AddFinalizer, testNamespacesPermissions,
         finalizeClusterEnvironmentInNamespaces, getOrphanNamespaces,
         FinishReconcile, RemoveFinalizer, agents
<1>5. ASSUME NEW k \in Clusters,
             \/ CreateCluster(k) \/ EditCluster(k) \/ DeleteCluster(k)
             \/ DeleteSecret(k) \/ Sync(k) \/ Resync(k) \/ Reconcile(k)
      PROVE  FoundInv'
  BY <1>3, <1>5 DEF CreateCluster, EditCluster, DeleteCluster, DeleteSecret,
                    Sync, Resync, Reconcile, agents
<1>6. CASE Crash \/ Calm \/ UNCHANGED vars
  BY <1>3, <1>6 DEF Crash, Calm, vars, agents
<1> QED BY <1>4, <1>5, <1>6 DEF Next

(* For any ClusterEnvironments and namespaces whose RoleBindings' names do *)
(* not collide, whatever calls fail: an agent that was pushed is found     *)
(* again by the ClusterEnvironment that pushed it, when it has to be       *)
(* unbound.                                                                *)
THEOREM AgentsFound ==
  ASSUME NamesDiffer
  PROVE  Spec => []AgentsAreFound
<1>1. FoundInv => AgentsAreFound
  BY DEF FoundInv
<1>2. TypeOK /\ FoundInv /\ [Next]_vars => FoundInv'
  BY FoundStep
<1> QED BY <1>1, <1>2, FoundInit, NamespaceTypeCorrect, PTL DEF Spec
=============================================================================
