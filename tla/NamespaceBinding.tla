-------------------------- MODULE NamespaceBinding --------------------------
(***************************************************************************)
(* The namespaces of ClusterEnvironments: the RoleBindings granted in the  *)
(* control plane to the agents, and the agents (a Deployment and a         *)
(* ConfigMap) pushed to the namespaces of the worker cluster.              *)
(*                                                                         *)
(* The ClusterEnvironment controller (worker x) is the only one to write   *)
(* them.  It keeps no record of what it bound: the namespaces to unbind    *)
(* are found again through the labels of the RoleBindings.  A namespace    *)
(* here is one of the application or of the service namespaces: the two    *)
(* kinds have roles, agents and lists of their own and never meet.  The    *)
(* ClusterEnvironments are of one worker cluster, whose namespaces they    *)
(* may share.  Faults and users may stop for good (calm).                  *)
(***************************************************************************)
EXTENDS Naturals, FiniteSets, Sequences

CONSTANTS
  Clusters,    \* names of ClusterEnvironments
  Namespaces,  \* namespaces, each of one kind
  Role,        \* per namespace, the parts of its agentRoles name: primaza, claimer
  Parts,       \* the parts between the dashes of ClusterEnvironment and namespace names
  NoCluster,   \* the owner of an agent that is not there
  Deletable,   \* ClusterEnvironments that may be deleted
  MaxVersion,  \* bound: writes of a ClusterEnvironment's spec
  MayFail,     \* calls may fail, secrets be lost, the manager be restarted
  Resyncs      \* the caches' periodic resync happens

ASSUME NamespaceAssumption ==
  /\ NoCluster \notin Clusters
  /\ \A n \in Namespaces : Role[n] \in Seq(STRING)
  /\ \A o \in Clusters \cup Namespaces : Parts[o] \in Seq(STRING)
  /\ MaxVersion \in Nat
  /\ MayFail \in BOOLEAN /\ Resyncs \in BOOLEAN

VARIABLES
  ce,          \* ClusterEnvironments in the API server
  cache,       \* the manager's cache of them
  queue,       \* work queue of the ClusterEnvironment controller
  x,           \* its worker
  secret,      \* whether a ClusterEnvironment's context secret is there
  bindings,    \* RoleBindings in the control plane
  deployment,  \* per namespace, the ClusterEnvironment that created the
  configMap,   \* agent's Deployment, and its ConfigMap
  calm         \* no more faults and no more edits

vars == <<ce, cache, queue, x, secret, bindings, deployment, configMap, calm>>
agents == <<deployment, configMap>>
outside == <<secret, calm>>
-----------------------------------------------------------------------------
Cluster ==
  [phase : {"absent", "new", "live", "terminating", "gone"},
   spec : SUBSET Namespaces, version : 0 .. MaxVersion]

NoObj == [phase |-> "absent", spec |-> {}, version |-> 0]

(* name is the RoleBinding's name; ce and ns are its labels. *)
RoleBinding(name, k, n) == [name |-> name, ce |-> k, ns |-> n]

Idle == [pc |-> "idle"]

Init ==
  /\ ce = [k \in Clusters |-> NoObj]
  /\ cache = ce
  /\ queue = {}
  /\ x = Idle
  /\ bindings = {}
  /\ deployment = [n \in Namespaces |-> NoCluster]
  /\ configMap = deployment
  /\ secret = [k \in Clusters |-> TRUE]
  /\ calm = FALSE

TypeOK ==
  /\ ce \in [Clusters -> Cluster]
  /\ cache \in [Clusters -> Cluster]
  /\ queue \subseteq Clusters
  /\ x.pc \in {"idle", "finalizer", "test", "bind", "unbind", "removeFinalizer"}
  /\ x.pc # "idle" => x.k \in Clusters /\ x.obj.phase \in {"new", "live", "terminating"}
  /\ \A b \in bindings : b.ce \in Clusters /\ b.ns \in Namespaces
  /\ deployment \in [Namespaces -> Clusters \cup {NoCluster}]
  /\ configMap \in [Namespaces -> Clusters \cup {NoCluster}]
  /\ secret \in [Clusters -> BOOLEAN]
  /\ calm \in BOOLEAN
-----------------------------------------------------------------------------
(* What may go wrong, until it no longer does. *)
Fails == MayFail /\ ~calm

Calm ==
  /\ ~calm
  /\ calm' = TRUE
  /\ UNCHANGED <<ce, cache, queue, x, secret, bindings, agents>>

(* Users: spec.applicationNamespaces and spec.serviceNamespaces. *)

CreateCluster(k) ==
  /\ ~calm /\ ce[k].phase = "absent"
  /\ \E spec \in SUBSET Namespaces :
       ce' = [ce EXCEPT ![k] = [NoObj EXCEPT !.phase = "new", !.spec = spec]]
  /\ UNCHANGED <<cache, queue, x, bindings, agents, outside>>

EditCluster(k) ==
  /\ ~calm /\ ce[k].phase \in {"new", "live"}
  /\ ce[k].version < MaxVersion
  /\ \E spec \in SUBSET Namespaces :
       ce' = [ce EXCEPT ![k].spec = spec, ![k].version = @ + 1]
  /\ UNCHANGED <<cache, queue, x, bindings, agents, outside>>

DeleteCluster(k) ==
  /\ ~calm /\ k \in Deletable
  /\ ce[k].phase \in {"new", "live"}
  /\ ce' = [ce EXCEPT ![k].phase = IF @ = "new" THEN "gone" ELSE "terminating"]
  /\ UNCHANGED <<cache, queue, x, bindings, agents, outside>>

(* The cluster context secret of a ClusterEnvironment is deleted. *)
DeleteSecret(k) ==
  /\ Fails /\ secret[k]
  /\ secret' = [secret EXCEPT ![k] = FALSE]
  /\ UNCHANGED <<ce, cache, queue, x, bindings, agents, calm>>

Sync(k) ==
  /\ cache[k] # ce[k]
  /\ cache' = [cache EXCEPT ![k] = ce[k]]
  /\ queue' = queue \cup {k}
  /\ UNCHANGED <<ce, x, bindings, agents, outside>>

(* The periodic resync queues what the cache holds. *)
Resync(k) ==
  /\ Resyncs
  /\ cache[k].phase \in {"new", "live", "terminating"}
  /\ k \notin queue
  /\ queue' = queue \cup {k}
  /\ UNCHANGED <<ce, cache, x, bindings, agents, outside>>
(* A restart of the manager. *)
Crash ==
  /\ Fails
  /\ cache' = ce
  /\ queue' = {k \in Clusters : ce[k].phase \in {"new", "live", "terminating"}}
  /\ x' = Idle
  /\ UNCHANGED <<ce, bindings, agents, outside>>
-----------------------------------------------------------------------------
(* The ClusterEnvironment controller. *)

Requeue == x' = Idle /\ queue' = queue \cup {x.k}

(* bindNamespaces then works on want, and unbindOrphanNamespaces on what   *)
(* it finds when the binding is done.                                      *)
ToBind(k, want) == [pc |-> "bind", k |-> k, obj |-> x.obj, want |-> want,
                    todo |-> want, err |-> FALSE]

(* Variant: a ClusterEnvironment that is not found is reconciled. *)
ReconcileMissing(k) ==
  /\ x.pc = "idle"
  /\ k \in queue
  /\ queue' = queue \ {k}
  /\ x' = [pc |-> IF cache[k].phase = "new" THEN "finalizer" ELSE "test",
           k |-> k, obj |-> cache[k]]
  /\ UNCHANGED <<ce, cache, bindings, agents, outside>>

(* Reconcile; a ClusterEnvironment that is being deleted is reconciled     *)
(* with no namespaces (finalizeClusterEnvironmentInNamespaces), unless its *)
(* cluster context secret cannot be read: a secret that is missing is no   *)
(* reason to keep the finalizer.                                           *)
Reconcile(k) ==
  /\ x.pc = "idle"
  /\ k \in queue
  /\ queue' = queue \ {k}
  /\ LET o == cache[k]
     IN  x' = CASE o.phase \in {"absent", "gone"} -> x
                [] o.phase = "new" -> [pc |-> "finalizer", k |-> k, obj |-> o]
                [] o.phase \in {"live", "terminating"} -> [pc |-> "test", k |-> k, obj |-> o]
  /\ UNCHANGED <<ce, cache, bindings, agents, outside>>

AddFinalizer ==
  /\ x.pc = "finalizer"
  /\ IF ce[x.k] = x.obj
     THEN /\ ce' = [ce EXCEPT ![x.k].phase = "live"]
          /\ x' = [x EXCEPT !.pc = "test", !.obj.phase = "live"]
          /\ UNCHANGED queue
     ELSE Requeue /\ UNCHANGED ce
  /\ UNCHANGED <<cache, bindings, agents, outside>>

(* The cluster context secret is read, the connection and the permissions  *)
(* are tested and the status is written, from the version that was read.   *)
(* Namespaces whose permissions do not pass are taken off the list.        *)
testNamespacesPermissions ==
  /\ x.pc = "test" /\ x.obj.phase = "live"
  /\ \/ /\ secret[x.k] /\ ce[x.k] = x.obj
        /\ \E failed \in IF Fails THEN SUBSET x.obj.spec ELSE {{}} :
             x' = ToBind(x.k, x.obj.spec \ failed)
        /\ UNCHANGED queue
     \/ (~secret[x.k] \/ ce[x.k] # x.obj \/ Fails) /\ Requeue
  /\ UNCHANGED <<ce, cache, bindings, agents, outside>>

finalizeClusterEnvironmentInNamespaces ==
  /\ x.pc = "test" /\ x.obj.phase = "terminating"
  /\ \/ secret[x.k] /\ x' = ToBind(x.k, {}) /\ UNCHANGED queue
     \/ ~secret[x.k] /\ x' = [x EXCEPT !.pc = "removeFinalizer"] /\ UNCHANGED queue
     \/ Fails /\ Requeue
  /\ UNCHANGED <<ce, cache, bindings, agents, outside>>

(* createRoleBinding names the binding after the role.  Names are joined   *)
(* with dashes, which they hold themselves: a name is the sequence of its  *)
(* parts, and says no longer where one of the joined names ends.           *)
bakeRoleBindingName(role, k, n) == role \o Parts[k] \o Parts[n]

(* A RoleBinding of that name that is there already is left as it is, with *)
(* its labels, and is no error.                                            *)
createRoleBinding(k, n) ==
  LET name == bakeRoleBindingName(Role[n], k, n)
  IN  bindings' = IF \E b \in bindings : b.name = name THEN bindings
                  ELSE bindings \cup {RoleBinding(name, k, n)}

(* PushAgent creates what is not there; either half may fail alone.        *)
Created(agent, n) == IF agent[n] = NoCluster THEN [agent EXCEPT ![n] = x.k] ELSE agent

(* bindNamespace: the RoleBinding, then the agent.  An error is kept and   *)
(* the next namespace is bound.                                            *)
bindNamespace(n) ==
  /\ x.pc = "bind" /\ n \in x.todo
  /\ \/ /\ createRoleBinding(x.k, n)
        /\ \E d, c \in {TRUE, ~Fails} :
             /\ deployment' = IF d THEN Created(deployment, n) ELSE deployment
             /\ configMap' = IF c THEN Created(configMap, n) ELSE configMap
             /\ x' = [x EXCEPT !.todo = @ \ {n}, !.err = @ \/ ~d \/ ~c]
     \/ /\ Fails
        /\ x' = [x EXCEPT !.todo = @ \ {n}, !.err = TRUE]
        /\ UNCHANGED <<bindings, agents>>
  /\ UNCHANGED <<ce, cache, queue, outside>>

(* getAuthorizedNamespaces goes by the labels of the RoleBindings. *)
getAuthorizedNamespaces(k) == {b.ns : b \in {r \in bindings : r.ce = k}}

(* Variant: only a deletion unbinds. *)
getOrphanNamespacesOnDeletion ==
  /\ x.pc = "bind" /\ x.todo = {}
  /\ x' = [x EXCEPT !.pc = "unbind",
                    !.todo = IF x.obj.phase = "live" THEN {}
                             ELSE getAuthorizedNamespaces(x.k)]
  /\ UNCHANGED <<ce, cache, queue, bindings, agents, outside>>

(* getOrphanNamespaces: what the labels say is bound and is not wanted.    *)
getOrphanNamespaces ==
  /\ x.pc = "bind" /\ x.todo = {}
  /\ \/ x' = [x EXCEPT !.pc = "unbind", !.todo = getAuthorizedNamespaces(x.k) \ x.want]
     \/ Fails /\ x' = [x EXCEPT !.pc = "unbind", !.todo = {}, !.err = TRUE]
  /\ UNCHANGED <<ce, cache, queue, bindings, agents, outside>>

(* Variant: the name createRoleBinding gave. *)
getRoleBindingNameOfRole(k, n) == bakeRoleBindingName(Role[n], k, n)

(* deleteRoleBinding names the binding after Primaza. *)
getRoleBindingName(k, n) == <<"primaza">> \o Parts[k] \o Parts[n]

deleteRoleBinding(k, n) ==
  bindings' = {b \in bindings : b.name # getRoleBindingName(k, n)}

(* DeleteAgent: either half may fail alone; one that is not there is fine. *)
Deleted(agent, n) == [agent EXCEPT ![n] = NoCluster]

(* unbindNamespace: the RoleBinding, if there is one of that name, then    *)
(* the agent, whoever created it.                                          *)
unbindNamespace(n) ==
  /\ x.pc = "unbind" /\ n \in x.todo
  /\ \/ /\ deleteRoleBinding(x.k, n)
        /\ \E d, c \in {TRUE, ~Fails} :
             /\ deployment' = IF d THEN Deleted(deployment, n) ELSE deployment
             /\ configMap' = IF c THEN Deleted(configMap, n) ELSE configMap
             /\ x' = [x EXCEPT !.todo = @ \ {n}, !.err = @ \/ ~d \/ ~c]
     \/ /\ Fails
        /\ x' = [x EXCEPT !.todo = @ \ {n}, !.err = TRUE]
        /\ UNCHANGED <<bindings, agents>>
  /\ UNCHANGED <<ce, cache, queue, outside>>

(* The end: errors are returned; then the status is written once more, or  *)
(* the finalizer removed.                                                  *)
FinishReconcile ==
  /\ x.pc = "unbind" /\ x.todo = {}
  /\ IF x.err \/ (x.obj.phase = "live" /\ ce[x.k] # x.obj) THEN Requeue
     ELSE /\ x' = IF x.obj.phase = "live" THEN Idle
                  ELSE [pc |-> "removeFinalizer", k |-> x.k, obj |-> x.obj]
          /\ UNCHANGED queue
  /\ UNCHANGED <<ce, cache, bindings, agents, outside>>

RemoveFinalizer ==
  /\ x.pc = "removeFinalizer"
  /\ ce' = [ce EXCEPT ![x.k].phase = "gone"]
  /\ x' = Idle
  /\ UNCHANGED <<cache, queue, bindings, agents, outside>>
-----------------------------------------------------------------------------
Worker ==
  \/ AddFinalizer \/ testNamespacesPermissions
  \/ finalizeClusterEnvironmentInNamespaces
  \/ \E n \in Namespaces : bindNamespace(n) \/ unbindNamespace(n)
  \/ getOrphanNamespaces \/ FinishReconcile \/ RemoveFinalizer

Next ==
  \/ \E k \in Clusters : \/ CreateCluster(k) \/ EditCluster(k) \/ DeleteCluster(k)
                         \/ DeleteSecret(k) \/ Sync(k) \/ Resync(k) \/ Reconcile(k)
  \/ Worker
  \/ Crash \/ Calm

Spec == Init /\ [][Next]_vars

(* The worker runs, watches deliver, the resync comes round, and the queue *)
(* is first in, first out.                                                 *)
Fairness ==
  /\ \A k \in Clusters : WF_vars(Sync(k)) /\ WF_vars(Resync(k)) /\ SF_vars(Reconcile(k))
  /\ WF_vars(Worker)

FairSpec == Spec /\ Fairness
-----------------------------------------------------------------------------
(* Properties. *)

(* An agent can always be found again: in a namespace with an agent's      *)
(* Deployment or ConfigMap, some RoleBinding carries the label of the      *)
(* ClusterEnvironment that created it, whichever calls failed before.  It  *)
(* takes names that do not collide (NamesDiffer).                          *)
AgentsAreFound ==
  \A n \in Namespaces :
    \A k \in {deployment[n], configMap[n]} \ {NoCluster} :
      n \in getAuthorizedNamespaces(k)

Wanted(n) == \E k \in Clusters : ce[k].phase = "live" /\ n \in ce[k].spec

Deployed(n) == deployment[n] # NoCluster /\ configMap[n] # NoCluster

Empty(n) == deployment[n] = NoCluster /\ configMap[n] = NoCluster

(* Whatever calls failed, however often the manager was restarted in the   *)
(* middle of binding or unbinding and whatever the specs were in between:  *)
(* once calls succeed and the specs are left alone, the agents are there   *)
(* in the namespaces ClusterEnvironments ask for, and nowhere else; only   *)
(* a ClusterEnvironment that lost its secret is left as it is.             *)
AgentsConverge ==
  \A n \in Namespaces :
    <>[](calm /\ (\A k \in Clusters : secret[k])
           => IF Wanted(n) THEN Deployed(n) ELSE Empty(n))
-----------------------------------------------------------------------------
(* No two RoleBindings are given one name, and the name a deletion looks   *)
(* for is given to none: ClusterEnvironment worker with namespace          *)
(* prod-apps and worker-prod with apps break the first, and                *)
(* ClusterEnvironments worker and claimer-worker the second.               *)
NamesDiffer ==
  \A k, l \in Clusters : \A m, n \in Namespaces :
    LET name == bakeRoleBindingName(Role[m], k, m)
    IN  /\ name = bakeRoleBindingName(Role[n], l, n) => k = l /\ m = n
        /\ name # getRoleBindingName(l, n)

(* The inductive invariant behind AgentsAreFound: a RoleBinding has the    *)
(* name its creation gave it, so none is deleted before its agent.         *)
FoundInv ==
  /\ deployment = [n \in Namespaces |-> deployment[n]]
  /\ configMap = [n \in Namespaces |-> configMap[n]]
  /\ \A b \in bindings : /\ b.ns \in Namespaces
                          /\ b.name = bakeRoleBindingName(Role[b.ns], b.ce, b.ns)
  /\ AgentsAreFound
-----------------------------------------------------------------------------
(* What the documentation says of namespaces, and the code does not do.    *)

(* When a ClusterEnvironment has been deleted, the permissions granted to  *)
(* the agents of its namespaces are removed.                               *)
PermissionsRemoved ==
  \A b \in bindings : ce[b.ce].phase # "gone"

(* Agents are pushed to the namespaces a ClusterEnvironment has, and stay. *)
AgentsPushed ==
  \A n \in Namespaces : <>[](Wanted(n) => Deployed(n))
=============================================================================
