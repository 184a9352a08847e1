----------------------------- MODULE ClassPush -----------------------------
(***************************************************************************)
(* ServiceClasses in the control plane and their copies in the service     *)
(* namespaces, from which the service agents work (ServiceDiscovery).      *)
(*                                                                         *)
(* Two workers of one manager write copies: the ServiceClass controller    *)
(* (w), when a class changes, and the ClusterEnvironment controller's pass *)
(* over its service namespaces (e), for all the classes its cache holds.   *)
(* Only the first deletes copies, with the class's finalizer.  The         *)
(* webhook, in the same manager, admits creations and updates of classes,  *)
(* the controller's own updates included, by what the cache holds.         *)
(*                                                                         *)
(* A watch delivers the changes of all classes in the order in which they  *)
(* were made.  An object's version counts the changes of its spec, over    *)
(* all objects that had its name.  One step is the code between two calls. *)
(***************************************************************************)
EXTENDS Matching

CONSTANTS
  Classes,      \* names of ServiceClasses
  Kind,         \* [Classes -> kind]: spec.resource, which is immutable
  Constraints,  \* [Classes -> values of spec.constraints]: Nil or lists
  Nil,          \* no spec.constraints
  Clusters,     \* ClusterEnvironments
  Environment,  \* [Clusters -> environment]: spec.environmentName
  Namespaces,   \* the list spec.serviceNamespaces, of every ClusterEnvironment
  MaxVersion,   \* [Classes -> Nat]: bound on the creations and edits of each
  MaxLag,       \* bound: changes the cache is behind when a user makes another
  MayFail,      \* calls may fail, and the manager be restarted
  Resyncs       \* the caches' periodic resync happens

ASSUME ClassAssumption ==
  /\ Namespaces \in Seq({Namespaces[i] : i \in DOMAIN Namespaces})
  /\ MaxVersion \in [Classes -> Nat] /\ MaxLag \in Nat
  /\ MayFail \in BOOLEAN /\ Resyncs \in BOOLEAN

VARIABLES
  class,    \* ServiceClasses in the API server
  cache,    \* the manager's cache of them
  watch,    \* changes of classes that are not in the cache yet
  queue,    \* work queue of the ServiceClass controller
  w,        \* its worker
  ce,       \* ClusterEnvironments in the API server
  ceCache,  \* those in the cache
  ceQueue,  \* work queue of the ClusterEnvironment controller
  e,        \* its worker
  copy,     \* the copies in the service namespaces
  calm      \* no more faults and no more changes by users

classVars == <<class, watch>>
ceVars == <<ce, ceCache, ceQueue>>
vars == <<class, cache, watch, queue, w, ce, ceCache, ceQueue, e, copy, calm>>
-----------------------------------------------------------------------------
Spaces == {Namespaces[i] : i \in DOMAIN Namespaces}

ServiceClass ==
  [phase : {"none", "new", "live", "terminating"},
   version : Nat, constraints : {Nil} \cup UNION {Constraints[c] : c \in Classes}]

Copy == [version : Nat, dying : BOOLEAN]
NoCopy == [version |-> 0, dying |-> FALSE]

(* What a worker still has to call: for the class and ClusterEnvironment of *)
(* job, the service namespaces from the i-th on, and then those of the jobs *)
(* in left.                                                                *)
Job == [k : Clusters, c : Classes, version : Nat]
Calls == [job : Job, left : SUBSET Job, i : DOMAIN Namespaces]

Idle == [pc |-> "idle"]

ClassSteps ==
  {Idle}
  \cup [pc : {"finalizer", "removeFinalizer"}, c : Classes, obj : ServiceClass]
  \cup [pc : {"push", "delete"}, c : Classes, obj : ServiceClass, calls : Calls,
        err : BOOLEAN]

EnvironmentSteps ==
  {Idle} \cup [pc : {"push"}, k : Clusters, calls : Calls, err : BOOLEAN]

Init ==
  /\ class = [c \in Classes |-> [phase |-> "none", version |-> 0, constraints |-> Nil]]
  /\ cache = class
  /\ watch = << >>
  /\ queue = {} /\ ceQueue = {}
  /\ w = Idle /\ e = Idle
  /\ ce = {} /\ ceCache = {}
  /\ copy = [c \in Classes |-> [k \in Clusters |-> [n \in Spaces |-> NoCopy]]]
  /\ calm = FALSE

TypeOK ==
  /\ class \in [Classes -> ServiceClass]
  /\ cache \in [Classes -> ServiceClass]
  /\ watch \in Seq([c : Classes, obj : ServiceClass])
  /\ queue \subseteq Classes
  /\ w \in ClassSteps
  /\ w.pc # "idle" => w.obj.phase # "none"
  /\ ce \subseteq Clusters /\ ceCache \subseteq ce /\ ceQueue \subseteq Clusters
  /\ e \in EnvironmentSteps
  /\ copy \in [Classes -> [Clusters -> [Spaces -> Copy]]]
  /\ calm \in BOOLEAN
-----------------------------------------------------------------------------
(* What may go wrong, until it no longer does. *)
Fails == MayFail /\ ~calm

Calm ==
  /\ ~calm
  /\ calm' = TRUE
  /\ UNCHANGED <<class, cache, watch, queue, w, ceVars, e, copy>>

(* A write of a class that the API server accepts. *)
Write(c, obj) ==
  /\ class' = [class EXCEPT ![c] = obj]
  /\ watch' = Append(watch, [c |-> c, obj |-> obj])

(* IsDuplicateClass: the cache holds another class for the same kind. *)
IsDuplicateClass(c) ==
  \E d \in Classes \ {c} : Kind[d] = Kind[c] /\ cache[d].phase # "none"

UserActs == ~calm /\ Len(watch) <= MaxLag

(* Variant: a class has its finalizer from the start. *)
CreateClassFinalized(c) ==
  /\ UserActs
  /\ class[c].phase = "none" /\ class[c].version < MaxVersion[c]
  /\ ~IsDuplicateClass(c)
  /\ \E constraints \in Constraints[c] :
       Write(c, [phase |-> "live", version |-> class[c].version + 1,
                 constraints |-> constraints])
  /\ UNCHANGED <<cache, queue, w, ceVars, e, copy, calm>>

(* ValidateCreate. *)
CreateClass(c) ==
  /\ UserActs
  /\ class[c].phase = "none" /\ class[c].version < MaxVersion[c]
  /\ ~IsDuplicateClass(c)
  /\ \E constraints \in Constraints[c] :
       Write(c, [phase |-> "new", version |-> class[c].version + 1,
                 constraints |-> constraints])
  /\ UNCHANGED <<cache, queue, w, ceVars, e, copy, calm>>

(* Variant: an update is not compared with the other classes. *)
ValidateUpdateAlone(c) == TRUE

(* ValidateUpdate, of every update of a class: the finalizers' too. *)
ValidateUpdate(c) == ~IsDuplicateClass(c)

EditClass(c) ==
  /\ UserActs
  /\ class[c].phase # "none" /\ class[c].version < MaxVersion[c]
  /\ ValidateUpdate(c)
  /\ \E constraints \in Constraints[c] :
       Write(c, [class[c] EXCEPT !.version = @ + 1, !.constraints = constraints])
  /\ UNCHANGED <<cache, queue, w, ceVars, e, copy, calm>>

(* ValidateDelete admits every deletion. *)
DeleteClass(c) ==
  /\ UserActs
  /\ class[c].phase \in {"new", "live"}
  /\ Write(c, [class[c] EXCEPT !.phase = IF @ = "new" THEN "none" ELSE "terminating"])
  /\ UNCHANGED <<cache, queue, w, ceVars, e, copy, calm>>

CreateCluster(k) ==
  /\ ~calm /\ k \notin ce
  /\ ce' = ce \cup {k}
  /\ UNCHANGED <<classVars, cache, queue, w, ceCache, ceQueue, e, copy, calm>>

(* The watches. *)
Sync ==
  /\ watch # << >>
  /\ cache' = [cache EXCEPT ![Head(watch).c] = Head(watch).obj]
  /\ queue' = queue \cup {Head(watch).c}
  /\ watch' = Tail(watch)
  /\ UNCHANGED <<class, w, ceVars, e, copy, calm>>

SyncCluster(k) ==
  /\ k \in ce \ ceCache
  /\ ceCache' = ceCache \cup {k}
  /\ ceQueue' = ceQueue \cup {k}
  /\ UNCHANGED <<classVars, cache, queue, w, ce, e, copy, calm>>

(* The periodic resync queues what the caches hold. *)
Resync ==
  /\ Resyncs
  /\ queue' = queue \cup {c \in Classes : cache[c].phase # "none"}
  /\ ceQueue' = ceQueue \cup ceCache
  /\ <<queue, ceQueue>>' # <<queue, ceQueue>>
  /\ UNCHANGED <<classVars, cache, w, ce, ceCache, e, copy, calm>>

(* A restart of the manager, which lists everything anew. *)
Crash ==
  /\ Fails
  /\ cache' = class /\ watch' = << >>
  /\ queue' = {c \in Classes : class[c].phase # "none"}
  /\ ceCache' = ce /\ ceQueue' = ce
  /\ w' = Idle /\ e' = Idle
  /\ UNCHANGED <<class, ce, copy, calm>>

(* The service agent of the namespace has taken its finalizer, if it had   *)
(* set one, from a copy that is being deleted.                             *)
Collect(c, k, n) ==
  /\ copy[c][k][n].dying
  /\ copy' = [copy EXCEPT ![c][k][n] = NoCopy]
  /\ UNCHANGED <<classVars, cache, queue, w, ceVars, e, calm>>
-----------------------------------------------------------------------------
(* Calls, one for each service namespace of a job, in order; jobs come in  *)
(* any order.  What is left to call is one of a set of choices, which is   *)
(* empty when nothing is.                                                  *)

First(jobs) ==
  {[job |-> j, left |-> jobs \ {j}, i |-> i] : j \in jobs, i \in {1} \cap DOMAIN Namespaces}

(* After a call: one that fails is the last one of its job. *)
Rest(calls, ok) ==
  IF ok /\ calls.i < Len(Namespaces) THEN {[calls EXCEPT !.i = @ + 1]}
                                    ELSE First(calls.left)

(* Variant: a copy that exists already is left alone. *)
PushServiceClassOnce(job, n) ==
  copy' = IF copy[job.c][job.k][n] = NoCopy
            THEN [copy EXCEPT ![job.c][job.k][n].version = job.version]
            ELSE copy

(* PushServiceClassToNamespaces, for one of them: CreateOrUpdate writes    *)
(* the spec, also of a copy that is being deleted.                         *)
PushServiceClassToNamespace(job, n) ==
  copy' = [copy EXCEPT ![job.c][job.k][n].version = job.version]

(* DeleteServiceClassFromNamespaces, for one of them. *)
DeleteServiceClassFromNamespace(job, n) ==
  copy' = [copy EXCEPT ![job.c][job.k][n].dying = TRUE]
-----------------------------------------------------------------------------
(* The ServiceClass controller. *)

Requeue == w' = Idle /\ queue' = queue \cup {w.c}

(* At step pc, with the rest of the calls to make: errors are joined, and  *)
(* returned when all that is to be tried has been; then the reconciliation *)
(* is over, or the finalizer due.  The work queue is q, without the class  *)
(* that a worker has just taken.                                           *)
Proceed(pc, c, obj, rest, err, q) ==
  \/ /\ \E calls \in rest :
          w' = [pc |-> pc, c |-> c, obj |-> obj, calls |-> calls, err |-> err]
     /\ queue' = q
  \/ /\ rest = {}
     /\ w' = IF err \/ pc = "push" THEN Idle
             ELSE [pc |-> "removeFinalizer", c |-> c, obj |-> obj]
     /\ queue' = IF err THEN q \cup {c} ELSE q

GetEnvironmentConstraints(constraints) == IF constraints = Nil THEN << >> ELSE constraints

(* filterClusterEnvironments, over the cached list of all of them. *)
filterClusterEnvironments(constraints) ==
  {k \in ceCache : Match(Environment[k], GetEnvironmentConstraints(constraints))}

(* reconcileEnvironments, or removeFromEnvironments when the class is      *)
(* being deleted, with the class as it was read.  The latter has nothing   *)
(* to do for a class without constraints.                                  *)
ListEnvironments(c, obj, q) ==
  LET op == IF obj.phase = "terminating" THEN "delete" ELSE "push"
      found == IF op = "delete" /\ obj.constraints = Nil THEN {}
               ELSE filterClusterEnvironments(obj.constraints)
      jobs == {[k |-> k, c |-> c, version |-> obj.version] : k \in found}
  IN  Proceed(op, c, obj, First(jobs), FALSE, q)

(* Variant: a class that is not found is reconciled. *)
ReconcileMissing(c) ==
  /\ w.pc = "idle" /\ c \in queue
  /\ IF cache[c].phase = "new"
     THEN /\ w' = [pc |-> "finalizer", c |-> c, obj |-> cache[c]]
          /\ queue' = queue \ {c}
     ELSE ListEnvironments(c, cache[c], queue \ {c})
  /\ UNCHANGED <<classVars, cache, ceVars, e, copy, calm>>

Reconcile(c) ==
  /\ w.pc = "idle" /\ c \in queue
  /\ \/ /\ cache[c].phase = "none"
        /\ queue' = queue \ {c} /\ UNCHANGED w
     \/ /\ cache[c].phase = "new"
        /\ w' = [pc |-> "finalizer", c |-> c, obj |-> cache[c]]
        /\ queue' = queue \ {c}
     \/ /\ cache[c].phase \in {"live", "terminating"}
        /\ ListEnvironments(c, cache[c], queue \ {c})
  /\ UNCHANGED <<classVars, cache, ceVars, e, copy, calm>>

AddFinalizer ==
  /\ w.pc = "finalizer"
  /\ IF class[w.c] = w.obj /\ ValidateUpdate(w.c)
     THEN LET obj == [w.obj EXCEPT !.phase = "live"]
          IN  Write(w.c, obj) /\ ListEnvironments(w.c, obj, queue)
     ELSE Requeue /\ UNCHANGED classVars
  /\ UNCHANGED <<cache, ceVars, e, copy, calm>>

(* The class worker goes on from its call, which has succeeded or not. *)
Called(ok) ==
  Proceed(w.pc, w.c, w.obj, Rest(w.calls, ok), w.err \/ ~ok, queue)

(* A call of reconcileEnvironments. *)
PushClass ==
  /\ w.pc = "push"
  /\ \/ PushServiceClassToNamespace(w.calls.job, Namespaces[w.calls.i]) /\ Called(TRUE)
     \/ Fails /\ Called(FALSE) /\ UNCHANGED copy
  /\ UNCHANGED <<classVars, cache, ceVars, e, calm>>

(* A call of removeFromEnvironments.  A copy that is not found is an error *)
(* like any other; when no client can be made, the rest is not tried.      *)
RemoveClass ==
  /\ w.pc = "delete"
  /\ LET job == w.calls.job
         n == Namespaces[w.calls.i]
         there == copy[job.c][job.k][n] # NoCopy
     IN  \/ there /\ DeleteServiceClassFromNamespace(job, n) /\ Called(TRUE)
         \/ (~there \/ Fails) /\ Called(FALSE) /\ UNCHANGED copy
         \/ Fails /\ w.calls.i = 1 /\ Requeue /\ UNCHANGED copy
  /\ UNCHANGED <<classVars, cache, ceVars, e, calm>>

(* Variant: the class without the finalizer is not written. *)
RemoveFinalizerUnwritten ==
  /\ w.pc = "removeFinalizer"
  /\ w' = Idle
  /\ UNCHANGED <<classVars, cache, queue, ceVars, e, copy, calm>>

RemoveFinalizer ==
  /\ w.pc = "removeFinalizer"
  /\ IF class[w.c] = w.obj /\ ValidateUpdate(w.c)
     THEN /\ Write(w.c, [w.obj EXCEPT !.phase = "none"])
          /\ w' = Idle /\ UNCHANGED queue
     ELSE Requeue /\ UNCHANGED classVars
  /\ UNCHANGED <<cache, ceVars, e, copy, calm>>
-----------------------------------------------------------------------------
(* The ClusterEnvironment controller's pass. *)

(* Classes of the cache that the pass pushes, being deleted or not; not    *)
(* those without constraints.                                              *)
Pushed(k) ==
  {c \in Classes : /\ cache[c].phase # "none" /\ cache[c].constraints # Nil
                   /\ Match(Environment[k], cache[c].constraints)}

PushAll(k, rest, err, q) ==
  \/ /\ \E calls \in rest : e' = [pc |-> "push", k |-> k, calls |-> calls, err |-> err]
     /\ ceQueue' = q
  \/ /\ rest = {}
     /\ e' = Idle
     /\ ceQueue' = IF err THEN q \cup {k} ELSE q

(* reconcileServiceNamespaces, which lists the classes once. *)
ReconcileEnvironment(k) ==
  /\ e.pc = "idle" /\ k \in ceQueue
  /\ LET jobs == {[k |-> k, c |-> c, version |-> cache[c].version] : c \in Pushed(k)}
     IN  PushAll(k, First(jobs), FALSE, ceQueue \ {k})
  /\ UNCHANGED <<classVars, cache, queue, w, ce, ceCache, copy, calm>>

(* One of its calls.  A namespace whose permissions fail is left out; the  *)
(* error AlreadyExists (the class worker has created the copy meanwhile)   *)
(* ends the job, as others do, but is not kept.                            *)
EnvironmentCall ==
  /\ e.pc = "push"
  /\ \/ /\ PushServiceClassToNamespace(e.calls.job, Namespaces[e.calls.i])
        /\ PushAll(e.k, Rest(e.calls, TRUE), e.err, ceQueue)
     \/ /\ Fails
        /\ \E skipped, exists \in BOOLEAN :
             PushAll(e.k, Rest(e.calls, skipped), e.err \/ ~(skipped \/ exists), ceQueue)
        /\ UNCHANGED copy
  /\ UNCHANGED <<classVars, cache, queue, w, ce, ceCache, calm>>
-----------------------------------------------------------------------------
ClassWorker == AddFinalizer \/ PushClass \/ RemoveClass \/ RemoveFinalizer

Collected ==
  \E c \in Classes, k \in Clusters, n \in Spaces : Collect(c, k, n)

Next ==
  \/ \E c \in Classes : CreateClass(c) \/ EditClass(c) \/ DeleteClass(c) \/ Reconcile(c)
  \/ \E k \in Clusters : CreateCluster(k) \/ SyncCluster(k) \/ ReconcileEnvironment(k)
  \/ Sync \/ Resync \/ Crash \/ Calm \/ Collected
  \/ ClassWorker \/ EnvironmentCall

Spec == Init /\ [][Next]_vars

(* Workers run, watches deliver, the resync comes round, agents let go of  *)
(* the copies that are deleted, and the queues are first in, first out.    *)
Fairness ==
  /\ WF_vars(Sync) /\ WF_vars(Resync) /\ WF_vars(Collected)
  /\ WF_vars(ClassWorker) /\ WF_vars(EnvironmentCall)
  /\ \A c \in Classes : SF_vars(Reconcile(c))
  /\ \A k \in Clusters : WF_vars(SyncCluster(k)) /\ SF_vars(ReconcileEnvironment(k))

FairSpec == Spec /\ Fairness
-----------------------------------------------------------------------------
(* Properties. *)

(* Of two classes for one kind, which the webhook may both have admitted   *)
(* when its cache was behind, only one is ever taken up by the controller: *)
(* no agent is made to report one resource under two classes that the      *)
(* control plane manages.                                                  *)
OneManaged ==
  \A c, d \in Classes :
    c # d /\ Kind[c] = Kind[d]
      => ~(class[c].phase \in {"live", "terminating"} /\ class[d].phase \in {"live", "terminating"})

Current(c) == [version |-> class[c].version, dying |-> FALSE]

(* The deletion of a class, worked on late, after a restart or from a      *)
(* cache that is behind, never takes the current copy from a class that    *)
(* was created again under the same name and that is being managed.        *)
LiveKeepsCopies ==
  [][\A c \in Classes, k \in Clusters, n \in Spaces :
       class[c].phase = "live" /\ copy[c][k][n] = Current(c)
         => ~copy'[c][k][n].dying]_vars

Concerned(c) ==
  {k \in ce : Match(Environment[k], GetEnvironmentConstraints(class[c].constraints))}

(* Once calls succeed and users stop, every service namespace of every     *)
(* ClusterEnvironment that a class admits has the class as it is now: what *)
(* either worker wrote from an old cache, what failed half way, and what   *)
(* was written to a copy that was about to go, has been made good.         *)
PushConverges ==
  <>[](calm => \A c \in Classes, n \in Spaces : \A k \in Concerned(c) :
                 class[c].phase = "live" => copy[c][k][n] = Current(c))

(* No other class for its kind is there, of which the webhook may have let *)
(* in a second one, to have the controller's updates rejected.             *)
Alone(c) == \A d \in Classes \ {c} : Kind[d] = Kind[c] => class[d].phase = "none"

(* The worker begins to remove a class and all the copies are in place. *)
FindsAllCopies(c) ==
  /\ w.pc = "delete" /\ w.c = c /\ ~w.err /\ w.calls.i = 1
  /\ {j.k : j \in w.calls.left \cup {w.calls.job}} = Concerned(c)
  /\ \A k \in Concerned(c), n \in Spaces :
       copy[c][k][n] # NoCopy /\ ~copy[c][k][n].dying

(* Missing copies are all that can keep a class from going.  A copy that   *)
(* is gone already, be it from the attempt before, fails the removal, and  *)
(* the ClusterEnvironment's pass brings copies back one by one: once calls *)
(* succeed, a class that stays for ever does so because from some time on  *)
(* every attempt begins with a copy missing or about to go.                *)
OnlyMissingCopiesBlock ==
  \A c \in Classes :
    <>[](calm /\ Alone(c) /\ class[c].phase = "terminating") => <>[]~FindsAllCopies(c)
-----------------------------------------------------------------------------
(* What the documentation says of classes, and the code does not do.       *)

(* A class that is being deleted goes, once calls succeed.                 *)
ClassDeletionEnds ==
  \A c \in Classes : <>[](calm /\ Alone(c) => class[c].phase # "terminating")

(* When a class has been deleted, its copies have been removed from the    *)
(* service namespaces of the ClusterEnvironments.                          *)
CopiesRemoved ==
  \A c \in Classes, k \in Clusters, n \in Spaces :
    <>[](calm /\ class[c].phase = "none" => copy[c][k][n] = NoCopy)

(* A class is refused when another one already manages its kind.           *)
OneClassPerKind ==
  \A c, d \in Classes :
    c # d /\ Kind[c] = Kind[d] => class[c].phase = "none" \/ class[d].phase = "none"
=============================================================================
