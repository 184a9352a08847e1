------------------------------ MODULE Catalog ------------------------------
(***************************************************************************)
(* The ServiceCatalogs: one per environment in the control plane, listing  *)
(* the services that may be claimed from it, with a copy in the            *)
(* application namespaces of every ClusterEnvironment of the environment.  *)
(*                                                                         *)
(* Three controllers keep them: the RegisteredService controller (worker   *)
(* v) adds and removes entries, the ClusterEnvironment controller (worker  *)
(* x) creates, deletes and pushes catalogs, the ServiceCatalog controller  *)
(* (worker u) pushes them.  Objects and caches are those of                *)
(* ClaimLifecycle: reads are of a cache that lags, and the API server      *)
(* rejects an update made from a version that is not the current one.      *)
(***************************************************************************)
EXTENDS Matching, SequencesExt

CONSTANTS
  Services,      \* names of RegisteredServices
  Environments,  \* names of environments, and so of catalogs
  Clusters,      \* names of ClusterEnvironments
  EnvOf,         \* [Clusters -> Environments]: spec.environmentName
  Constraints,   \* [Services -> [{0, 1} -> Seq(constraint)]]: by revision
  Editable,      \* services whose spec is edited (once)
  Labelled,      \* services claimed by label
  Removable,     \* services and clusters that may be deleted
  MaxClaims,     \* bound: how often services are claimed
  MayFail,       \* calls to other clusters may fail
  Resyncs        \* the caches' periodic resync happens

ASSUME CatalogAssumption ==
  /\ IsFiniteSet(Services)
  /\ EnvOf \in [Clusters -> Environments]
  /\ MaxClaims \in Nat
  /\ MayFail \in BOOLEAN /\ Resyncs \in BOOLEAN
  /\ Services \cap Environments = {} /\ Services \cap Clusters = {}
  /\ Environments \cap Clusters = {}

VARIABLES
  svc,      \* RegisteredServices: state and revision of the spec
  cat,      \* ServiceCatalogs
  ce,       \* ClusterEnvironments
  cache,    \* the manager's cache of the three, as of some earlier moment
  stale,    \* names of the objects whose cached version is not current
  queue,    \* work queues of the three controllers
  v, x, u,  \* their workers
  ns,       \* copies in the application namespaces of each cluster
  claims    \* how many claims have been made (for the bound)

vars == <<svc, cat, ce, cache, stale, queue, v, x, u, ns, claims>>
-----------------------------------------------------------------------------
Names == Services \cup Environments \cup Clusters

(* "absent" is not yet created, "gone" deleted: names are not used again.  *)
Missing == {"absent", "gone"}
Service == [state : Missing \cup {"", "Available", "Claimed"}, rev : {0, 1}]
Entry == [name : Services, rev : {0, 1}]

(* spec.services and spec.claimedByLabels, of a catalog or of its copy.    *)
ServiceCatalog ==
  [exists : BOOLEAN, services : Seq(Entry), claimedBy : SUBSET Services]
NoCatalog == [exists |-> FALSE, services |-> << >>, claimedBy |-> {}]

(* "new" is a ClusterEnvironment without its finalizer. *)
ClusterState == Missing \cup {"new", "live", "terminating"}

Idle == [pc |-> "idle"]

Init ==
  /\ svc = [s \in Services |-> [state |-> "absent", rev |-> 0]]
  /\ cat = [e \in Environments |-> NoCatalog]
  /\ ce = [k \in Clusters |-> "absent"]
  /\ cache = [svc |-> svc, cat |-> cat, ce |-> ce]
  /\ stale = {} /\ queue = {}
  /\ v = Idle /\ x = Idle /\ u = Idle
  /\ ns = [k \in Clusters |-> NoCatalog]
  /\ claims = 0

TypeOK ==
  /\ svc \in [Services -> Service]
  /\ cat \in [Environments -> ServiceCatalog]
  /\ \A e \in Environments : cat[e].exists \/ cat[e] = NoCatalog
  /\ ce \in [Clusters -> ClusterState]
  /\ stale \subseteq Names /\ queue \subseteq Names
  /\ v.pc \in {"idle", "list", "catalogs"}
  /\ x.pc \in {"idle", "finalizer", "status", "get", "create", "getAgain", "push",
               "related", "removeFinalizer"}
  /\ u.pc \in {"idle", "push"}
  /\ claims \in 0 .. MaxClaims

(* A write of an object by someone else than the RegisteredService worker: *)
(* its copy of the object is no longer the current version.                *)
StoreService(s, o) ==
  /\ svc' = [svc EXCEPT ![s] = o]
  /\ stale' = stale \cup {s}
  /\ v' = IF v.pc # "idle" /\ v.s = s THEN [v EXCEPT !.fresh = FALSE] ELSE v

StoreCatalog(e, sc) ==
  /\ cat' = [cat EXCEPT ![e] = sc]
  /\ stale' = stale \cup {e}
  /\ v' = IF v.pc = "catalogs" THEN [v EXCEPT !.current = @ \ {e}] ELSE v

StoreCluster(k, o) ==
  /\ ce' = [ce EXCEPT ![k] = o]
  /\ stale' = stale \cup {k}
-----------------------------------------------------------------------------
(* Users, and the ServiceClaim controller. *)

CreateService(s) ==
  /\ svc[s].state = "absent"
  /\ StoreService(s, [svc[s] EXCEPT !.state = ""])
  /\ UNCHANGED <<cat, ce, cache, queue, x, u, ns, claims>>

EditService(s) ==
  /\ s \in Editable
  /\ svc[s].state \notin Missing /\ svc[s].rev = 0
  /\ StoreService(s, [svc[s] EXCEPT !.rev = 1])
  /\ UNCHANGED <<cat, ce, cache, queue, x, u, ns, claims>>

DeleteService(s) ==
  /\ s \in Removable
  /\ svc[s].state \notin Missing
  /\ StoreService(s, [svc[s] EXCEPT !.state = "gone"])
  /\ UNCHANGED <<cat, ce, cache, queue, x, u, ns, claims>>

(* changeServiceState of the ServiceClaim controller, see ClaimLifecycle.  *)
changeServiceState(s) ==
  /\ \/ /\ svc[s].state = "Available"
        /\ claims < MaxClaims
        /\ claims' = claims + 1
        /\ StoreService(s, [svc[s] EXCEPT !.state = "Claimed"])
     \/ /\ svc[s].state = "Claimed"
        /\ StoreService(s, [svc[s] EXCEPT !.state = "Available"])
        /\ UNCHANGED claims
  /\ UNCHANGED <<cat, ce, cache, queue, x, u, ns>>

CreateCluster(k) ==
  /\ ce[k] = "absent"
  /\ StoreCluster(k, "new")
  /\ UNCHANGED <<svc, cat, cache, queue, v, x, u, ns, claims>>

DeleteCluster(k) ==
  /\ k \in Removable
  /\ \/ ce[k] = "new" /\ StoreCluster(k, "gone")
     \/ ce[k] = "live" /\ StoreCluster(k, "terminating")
  /\ UNCHANGED <<svc, cat, cache, queue, v, x, u, ns, claims>>
-----------------------------------------------------------------------------
(* The manager's cache: none of the three controllers filters its events.  *)
Sync(n) ==
  /\ n \in stale
  /\ cache' = [svc |-> IF n \in Services THEN [cache.svc EXCEPT ![n] = svc[n]] ELSE cache.svc,
               cat |-> IF n \in Environments THEN [cache.cat EXCEPT ![n] = cat[n]] ELSE cache.cat,
               ce  |-> IF n \in Clusters THEN [cache.ce EXCEPT ![n] = ce[n]] ELSE cache.ce]
  /\ stale' = stale \ {n}
  /\ queue' = queue \cup {n}
  /\ UNCHANGED <<svc, cat, ce, v, x, u, ns, claims>>

(* The periodic resync queues what the cache holds. *)
Resync(n) ==
  /\ Resyncs
  /\ \/ n \in Services /\ cache.svc[n].state \notin Missing
     \/ n \in Environments /\ cache.cat[n].exists
     \/ n \in Clusters /\ cache.ce[n] \notin Missing
  /\ n \notin queue
  /\ queue' = queue \cup {n}
  /\ UNCHANGED <<svc, cat, ce, cache, stale, v, x, u, ns, claims>>
-----------------------------------------------------------------------------
(* The RegisteredService controller: its Reconcile, for services without a *)
(* health check.                                                           *)

(* ServiceInCatalog: the index of the first entry with the name, 0 if      *)
(* there is none.                                                          *)
ServiceInCatalog(sc, name) ==
  LET at == {i \in DOMAIN sc.services : sc.services[i].name = name}
  IN  IF at = {} THEN 0 ELSE CHOOSE i \in at : \A j \in at : i <= j

ReconcileService(s) ==
  /\ v.pc = "idle"
  /\ s \in queue
  /\ queue' = queue \ {s}
  /\ LET o == cache.svc[s]
     IN  v' = [pc |-> "list", s |-> s, rev |-> o.rev, fresh |-> s \notin stale,
               state |-> IF o.state \in {"gone", "Claimed"} THEN o.state
                                                            ELSE "Available"]
  /\ UNCHANGED <<svc, cat, ce, cache, stale, x, u, ns, claims>>

(* getServiceCatalogs: the catalogs are listed once, then gone through by  *)
(* their copies.  Of a copy the worker uses whether it lists the service   *)
(* and whether it is the current version.                                  *)
getServiceCatalogs ==
  /\ v.pc = "list"
  /\ LET listed == {e \in Environments : cache.cat[e].exists}
     IN  v' = [pc |-> "catalogs", s |-> v.s, rev |-> v.rev, fresh |-> v.fresh,
               state |-> v.state, todo |-> listed, current |-> listed \ stale,
               has |-> {e \in listed : ServiceInCatalog(cache.cat[e], v.s) # 0},
               err |-> FALSE]
  /\ UNCHANGED <<svc, cat, ce, cache, stale, queue, x, u, ns, claims>>

(* Variant: the entry is patched in or out, whatever the version.          *)
UpdateCatalogPatched(e, sc) ==
  /\ cat' = [cat EXCEPT ![e] = sc]
  /\ stale' = stale \cup {e}
  /\ v' = [v EXCEPT !.todo = @ \ {e}]

(* One round of the loop, that leaves catalog e as sc; an error does not   *)
(* end the loop.                                                           *)
UpdateCatalog(e, sc) ==
  \/ /\ e \in v.current
     /\ cat' = [cat EXCEPT ![e] = sc]
     /\ stale' = stale \cup {e}
     /\ v' = [v EXCEPT !.todo = @ \ {e}]
  \/ /\ e \notin v.current
     /\ v' = [v EXCEPT !.todo = @ \ {e}, !.err = TRUE]
     /\ UNCHANGED <<cat, stale>>

SkipCatalog(e) ==
  /\ v' = [v EXCEPT !.todo = @ \ {e}]
  /\ UNCHANGED <<cat, stale>>

addServiceToCatalog(e) ==
  IF e \in v.has THEN SkipCatalog(e)
  ELSE UpdateCatalog(e, [cat[e] EXCEPT !.services =
                            Append(@, [name |-> v.s, rev |-> v.rev])])

(* The entry goes; if the list of claims has one that names the service    *)
(* and selects applications by label it is kept under claimedByLabels.     *)
removeServiceFromCatalog(e) ==
  IF e \notin v.has THEN SkipCatalog(e)
  ELSE \E labelled \in {v.s \in Labelled, FALSE} :
         UpdateCatalog(e,
           [cat[e] EXCEPT
              !.services = RemoveAt(@, ServiceInCatalog(cat[e], v.s)),
              !.claimedBy = IF labelled THEN @ \cup {v.s} ELSE @])

(* Variant: only the deletion of a service takes it out of the catalogs.   *)
reconcileCatalogsClaimedKept ==
  /\ v.pc = "catalogs"
  /\ \E e \in v.todo :
       IF v.state = "gone" THEN removeServiceFromCatalog(e)
       ELSE IF v.state = "Available" /\ Match(e, Constraints[v.s][v.rev])
       THEN addServiceToCatalog(e)
       ELSE SkipCatalog(e)
  /\ UNCHANGED <<svc, ce, cache, queue, x, u, ns, claims>>

(* Variant: the catalogs an edit takes the service out of are left alone.  *)
reconcileCatalogsMatching ==
  /\ v.pc = "catalogs"
  /\ \E e \in v.todo :
       IF v.state # "Available" THEN removeServiceFromCatalog(e)
       ELSE IF Match(e, Constraints[v.s][v.rev]) THEN addServiceToCatalog(e)
       ELSE SkipCatalog(e)
  /\ UNCHANGED <<svc, ce, cache, queue, x, u, ns, claims>>

(* reconcileCatalogs for an Available service, removeServiceFromCatalogs   *)
(* for any other.                                                          *)
reconcileCatalogs ==
  /\ v.pc = "catalogs"
  /\ \E e \in v.todo :
       IF v.state = "Available" /\ Match(e, Constraints[v.s][v.rev])
       THEN addServiceToCatalog(e)
       ELSE removeServiceFromCatalog(e)
  /\ UNCHANGED <<svc, ce, cache, queue, x, u, ns, claims>>

(* The catalogs are done: an error returns, and the status is written for  *)
(* a service that exists.                                                  *)
UpdateServiceStatus ==
  /\ v.pc = "catalogs" /\ v.todo = {}
  /\ v' = Idle
  /\ IF v.state # "gone" /\ ~v.err /\ v.fresh
     THEN /\ svc' = [svc EXCEPT ![v.s].state = v.state]
          /\ stale' = IF v.state # svc[v.s].state THEN stale \cup {v.s} ELSE stale
          /\ UNCHANGED queue
     ELSE /\ queue' = IF v.state = "gone" /\ ~v.err THEN queue ELSE queue \cup {v.s}
          /\ UNCHANGED <<svc, stale>>
  /\ UNCHANGED <<cat, ce, cache, x, u, ns, claims>>
-----------------------------------------------------------------------------
(* Variant: a copy that exists is left alone. *)
PushIfMissing(k, sc) ==
  ns' = IF ns[k].exists THEN ns ELSE [ns EXCEPT ![k] = sc]

(* Writes of copies, by the two controllers that push.                     *)
PushServiceCatalogToApplicationNamespaces(k, sc) == ns' = [ns EXCEPT ![k] = sc]

(* The ClusterEnvironment controller, as far as it touches catalogs.       *)

Requeue(k) == x' = Idle /\ queue' = queue \cup {k}

ReconcileCluster(k) ==
  /\ x.pc = "idle"
  /\ k \in queue
  /\ queue' = queue \ {k}
  /\ x' = CASE cache.ce[k] \in Missing -> x
            [] cache.ce[k] = "terminating" -> [pc |-> "related", k |-> k]
            [] cache.ce[k] = "new" -> [pc |-> "finalizer", k |-> k]
            [] cache.ce[k] = "live" -> [pc |-> "status", k |-> k]
  /\ UNCHANGED <<svc, cat, ce, cache, stale, v, u, ns, claims>>

AddFinalizer ==
  /\ x.pc = "finalizer"
  /\ IF ce[x.k] = "new"
     THEN StoreCluster(x.k, "live") /\ x' = [x EXCEPT !.pc = "status"] /\ UNCHANGED queue
     ELSE Requeue(x.k) /\ UNCHANGED <<ce, stale>>
  /\ UNCHANGED <<svc, cat, cache, v, u, ns, claims>>

(* The connection and the permissions are tested and the status written,   *)
(* which fails when the ClusterEnvironment was deleted meanwhile.          *)
UpdateClusterStatus ==
  /\ x.pc = "status"
  /\ \/ ce[x.k] = "live" /\ x' = [x EXCEPT !.pc = "get"] /\ UNCHANGED queue
     \/ (ce[x.k] # "live" \/ MayFail) /\ Requeue(x.k)
  /\ UNCHANGED <<svc, cat, ce, cache, stale, v, u, ns, claims>>

(* reconcileServiceCatalogApplicationNamespaces: when the cache has no     *)
(* catalog, CreateServiceCatalog lists the available services ...          *)
Listing(e) ==
  {s \in Services : /\ cache.svc[s].state = "Available"
                    /\ Match(e, Constraints[s][cache.svc[s].rev])}

(* Variant: the ClusterEnvironment waits for the catalog. *)
GetCatalogNoCreate ==
  /\ x.pc = "get"
  /\ LET e == EnvOf[x.k]
     IN  \/ /\ cache.cat[e].exists
            /\ x' = [pc |-> "push", k |-> x.k, copy |-> cache.cat[e]]
            /\ UNCHANGED queue
         \/ ~cache.cat[e].exists /\ Requeue(x.k)
  /\ UNCHANGED <<svc, cat, ce, cache, stale, v, u, ns, claims>>

GetCatalog ==
  /\ x.pc = "get"
  /\ LET e == EnvOf[x.k]
         found == Listing(e)
     IN  \/ /\ cache.cat[e].exists
            /\ x' = [pc |-> "push", k |-> x.k, copy |-> cache.cat[e]]
         \/ /\ ~cache.cat[e].exists
            /\ \E q \in SetToSeqs(found) :
                 x' = [pc |-> "create", k |-> x.k,
                       entries |-> [i \in DOMAIN q |->
                          [name |-> q[i], rev |-> cache.svc[q[i]].rev]]]
  /\ UNCHANGED <<svc, cat, ce, cache, stale, queue, v, u, ns, claims>>

(* ... and creates the catalog with them; one that exists is left alone.   *)
CreateServiceCatalog ==
  /\ x.pc = "create"
  /\ LET e == EnvOf[x.k]
     IN  IF cat[e].exists THEN UNCHANGED <<cat, stale, v>>
         ELSE StoreCatalog(e, [exists |-> TRUE, services |-> x.entries, claimedBy |-> {}])
  /\ x' = [pc |-> "getAgain", k |-> x.k]
  /\ UNCHANGED <<svc, ce, cache, queue, u, ns, claims>>

(* The catalog is read again, from the cache. *)
GetCatalogAgain ==
  /\ x.pc = "getAgain"
  /\ LET sc == cache.cat[EnvOf[x.k]]
     IN  IF sc.exists THEN x' = [pc |-> "push", k |-> x.k, copy |-> sc] /\ UNCHANGED queue
                      ELSE Requeue(x.k)
  /\ UNCHANGED <<svc, cat, ce, cache, stale, v, u, ns, claims>>

(* The catalog that was read is pushed and the status written again; the   *)
(* namespaces, agents and bindings reconciled before may have failed, which *)
(* does not keep the catalog from being pushed.                            *)
PushFromCluster ==
  /\ x.pc = "push"
  /\ \E pushed \in {TRUE, ~MayFail} :
       /\ IF pushed THEN PushServiceCatalogToApplicationNamespaces(x.k, x.copy)
                    ELSE UNCHANGED ns
       /\ \/ pushed /\ ce[x.k] = "live" /\ x' = Idle /\ UNCHANGED queue
          \/ (MayFail \/ ce[x.k] # "live") /\ Requeue(x.k)
  /\ UNCHANGED <<svc, cat, ce, cache, stale, v, u, claims>>

(* finalizeClusterEnvironment: the namespaces are unbound, which deletes   *)
(* the agent and, through their owner, the copies; whatever came of that,  *)
(* the catalog is deleted when the cache shows no other cluster of the     *)
(* environment.  An error that is NotFound, as of a missing cluster        *)
(* context secret, is ignored.                                             *)
finalizeClusterEnvironment ==
  /\ x.pc = "related"
  /\ \E err \in IF MayFail THEN {"none", "error", "notFound"} ELSE {"none"} :
       /\ ns' = IF err = "none" THEN [ns EXCEPT ![x.k] = NoCatalog] ELSE ns
       /\ IF err = "error" THEN Requeue(x.k)
          ELSE x' = [pc |-> "removeFinalizer", k |-> x.k] /\ UNCHANGED queue
  /\ LET e == EnvOf[x.k]
         related == {k \in Clusters : /\ EnvOf[k] = e
                                      /\ cache.ce[k] \in {"new", "live"}}
     IN  IF related = {} /\ cat[e].exists
         THEN StoreCatalog(e, NoCatalog)
         ELSE UNCHANGED <<cat, stale, v>>
  /\ UNCHANGED <<svc, ce, cache, u, claims>>

RemoveFinalizer ==
  /\ x.pc = "removeFinalizer"
  /\ IF ce[x.k] = "terminating"
     THEN StoreCluster(x.k, "gone") /\ x' = Idle /\ UNCHANGED queue
     ELSE Requeue(x.k) /\ UNCHANGED <<ce, stale>>
  /\ UNCHANGED <<svc, cat, cache, v, u, ns, claims>>
-----------------------------------------------------------------------------
(* The ServiceCatalog controller: the catalog is pushed to every cluster   *)
(* of its environment, one after the other.                                *)
ReconcileCatalog(e) ==
  /\ u.pc = "idle"
  /\ e \in queue
  /\ queue' = queue \ {e}
  /\ u' = IF cache.cat[e].exists
          THEN [pc |-> "push", e |-> e, copy |-> cache.cat[e], err |-> FALSE,
                todo |-> {k \in Clusters : EnvOf[k] = e /\ cache.ce[k] \notin Missing}]
          ELSE u
  /\ UNCHANGED <<svc, cat, ce, cache, stale, v, x, ns, claims>>

PushServiceCatalog ==
  /\ u.pc = "push"
  /\ \/ \E k \in u.todo :
          /\ \/ /\ PushServiceCatalogToApplicationNamespaces(k, u.copy)
                /\ u' = [u EXCEPT !.todo = @ \ {k}]
             \/ /\ MayFail
                /\ u' = [u EXCEPT !.todo = @ \ {k}, !.err = TRUE]
                /\ UNCHANGED ns
          /\ UNCHANGED queue
     \/ /\ u.todo = {}
        /\ u' = Idle
        /\ queue' = IF u.err THEN queue \cup {u.e} ELSE queue
        /\ UNCHANGED ns
  /\ UNCHANGED <<svc, cat, ce, cache, stale, v, x, claims>>
-----------------------------------------------------------------------------
ServiceWorker == getServiceCatalogs \/ reconcileCatalogs \/ UpdateServiceStatus

ClusterWorker ==
  \/ AddFinalizer \/ UpdateClusterStatus \/ GetCatalog \/ CreateServiceCatalog \/ GetCatalogAgain
  \/ PushFromCluster \/ finalizeClusterEnvironment \/ RemoveFinalizer

Next ==
  \/ \E s \in Services : \/ CreateService(s) \/ EditService(s) \/ DeleteService(s)
                         \/ changeServiceState(s) \/ ReconcileService(s)
  \/ \E k \in Clusters : CreateCluster(k) \/ DeleteCluster(k) \/ ReconcileCluster(k)
  \/ \E e \in Environments : ReconcileCatalog(e)
  \/ \E n \in Names : Sync(n) \/ Resync(n)
  \/ ServiceWorker \/ ClusterWorker \/ PushServiceCatalog

Spec == Init /\ [][Next]_vars
-----------------------------------------------------------------------------
(* Properties. *)

(* A catalog lists a service once, although the controller looks for it in *)
(* a copy that may be old and two controllers write catalogs.              *)
NoDuplicates ==
  \A e \in Environments : LET q == cat[e].services
                          IN  \A i, j \in DOMAIN q : q[i].name = q[j].name => i = j

(* Fairness: the workers run, watches deliver and the resync comes round;  *)
(* queues are first in, first out.                                         *)
Fairness ==
  /\ \A n \in Names : WF_vars(Sync(n)) /\ WF_vars(Resync(n))
  /\ \A s \in Services : SF_vars(ReconcileService(s))
  /\ \A k \in Clusters : SF_vars(ReconcileCluster(k))
  /\ \A e \in Environments : SF_vars(ReconcileCatalog(e))
  /\ WF_vars(ServiceWorker) /\ WF_vars(ClusterWorker) /\ WF_vars(PushServiceCatalog)

FairSpec == Spec /\ Fairness

Lists(sc, s) == \E i \in DOMAIN sc.services : sc.services[i].name = s

(* What catalog e should say of service s. *)
Offered(e, s) ==
  /\ svc[s].state = "Available"
  /\ Match(e, Constraints[s][svc[s].rev])

(* When the services are left alone, a catalog comes to list exactly the   *)
(* available services its environment may use: whatever was read from old  *)
(* copies, however adding, removing and creating interleaved.              *)
CatalogConverges ==
  \A e \in Environments, s \in Services :
    <>[](cat[e].exists => (Lists(cat[e], s) <=> Offered(e, s)))

(* ... and the application namespaces of every live ClusterEnvironment     *)
(* come to hold the catalog of its environment, which exists, although two *)
(* controllers push copies of different age and the catalog may have been  *)
(* deleted from under the ClusterEnvironment.                              *)
NamespaceConverges ==
  \A k \in Clusters :
    <>[](ce[k] = "live" => /\ cat[EnvOf[k]].exists
                           /\ ns[k] = cat[EnvOf[k]])
-----------------------------------------------------------------------------
(* What the documentation says of catalogs, and the code does not do.      *)

(* Nothing is left to do but the resync. *)
Settled == stale = {} /\ queue = {} /\ v = Idle /\ x = Idle /\ u = Idle

(* A ServiceCatalog lists the services available in its environment: so it *)
(* does once every event has been handled.                                 *)
ListsAvailable ==
  Settled => \A e \in Environments, s \in Services :
               cat[e].exists => (Lists(cat[e], s) <=> Offered(e, s))

(* A ClusterEnvironment has a catalog for its environment, once every      *)
(* event has been handled.                                                 *)
CatalogEnsured ==
  Settled => \A k \in Clusters : ce[k] = "live" => cat[EnvOf[k]].exists

(* The catalog is removed from the namespaces of a deleted                 *)
(* ClusterEnvironment, and stays removed.                                  *)
CopyRemoved ==
  Settled => \A k \in Clusters : ce[k] = "gone" => ~ns[k].exists

(* The entry of a deleted service is deleted. *)
DeletedUnlisted ==
  \A e \in Environments, s \in Services :
    <>[](svc[s].state = "gone" => ~Lists(cat[e], s))

(* An update of a RegisteredService reaches the entry it has in a catalog. *)
EntryUpdated ==
  \A e \in Environments, s \in Services :
    <>[](\A i \in DOMAIN cat[e].services :
           cat[e].services[i].name = s => cat[e].services[i].rev = svc[s].rev)

(* claimedByLabels lists services that are claimed. *)
LabelledAreClaimed ==
  \A e \in Environments, s \in Services :
    <>[](s \in cat[e].claimedBy => svc[s].state = "Claimed")
=============================================================================
