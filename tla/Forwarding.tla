----------------------------- MODULE Forwarding -----------------------------
(***************************************************************************)
(* How the ServiceClaims of application namespaces, and the                *)
(* RegisteredServices of service namespaces, reach the control plane.      *)
(*                                                                         *)
(* With the strategy Push the application agent copies claims (worker a);  *)
(* RegisteredServices are written by the service agent (ServiceDiscovery). *)
(* With Pull, the ClusterEnvironment controller (worker r) runs informers  *)
(* on the namespaces of a ClusterEnvironment, whose handlers (h) copy      *)
(* claims and services.  All copies are in one namespace of the control    *)
(* plane, under the names of what they are copies of.                      *)
(*                                                                         *)
(* A behaviour is about one strategy, and either about claims, or about    *)
(* services, or about the catalogs that the control plane pushes into an   *)
(* application namespace, which do not meet.  The agent is that of the     *)
(* one namespace for Push; the informers are those of all                  *)
(* ClusterEnvironments, with one namespace each.                           *)
(***************************************************************************)
EXTENDS Naturals

CONSTANTS
  Clusters,    \* ClusterEnvironments
  Items,       \* claims or services of their namespaces
  Names,       \* names of these, and of their copies
  ClusterOf,   \* [Items -> Clusters]
  NameOf,      \* [Items -> Names]
  NoCopy, NoInformer, NoEvent,
  Flows,       \* pairs of a strategy and a kind of object
  Ops,         \* what users do, besides creating items
  MaxMade,     \* bound: how often an item is created
  MayFail,     \* calls across clusters may fail
  MayCrash     \* agent and manager may be restarted

ASSUME ForwardingAssumption ==
  /\ ClusterOf \in [Items -> Clusters]
  /\ NameOf \in [Items -> Names]
  /\ Flows \subseteq {"push", "pull"} \X {"claim", "service", "catalog"}
  /\ {"agent", "catalog"} \cap Items = {}
  /\ MaxMade \in Nat
  /\ MayFail \in BOOLEAN /\ MayCrash \in BOOLEAN

VARIABLES
  flow,      \* what the behaviour is about
  item,      \* claims or services in the namespaces
  made,      \* how often each has been created (for the bound)
  invalid,   \* claims whose state the agent has set to Invalid
  copy,      \* their copies in the control plane
  secret,    \* the descriptor secrets of the copies
  dep,       \* the agent's Deployment
  catalog,   \* the catalog in the agent's namespace
  up,        \* the agent runs
  cache,     \* its manager's cache, as of some earlier moment
  stale,     \* whose cached version is not current
  queue,     \* its work queues
  a, d,      \* its claim worker and its Deployment worker
  todo,      \* ClusterEnvironments queued for reconciliation
  r,         \* the ClusterEnvironment worker
  inf,       \* the informers and their stores
  h,         \* the event each informer's handler is busy with
  calm       \* from now on users and network leave the system alone

agent == <<dep, catalog, up, cache, queue, d>>
control == <<todo, r, inf, h>>
vars == <<flow, item, made, invalid, copy, secret, dep, catalog, up, cache, stale,
          queue, a, d, todo, r, inf, h, calm>>
-----------------------------------------------------------------------------
Agent == "agent"
Catalog == "catalog"
strategy == flow[1]
kind == flow[2]

(* A "new" item has no finalizer; a "terminating" one is being deleted.    *)
Phase == {"absent", "new", "live", "terminating"}
Exists(i) == item[i] # "absent"

(* What has been read of an item: current says whether its content is      *)
(* still that of the item.                                                 *)
Seen == [phase : Phase, current : BOOLEAN]

Copy == [item : Items, phase : {"live", "terminating"}, current : BOOLEAN]

Deployment == {"new", "live", "terminating", "gone"}

Event == [item : Items, step : {"write", "secret", "delete", "delete secret"},
          current : BOOLEAN]

ItemsOf(k) == {i \in Items : ClusterOf[i] = k}

Informer(k) == [synced : BOOLEAN, seen : [ItemsOf(k) -> Seen]]

ASSUME NoneAssumption ==
  /\ NoCopy \notin Copy /\ NoEvent \notin Event
  /\ \A k \in Clusters : NoInformer \notin Informer(k)

Idle == [pc |-> "idle"]
ClaimSteps ==
  {Idle} \cup [pc : {"finalizer", "write", "delete", "unfinalize"}, i : Items,
               fresh : BOOLEAN, current : BOOLEAN]

Init ==
  /\ flow \in Flows
  /\ item = [i \in Items |-> "absent"]
  /\ made = [i \in Items |-> 0]
  /\ invalid = {}
  /\ copy = [n \in Names |-> NoCopy]
  /\ secret = [n \in Names |-> "none"]
  /\ dep = "new"
  /\ catalog = "absent"
  /\ up = (strategy = "push" \/ kind = "catalog")
  /\ cache = [item |-> item, dep |-> dep, catalog |-> catalog, current |-> Items]
  /\ stale = {}
  /\ queue = IF up THEN {Agent} ELSE {}
  /\ a = Idle /\ d = Idle
  /\ todo = IF strategy = "pull" THEN Clusters ELSE {}
  /\ r = Idle
  /\ inf = [k \in Clusters |-> NoInformer]
  /\ h = [k \in Clusters |-> NoEvent]
  /\ calm = FALSE

TypeOK ==
  /\ flow \in Flows
  /\ item \in [Items -> Phase] /\ made \in [Items -> 0 .. MaxMade]
  /\ invalid \subseteq Items
  /\ copy \in [Names -> Copy \cup {NoCopy}]
  /\ secret \in [Names -> {"none", "old", "current"}]
  /\ dep \in Deployment /\ catalog \in {"absent", "pushed", "owned"}
  /\ up \in BOOLEAN /\ calm \in BOOLEAN
  /\ cache \in [item : [Items -> Phase], dep : Deployment,
                catalog : {"absent", "pushed", "owned"}, current : SUBSET Items]
  /\ stale \cup queue \subseteq Items \cup {Agent, Catalog}
  /\ a \in ClaimSteps /\ d \in {Idle, [pc |-> "unfinalize"]}
  /\ todo \subseteq Clusters
  /\ r \in {Idle} \cup [pc : {"wait"}, k : Clusters]
  /\ DOMAIN inf = Clusters /\ h \in [Clusters -> Event \cup {NoEvent}]
  /\ \A k \in Clusters : /\ inf[k] \in Informer(k) \cup {NoInformer}
                          /\ h[k] # NoEvent => inf[k] # NoInformer /\ inf[k].synced

Fails == MayFail /\ ~calm

(* A write of an item by someone else than the agent's claim worker.       *)
StoreItem(i, phase) ==
  /\ item' = [item EXCEPT ![i] = phase]
  /\ stale' = IF up THEN stale \cup {i} ELSE stale
  /\ a' = IF a.pc # "idle" /\ a.i = i THEN [a EXCEPT !.fresh = FALSE] ELSE a
-----------------------------------------------------------------------------
(* Users, who work in the namespaces, and the control plane, which deletes *)
(* agents and pushes catalogs.                                             *)

CreateItem(i) ==
  /\ kind # "catalog"
  /\ ~Exists(i) /\ made[i] < MaxMade
  /\ made' = [made EXCEPT ![i] = @ + 1]
  /\ StoreItem(i, "new")
  /\ UNCHANGED <<invalid, copy, secret, cache, inf, h>>

(* What has been read and written of the item is out of date.              *)
EditItem(i) ==
  /\ "edit" \in Ops
  /\ Exists(i)
  /\ stale' = IF up THEN stale \cup {i} ELSE stale
  /\ cache' = [cache EXCEPT !.current = IF up THEN @ \ {i} ELSE @]
  /\ a' = IF a.pc # "idle" /\ a.i = i THEN [a EXCEPT !.fresh = FALSE, !.current = FALSE]
          ELSE a
  /\ copy' = [n \in Names |-> IF copy[n] # NoCopy /\ copy[n].item = i
                              THEN [copy[n] EXCEPT !.current = FALSE] ELSE copy[n]]
  /\ secret' = [secret EXCEPT ![NameOf[i]] = IF @ = "current" THEN "old" ELSE @]
  /\ LET k == ClusterOf[i]
     IN  /\ inf' = IF inf[k] = NoInformer THEN inf
                   ELSE [inf EXCEPT ![k].seen[i].current = FALSE]
         /\ h' = IF h[k] # NoEvent /\ h[k].item = i
                 THEN [h EXCEPT ![k].current = FALSE] ELSE h
  /\ UNCHANGED <<item, made, invalid>>

DeleteItem(i) ==
  /\ "delete" \in Ops
  /\ item[i] \in {"new", "live"}
  /\ StoreItem(i, IF item[i] = "live" THEN "terminating" ELSE "absent")
  /\ invalid' = IF item[i] = "live" THEN invalid ELSE invalid \ {i}
  /\ UNCHANGED <<made, copy, secret, cache, inf, h>>

Users(i) ==
  /\ ~calm
  /\ CreateItem(i) \/ EditItem(i) \/ DeleteItem(i)
  /\ UNCHANGED <<flow, dep, catalog, up, queue, d, todo, r, calm>>

(* The Deployment of the agent is deleted when its namespace is taken from *)
(* the ClusterEnvironment.                                                 *)
DeleteAgent ==
  /\ ~calm
  /\ "delete agent" \in Ops
  /\ up /\ dep \in {"new", "live"}
  /\ dep' = IF dep = "live" THEN "terminating" ELSE "gone"
  /\ stale' = stale \cup {Agent}
  /\ UNCHANGED <<flow, item, made, invalid, copy, secret, catalog, up, cache, queue,
                 a, d, control, calm>>

(* PushServiceCatalogToApplicationNamespaces. *)
PushCatalog ==
  /\ ~calm
  /\ kind = "catalog" /\ catalog = "absent"
  /\ catalog' = "pushed"
  /\ stale' = IF up THEN stale \cup {Catalog} ELSE stale
  /\ UNCHANGED <<flow, item, made, invalid, copy, secret, dep, up, cache, queue, a, d,
                 control, calm>>

(* In the control plane every deleted claim is finalized in the end        *)
(* (ClaimLifecycle).                                                       *)
ControlPlane(n) ==
  /\ copy[n] # NoCopy /\ copy[n].phase = "terminating"
  /\ copy' = [copy EXCEPT ![n] = NoCopy]
  /\ UNCHANGED <<flow, item, made, invalid, secret, stale, a, agent, control, calm>>

Calm ==
  /\ ~calm
  /\ calm' = TRUE
  /\ UNCHANGED <<flow, item, made, invalid, copy, secret, stale, a, agent, control>>
-----------------------------------------------------------------------------
(* The application agent's process. *)

(* The pod goes with the Deployment: killed, or by os.Exit.                *)
Stop ==
  /\ up' = FALSE
  /\ a' = Idle /\ d' = Idle
  /\ queue' = {} /\ stale' = {}
  /\ UNCHANGED <<flow, item, made, invalid, copy, secret, dep, catalog, cache, control, calm>>

DeletePod == up /\ dep = "gone" /\ Stop

(* A restart: the caches are filled, everything is queued. *)
CrashAgent ==
  /\ up /\ MayCrash /\ ~calm
  /\ a' = Idle /\ d' = Idle
  /\ cache' = [item |-> item, dep |-> dep, catalog |-> catalog, current |-> Items]
  /\ stale' = {}
  /\ queue' = {i \in Items : Exists(i)} \cup {Agent}
                \cup (IF catalog = "absent" THEN {} ELSE {Catalog})
  /\ UNCHANGED <<flow, item, made, invalid, copy, secret, dep, catalog, up, control, calm>>

Sync(n) ==
  /\ up /\ n \in stale
  /\ cache' = CASE n = Agent -> [cache EXCEPT !.dep = dep]
                [] n = Catalog -> [cache EXCEPT !.catalog = catalog]
                [] OTHER -> [cache EXCEPT !.item[n] = item[n], !.current = @ \cup {n}]
  /\ stale' = stale \ {n}
  /\ queue' = queue \cup {n}
  /\ UNCHANGED <<flow, item, made, invalid, copy, secret, dep, catalog, up, a, d,
                 control, calm>>

(* The garbage collector deletes what the Deployment owned. *)
Collect ==
  /\ dep = "gone" /\ catalog = "owned"
  /\ catalog' = "absent"
  /\ stale' = IF up THEN stale \cup {Catalog} ELSE stale
  /\ UNCHANGED <<flow, item, made, invalid, copy, secret, dep, up, cache, queue, a, d,
                 control, calm>>
-----------------------------------------------------------------------------
(* Its ServiceClaim controller. *)

Requeue == a' = Idle /\ queue' = queue \cup {a.i}

(* Claim and Deployment are read; without a Deployment the agent exits.    *)
Reconcile(i) ==
  /\ up /\ a.pc = "idle" /\ i \in queue
  /\ \/ /\ cache.item[i] # "absent" /\ cache.dep = "gone"
        /\ Stop
     \/ /\ cache.item[i] = "absent" \/ cache.dep # "gone"
        /\ queue' = queue \ {i}
        /\ LET ends == "terminating" \in {cache.item[i], cache.dep}
               start(pc) == [pc |-> pc, i |-> i, fresh |-> i \notin stale,
                             current |-> i \in cache.current]
           IN  a' = CASE cache.item[i] = "absent" -> a
                      [] cache.item[i] = "new" /\ ends -> a
                      [] cache.item[i] = "new" /\ ~ends -> start("finalizer")
                      [] cache.item[i] \in {"live", "terminating"} /\ ends -> start("delete")
                      [] cache.item[i] = "live" /\ ~ends -> start("write")
        /\ UNCHANGED <<flow, item, made, invalid, copy, secret, dep, catalog, up, cache,
                       stale, d, control, calm>>

(* A write of the claim by the worker, rejected when what it has read is   *)
(* out of date.                                                            *)
UpdateItem(phase, pc) ==
  /\ IF a.fresh
     THEN /\ item' = [item EXCEPT ![a.i] = phase]
          /\ stale' = stale \cup {a.i}
          /\ a' = IF pc = "idle" THEN Idle ELSE [a EXCEPT !.pc = pc]
          /\ UNCHANGED queue
     ELSE Requeue /\ UNCHANGED <<item, stale>>
  /\ UNCHANGED <<flow, made, copy, secret, dep, catalog, up, cache, d, control, calm>>

AddFinalizer ==
  /\ a.pc = "finalizer"
  /\ UpdateItem("live", "write")
  /\ UNCHANGED invalid

(* Variant: an error is logged and not returned. *)
WriteCopyOnce ==
  /\ a.pc = "write"
  /\ \/ copy' = [copy EXCEPT ![NameOf[a.i]] =
                   [item |-> a.i, phase |-> IF @ = NoCopy THEN "live" ELSE @.phase,
                    current |-> a.current]]
     \/ Fails /\ UNCHANGED copy
  /\ a' = Idle
  /\ UNCHANGED <<flow, item, made, invalid, secret, stale, agent, control, calm>>

(* createServiceClaimCopy and its CreateOrUpdate, which finds a copy that  *)
(* is being deleted as good as any other.  A webhook may deny the request, *)
(* which is not retried.                                                   *)
WriteCopy ==
  /\ a.pc = "write"
  /\ \/ /\ LET n == NameOf[a.i]
               new == [item |-> a.i, phase |-> "live", current |-> a.current]
           IN  copy' = [copy EXCEPT ![n] = IF @ = NoCopy THEN new
                                           ELSE [new EXCEPT !.phase = copy[n].phase]]
        /\ a' = Idle
        /\ UNCHANGED <<invalid, stale, queue>>
     \/ /\ "deny" \in Ops /\ ~calm
        /\ IF a.fresh THEN /\ invalid' = invalid \cup {a.i}
                           /\ stale' = stale \cup {a.i}
                           /\ a' = Idle /\ UNCHANGED queue
                      ELSE Requeue /\ UNCHANGED <<invalid, stale>>
        /\ UNCHANGED copy
     \/ /\ Fails
        /\ Requeue
        /\ UNCHANGED <<invalid, stale, copy>>
  /\ UNCHANGED <<flow, item, made, secret, dep, catalog, up, cache, d, control, calm>>

(* Variant: all errors are ignored, as that of a missing copy may be. *)
DeleteOrIgnore ==
  /\ a.pc = "delete"
  /\ \/ /\ copy[NameOf[a.i]] # NoCopy
        /\ copy' = [copy EXCEPT ![NameOf[a.i]].phase = "terminating"]
     \/ /\ copy[NameOf[a.i]] = NoCopy \/ Fails
        /\ UNCHANGED copy
  /\ a' = [a EXCEPT !.pc = "unfinalize"]
  /\ UNCHANGED <<flow, item, made, invalid, secret, stale, agent, control, calm>>

(* Variant: an error is logged and not returned. *)
DeleteOnce ==
  /\ a.pc = "delete"
  /\ \/ /\ copy[NameOf[a.i]] # NoCopy
        /\ copy' = [copy EXCEPT ![NameOf[a.i]].phase = "terminating"]
        /\ a' = [a EXCEPT !.pc = "unfinalize"]
     \/ /\ copy[NameOf[a.i]] = NoCopy \/ Fails
        /\ a' = Idle
        /\ UNCHANGED copy
  /\ UNCHANGED <<flow, item, made, invalid, secret, stale, agent, control, calm>>

(* A copy that is not there is an error, too. *)
deleteExternalResources ==
  /\ a.pc = "delete"
  /\ \/ /\ copy[NameOf[a.i]] # NoCopy
        /\ copy' = [copy EXCEPT ![NameOf[a.i]].phase = "terminating"]
        /\ a' = [a EXCEPT !.pc = "unfinalize"]
        /\ UNCHANGED queue
     \/ /\ copy[NameOf[a.i]] = NoCopy \/ Fails
        /\ Requeue
        /\ UNCHANGED copy
  /\ UNCHANGED <<flow, item, made, invalid, secret, dep, catalog, up, cache, stale, d,
                 control, calm>>

RemoveFinalizer ==
  /\ a.pc = "unfinalize"
  /\ UpdateItem(IF item[a.i] = "terminating" THEN "absent" ELSE "new", "idle")
  /\ invalid' = IF a.fresh /\ item[a.i] = "terminating" THEN invalid \ {a.i} ELSE invalid
-----------------------------------------------------------------------------
(* Its controllers of ServiceCatalogs and of its Deployment. *)

(* The Deployment becomes the owner of the catalog, unless it has been     *)
(* deleted.                                                                *)
ReconcileCatalog ==
  /\ up /\ Catalog \in queue
  /\ LET conflict == cache.catalog # "absent" /\ Catalog \in stale
         owns == cache.catalog = "pushed" /\ ~conflict /\ cache.dep # "gone"
     IN  /\ queue' = IF conflict THEN queue ELSE queue \ {Catalog}
         /\ catalog' = IF owns THEN "owned" ELSE catalog
         /\ stale' = IF owns THEN stale \cup {Catalog} ELSE stale
  /\ UNCHANGED <<flow, item, made, invalid, copy, secret, dep, up, cache, a, d, control, calm>>

(* removePrimazaResources deletes catalogs (and bindings: WorkloadBinding) *)
(* but no claims; then the finalizer goes.                                 *)
ReconcileAgent ==
  /\ up /\ d.pc = "idle" /\ Agent \in queue
  /\ \/ /\ cache.dep = "gone"
        /\ Stop
     \/ /\ cache.dep = "terminating"
        /\ catalog' = "absent"
        /\ stale' = IF catalog = "absent" THEN stale ELSE stale \cup {Catalog}
        /\ queue' = queue \ {Agent}
        /\ d' = [pc |-> "unfinalize"]
        /\ UNCHANGED <<flow, item, made, invalid, copy, secret, dep, up, cache, a, control, calm>>
     \/ /\ cache.dep \in {"new", "live"}
        /\ LET adds == cache.dep = "new" /\ dep = "new"
           IN  /\ dep' = IF adds THEN "live" ELSE dep
               /\ stale' = IF adds THEN stale \cup {Agent} ELSE stale
               /\ queue' = IF adds \/ cache.dep = "live" THEN queue \ {Agent} ELSE queue
        /\ UNCHANGED <<flow, item, made, invalid, copy, secret, catalog, up, cache, a, d,
                       control, calm>>

RemoveAgentFinalizer ==
  /\ d.pc = "unfinalize"
  /\ dep' = "gone"
  /\ stale' = stale \cup {Agent}
  /\ d' = Idle
  /\ UNCHANGED <<flow, item, made, invalid, copy, secret, catalog, up, cache, queue, a,
                 control, calm>>
-----------------------------------------------------------------------------
(* The ClusterEnvironment controller and its informers (Pull). *)

(* An edit of the ClusterEnvironment, or a change of its state that the    *)
(* monitor writes, queues it.                                              *)
Enqueue(k) ==
  /\ ~calm
  /\ strategy = "pull" /\ "reconcile" \in Ops
  /\ todo' = todo \cup {k}
  /\ UNCHANGED <<flow, item, made, invalid, copy, secret, stale, a, agent, r, inf, h, calm>>

CrashManager ==
  /\ strategy = "pull" /\ MayCrash /\ ~calm
  /\ r' = Idle
  /\ inf' = [k \in Clusters |-> NoInformer]
  /\ h' = [k \in Clusters |-> NoEvent]
  /\ todo' = Clusters
  /\ UNCHANGED <<flow, item, made, invalid, copy, secret, stale, a, agent, calm>>

(* RunAppInformers and RunSvcInformers first stop the informers of         *)
(* namespaces that are no longer to be watched.  Informers run under the   *)
(* names of their ClusterEnvironment and namespace, and those are looked   *)
(* for among names of namespaces: all are stopped, of all                  *)
(* ClusterEnvironments.                                                    *)
StopInformers == [k \in Clusters |-> NoInformer]

(* An informer starts with a list. *)
NewInformer(k) ==
  [synced |-> FALSE,
   seen |-> [i \in ItemsOf(k) |-> [phase |-> item[i], current |-> TRUE]]]

(* Variant: the informers are forgotten, their contexts not cancelled. *)
RunInformersUncancelled(k) ==
  /\ r.pc = "idle" /\ k \in todo
  /\ inf' = [StopInformers EXCEPT ![k] = NewInformer(k)]
  /\ r' = [pc |-> "wait", k |-> k]
  /\ todo' = todo \ {k}
  /\ UNCHANGED <<flow, item, made, invalid, copy, secret, stale, a, agent, h, calm>>

(* Then the informer of the ClusterEnvironment that is reconciled runs;    *)
(* the handlers of those that were stopped end with their contexts.  The   *)
(* reconciliation may fail when they have been stopped, or before that.    *)
RunInformers(k) ==
  /\ r.pc = "idle" /\ k \in todo
  /\ \/ /\ inf' = [StopInformers EXCEPT ![k] = NewInformer(k)]
        /\ h' = [x \in Clusters |-> NoEvent]
        /\ r' = [pc |-> "wait", k |-> k]
        /\ todo' = todo \ {k}
     \/ /\ Fails
        /\ inf' = StopInformers
        /\ h' = [x \in Clusters |-> NoEvent]
        /\ UNCHANGED <<r, todo>>
     \/ /\ Fails
        /\ UNCHANGED <<inf, h, r, todo>>
  /\ UNCHANGED <<flow, item, made, invalid, copy, secret, stale, a, agent, calm>>

(* Of what is in the list, some may be handled after the informer has been *)
(* found synchronized; the rest is ignored.                                *)
MarkSynced ==
  /\ r.pc = "wait"
  /\ \E late \in SUBSET ItemsOf(r.k) :
       inf' = [inf EXCEPT ![r.k] =
                 [synced |-> TRUE,
                  seen |-> [i \in ItemsOf(r.k) |->
                              IF i \in late THEN [phase |-> "absent", current |-> TRUE]
                                            ELSE inf[r.k].seen[i]]]]
  /\ r' = Idle
  /\ UNCHANGED <<flow, item, made, invalid, copy, secret, stale, a, agent, todo, h, calm>>

(* Variant: a changed claim is deleted, to be created again. *)
HandledAnew(p, q) ==
  CASE p = "absent" /\ q # "absent" -> {"write"}
    [] p # "absent" /\ q = "absent" -> {"delete"}
    [] p # "absent" /\ q # "absent" -> IF kind = "service" THEN {"write"} ELSE {"delete"}
    [] OTHER -> {}

(* What the handlers do with an item that was seen as p and is now q: a    *)
(* claim is written when it is new; its UpdateFunc is empty.  A service is *)
(* written whenever it is there.                                           *)
Handled(p, q) ==
  CASE p = "absent" /\ q # "absent" -> {"write"}
    [] p # "absent" /\ q = "absent" -> {"delete"}
    [] p # "absent" /\ q # "absent" -> IF kind = "service" THEN {"write"} ELSE {}
    [] OTHER -> {}

Notify(k, i) ==
  /\ inf[k] # NoInformer /\ h[k] = NoEvent
  /\ inf[k].seen[i] # [phase |-> item[i], current |-> TRUE]
  /\ inf' = [inf EXCEPT ![k].seen[i] = [phase |-> item[i], current |-> TRUE]]
  /\ LET steps == IF inf[k].synced THEN Handled(inf[k].seen[i].phase, item[i]) ELSE {}
     IN  \/ steps = {} /\ UNCHANGED h
         \/ \E s \in steps : h' = [h EXCEPT ![k] = [item |-> i, step |-> s, current |-> TRUE]]
  /\ UNCHANGED <<flow, item, made, invalid, copy, secret, stale, a, agent, todo, r, calm>>

(* Every minute UpdateFunc is called for all items of the store.           *)
Resync(k, i) ==
  /\ inf[k] # NoInformer /\ inf[k].synced /\ h[k] = NoEvent
  /\ kind = "service" /\ inf[k].seen[i].phase # "absent"
  /\ h' = [h EXCEPT ![k] = [item |-> i, step |-> "write", current |-> inf[k].seen[i].current]]
  /\ UNCHANGED <<flow, item, made, invalid, copy, secret, stale, a, agent, todo, r, inf, calm>>

HandlerDone(k) == h' = [h EXCEPT ![k] = NoEvent]
HandlerNext(k, step) ==
  h' = [h EXCEPT ![k] = [@ EXCEPT !.step = step, !.current = TRUE]]

(* createUpdate: the copy, then its secret, read from the worker cluster   *)
(* where it is if the service is.                                          *)
createUpdate(k) ==
  LET i == h[k].item
      n == NameOf[i]
      phase == IF copy[n] = NoCopy THEN "live" ELSE copy[n].phase
  IN  \/ /\ h[k].step = "write"
         /\ copy' = [copy EXCEPT ![n] = [item |-> i, phase |-> phase, current |-> h[k].current]]
         /\ IF kind = "service" THEN HandlerNext(k, "secret") ELSE HandlerDone(k)
         /\ UNCHANGED secret
      \/ /\ h[k].step = "secret"
         /\ secret' = [secret EXCEPT ![n] = IF Exists(i) THEN "current" ELSE @]
         /\ HandlerDone(k)
         /\ UNCHANGED copy

(* DeleteFunc: a copy that is not there is an error, then the secret stays *)
deleteCopy(k) ==
  LET n == NameOf[h[k].item]
  IN  \/ /\ h[k].step = "delete" /\ copy[n] # NoCopy
         /\ copy' = [copy EXCEPT ![n] = IF kind = "service" THEN NoCopy
                                        ELSE [@ EXCEPT !.phase = "terminating"]]
         /\ IF kind = "service" THEN HandlerNext(k, "delete secret") ELSE HandlerDone(k)
         /\ UNCHANGED secret
      \/ /\ h[k].step = "delete" /\ copy[n] = NoCopy
         /\ HandlerDone(k)
         /\ UNCHANGED <<copy, secret>>
      \/ /\ h[k].step = "delete secret"
         /\ secret' = [secret EXCEPT ![n] = "none"]
         /\ HandlerDone(k)
         /\ UNCHANGED copy

(* An error is only logged. *)
Handle(k) ==
  /\ h[k] # NoEvent
  /\ \/ createUpdate(k)
     \/ deleteCopy(k)
     \/ Fails /\ HandlerDone(k) /\ UNCHANGED <<copy, secret>>
  /\ UNCHANGED <<flow, item, made, invalid, stale, a, agent, todo, r, inf, calm>>
-----------------------------------------------------------------------------
ClaimWorker ==
  AddFinalizer \/ WriteCopy \/ deleteExternalResources \/ RemoveFinalizer

Next ==
  \/ \E i \in Items : Users(i) \/ Reconcile(i)
  \/ DeleteAgent \/ PushCatalog \/ Calm \/ DeletePod \/ CrashAgent \/ Collect
  \/ \E n \in Names : ControlPlane(n)
  \/ \E n \in Items \cup {Agent, Catalog} : Sync(n)
  \/ ClaimWorker \/ ReconcileCatalog \/ ReconcileAgent \/ RemoveAgentFinalizer
  \/ CrashManager \/ MarkSynced
  \/ \E k \in Clusters :
       \/ Enqueue(k) \/ RunInformers(k) \/ Handle(k)
       \/ \E i \in ItemsOf(k) : Notify(k, i) \/ Resync(k, i)

Spec == Init /\ [][Next]_vars

(* Workers run, watches deliver, informers resync, and the control plane   *)
(* finalizes deleted claims; queues are first in, first out.               *)
Fairness ==
  /\ \A n \in Items \cup {Agent, Catalog} : WF_vars(Sync(n))
  /\ \A i \in Items : SF_vars(Reconcile(i))
  /\ \A n \in Names : WF_vars(ControlPlane(n))
  /\ WF_vars(ClaimWorker) /\ WF_vars(ReconcileCatalog)
  /\ SF_vars(ReconcileAgent) /\ WF_vars(RemoveAgentFinalizer)
  /\ WF_vars(DeletePod) /\ WF_vars(Collect) /\ WF_vars(MarkSynced)
  /\ \A k \in Clusters :
       /\ SF_vars(RunInformers(k)) /\ WF_vars(Handle(k))
       /\ \A i \in ItemsOf(k) : SF_vars(Notify(k, i)) /\ SF_vars(Resync(k, i))

FairSpec == Spec /\ Fairness
-----------------------------------------------------------------------------
(* Properties. *)

(* An item is current in the control plane. *)
Forwarded(i) ==
  LET c == copy[NameOf[i]]
  IN  /\ c # NoCopy
      /\ c.item = i /\ c.phase = "live" /\ c.current
      /\ kind = "service" => secret[NameOf[i]] = "current"

(* Push: once users and the network leave the system alone, every claim    *)
(* of a namespace with an agent is in the control plane as it is, unless   *)
(* it has been denied, although the agent reads from a cache, is restarted *)
(* and meets errors after each of its writes.  Pull: so is every service   *)
(* of a ClusterEnvironment whose informer runs, although handlers drop     *)
(* their errors and the service is written before its secret.              *)
ItemsForwarded ==
  \A i \in Items :
    /\ <>[](calm /\ strategy = "push" /\ dep = "live" /\ item[i] \in {"new", "live"}
              => Forwarded(i) \/ i \in invalid)
    /\ <>[](calm /\ kind = "service" /\ inf[ClusterOf[i]] # NoInformer /\ Exists(i)
              => Forwarded(i))

(* A claim that is gone has no copy that stays: its finalizer is there     *)
(* before the copy is, and goes after the copy's deletion, with whatever   *)
(* restarts and conflicts in between.                                      *)
GoneIsReleased ==
  strategy = "push" =>
    \A i \in Items :
      ~Exists(i) /\ copy[NameOf[i]] # NoCopy /\ copy[NameOf[i]].item = i
        => copy[NameOf[i]].phase = "terminating"

(* A copy is deleted only when its claim or service is, or the agent is,   *)
(* however old what has been read of them, and over restarts of informers. *)
DeletedWithItem ==
  [][\A n \in Names :
       copy[n] # NoCopy /\ copy[n].phase = "live"
         => \/ copy'[n] # NoCopy /\ copy'[n].phase = "live"
            \/ item[copy[n].item] \in {"absent", "terminating"}
            \/ dep \in {"terminating", "gone"}]_vars

(* A deleted claim releases its copy as long as the agent runs, even where *)
(* it cannot go away itself; and the agent goes away when it is deleted.   *)
DeletionReleases ==
  /\ \A i \in Items : <>[](calm /\ up /\ item[i] = "terminating" => copy[NameOf[i]] = NoCopy)
  /\ <>[](calm => dep # "terminating")
-----------------------------------------------------------------------------
(* What comments, tests and documentation say, and the code does not do.   *)

(* Only informers of namespaces that need not be watched are stopped. *)
AllAreWatched ==
  \A k \in Clusters : <>[](calm /\ strategy = "pull" => inf[k] # NoInformer)

(* Claims reach the control plane with Pull as well. *)
ClaimsPulled ==
  \A i \in Items :
    <>[](calm /\ strategy = "pull" /\ kind = "claim" /\ Exists(i) => Forwarded(i))

(* With Pull, the deletion of an item reaches the control plane. *)
DeletionPulled ==
  \A i \in Items : <>[](calm /\ strategy = "pull" /\ ~Exists(i) => copy[NameOf[i]] = NoCopy)

(* The deletion of a claim is retried until it is done. *)
ClaimDeletionEnds ==
  \A i \in Items : <>[](calm /\ up => item[i] # "terminating")

(* The deletion of the agent deletes Primaza's resources in the namespace. *)
AgentDeletionCleans ==
  /\ <>[](calm /\ dep = "gone" => catalog = "absent")
  /\ \A i \in Items : <>[](calm /\ dep = "gone" => copy[NameOf[i]] = NoCopy)
=============================================================================
