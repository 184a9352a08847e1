-------------------------- MODULE ServiceDiscovery --------------------------
(***************************************************************************)
(* The service agent of one service namespace.  The control plane pushes   *)
(* ServiceClasses into the namespace (see ClassPush); for every resource   *)
(* of a class's kind the agent keeps a RegisteredService in the control    *)
(* plane.                                                                  *)
(*                                                                         *)
(* Three activities share the agent's process: the ServiceClass controller *)
(* (worker w), the controller of the agent's own Deployment (worker d),    *)
(* and one informer per class, whose handler (h[c]) writes                 *)
(* RegisteredServices on its own.  Classes and Deployment are read from    *)
(* the manager's cache, which lags; resources are listed at the API        *)
(* server.  A step is what happens between two calls of the API.           *)
(***************************************************************************)
EXTENDS Naturals

CONSTANTS
  Classes,     \* names of ServiceClasses
  Objects,     \* resources in the namespace that classes may ask for
  Names,       \* names of these, and of RegisteredServices
  ClassOf,     \* [Objects -> Classes]: the class that names their kind
  NameOf,      \* [Objects -> Names]
  NoReg, NoInformer, NoEvent,
  Ops,         \* what users do, besides creating resources and classes
  MaxPushes,   \* bound: how often classes are created
  MayFail,     \* calls of the control plane may fail, secrets be missing
  MayCrash     \* the agent may be restarted

ASSUME DiscoveryAssumption ==
  /\ ClassOf \in [Objects -> Classes]
  /\ NameOf \in [Objects -> Names]
  /\ "agent" \notin Classes
  /\ MaxPushes \in Nat
  /\ MayFail \in BOOLEAN /\ MayCrash \in BOOLEAN

VARIABLES
  obj,       \* the resources
  class,     \* the ServiceClasses of the namespace
  dep,       \* the agent's Deployment
  pushes,    \* how many classes have been created (for the bound)
  reg,       \* RegisteredServices, as the agent writes them
  up,        \* the agent runs
  cache,     \* its manager's cache, as of some earlier moment
  stale,     \* the names whose cached version is not current
  queue,     \* work queues of the two controllers
  w, d,      \* their workers
  inf,       \* the informers: the class they were started with, their store
  h,         \* the event each informer's handler is busy with
  calm       \* from now on users and network leave the system alone

world == <<obj, pushes, calm>>
agent == <<up, cache, queue, d, inf, h>>
vars == <<obj, class, dep, pushes, reg, up, cache, stale, queue, w, d,
          inf, h, calm>>
-----------------------------------------------------------------------------
Agent == "agent"

(* What has been read of a resource or a class may be out of date: current *)
(* says whether its content is still that of the object.                   *)
Phase == {"absent", "live", "gone"}
Seen == [phase : Phase, current : BOOLEAN]

(* A "new" class has no finalizer; a "terminating" one is being deleted.   *)
(* owned: the Deployment is its controller reference.                      *)
Class == [phase : {"absent", "new", "live", "terminating"}, owned : BOOLEAN]
NoClass == [phase |-> "absent", owned |-> FALSE]

(* Likewise the Deployment; "gone" is the end. *)
Deployment == {"new", "live", "terminating", "gone"}

(* A RegisteredService: the resource it was made from, and whether it has  *)
(* the current content of the resource and of the class.                   *)
Registered == [obj : Objects, current : BOOLEAN, class : BOOLEAN]

Event == [obj : Objects, current : BOOLEAN]

ObjectsOf(c) == {o \in Objects : ClassOf[o] = c}

(* An informer keeps the class it was started with. *)
Informer(c) == [current : BOOLEAN, seen : [ObjectsOf(c) -> Seen]]

ASSUME NoneAssumption ==
  /\ NoReg \notin Registered /\ NoEvent \notin Event
  /\ \A c \in Classes : NoInformer \notin Informer(c)

Idle == [pc |-> "idle"]
ClassSteps ==
  {Idle} \cup [pc : {"list", "branch", "items", "status"}, c : Classes,
               fresh : BOOLEAN, current : BOOLEAN, finalizer : BOOLEAN, ends : BOOLEAN,
               items : SUBSET Event, todo : SUBSET Event, err : BOOLEAN]

Init ==
  /\ obj = [o \in Objects |-> "absent"]
  /\ class = [c \in Classes |-> NoClass]
  /\ dep = "new"
  /\ pushes = 0
  /\ reg = [n \in Names |-> NoReg]
  /\ up = TRUE
  /\ cache = [class |-> class, dep |-> dep, current |-> Classes]
  /\ stale = {}
  /\ queue = {Agent}
  /\ w = Idle /\ d = Idle
  /\ inf = [c \in Classes |-> NoInformer]
  /\ h = [c \in Classes |-> NoEvent]
  /\ calm = FALSE

TypeOK ==
  /\ obj \in [Objects -> Phase]
  /\ class \in [Classes -> Class] /\ dep \in Deployment
  /\ pushes \in 0 .. MaxPushes
  /\ reg \in [Names -> Registered \cup {NoReg}]
  /\ cache \in [class : [Classes -> Class], dep : Deployment, current : SUBSET Classes]
  /\ stale \subseteq Classes \cup {Agent} /\ queue \subseteq Classes \cup {Agent}
  /\ w \in ClassSteps /\ (w.pc # "idle" => w.todo \subseteq w.items)
  /\ d \in {Idle, [pc |-> "wait"]}
  /\ DOMAIN inf = Classes /\ h \in [Classes -> Event \cup {NoEvent}]
  /\ \A c \in Classes : /\ inf[c] \in Informer(c) \cup {NoInformer}
                         /\ h[c] # NoEvent => inf[c] # NoInformer
  /\ up \in BOOLEAN /\ calm \in BOOLEAN

(* A write of a class by someone else than w: its copy is out of date.     *)
StoreClasses(f) ==
  /\ class' = f
  /\ LET written == {c \in Classes : f[c] # class[c]}
     IN  /\ stale' = stale \cup written
         /\ w' = IF w.pc # "idle" /\ w.c \in written THEN [w EXCEPT !.fresh = FALSE]
                                                     ELSE w

(* A write of its class by w, with Update: rejected when out of date.      *)
Update(o) ==
  /\ class' = [class EXCEPT ![w.c] = o]
  /\ stale' = stale \cup {w.c}

(* DELETE: the object stays while it has a finalizer. *)
Deleted(o) == IF o.phase \in {"live", "terminating"}
              THEN [o EXCEPT !.phase = "terminating"] ELSE NoClass

(* A call of the control plane, or the reading of the endpoint definition  *)
(* from fields and secrets that users may not have completed.              *)
Fails == MayFail /\ ~calm
-----------------------------------------------------------------------------
(* Users, who work on resources, and the control plane, which pushes and   *)
(* deletes classes and the agent.                                          *)

CreateObject(o) ==
  /\ obj[o] = "absent"
  /\ obj' = [obj EXCEPT ![o] = "live"]
  /\ UNCHANGED <<reg, w, inf, h>>

(* What has been read and written of the resource is out of date. *)
Outdated(o) ==
  /\ reg' = [n \in Names |-> IF reg[n] # NoReg /\ reg[n].obj = o
                             THEN [reg[n] EXCEPT !.current = FALSE] ELSE reg[n]]
  /\ LET old(i) == IF i.obj = o THEN [i EXCEPT !.current = FALSE] ELSE i
     IN  /\ w' = IF w.pc = "idle" THEN w
                 ELSE [w EXCEPT !.items = {old(i) : i \in @}, !.todo = {old(i) : i \in @}]
         /\ h' = [c \in Classes |-> IF h[c] = NoEvent THEN NoEvent ELSE old(h[c])]
  /\ inf' = [c \in Classes |-> IF c # ClassOf[o] \/ inf[c] = NoInformer THEN inf[c]
                               ELSE [inf[c] EXCEPT !.seen[o].current = FALSE]]

EditObject(o) ==
  /\ "edit" \in Ops
  /\ obj[o] = "live"
  /\ Outdated(o)
  /\ UNCHANGED obj

DeleteObject(o) ==
  /\ "delete" \in Ops
  /\ obj[o] = "live"
  /\ obj' = [obj EXCEPT ![o] = "gone"]
  /\ Outdated(o)

Users(o) ==
  /\ ~calm
  /\ CreateObject(o) \/ EditObject(o) \/ DeleteObject(o)
  /\ UNCHANGED <<class, dep, pushes, up, cache, stale, queue, d, calm>>

(* PushServiceClassToNamespaces and DeleteServiceClassFromNamespaces, for  *)
(* this namespace.                                                         *)
PushClass(c) ==
  /\ ~calm
  /\ \/ /\ class[c].phase = "absent" /\ pushes < MaxPushes
        /\ pushes' = pushes + 1
        /\ StoreClasses([class EXCEPT ![c].phase = "new"])
     \/ /\ "delete class" \in Ops
        /\ class[c].phase \in {"new", "live"}
        /\ StoreClasses([class EXCEPT ![c] = Deleted(@)])
        /\ UNCHANGED pushes
  /\ UNCHANGED <<obj, dep, reg, calm, agent>>

UpdateClass(c) ==
  /\ ~calm
  /\ "update class" \in Ops
  /\ class[c].phase # "absent"
  /\ stale' = stale \cup {c}
  /\ cache' = [cache EXCEPT !.current = @ \ {c}]
  /\ w' = IF w.pc # "idle" /\ w.c = c THEN [w EXCEPT !.fresh = FALSE, !.current = FALSE] ELSE w
  /\ inf' = IF inf[c] = NoInformer THEN inf ELSE [inf EXCEPT ![c].current = FALSE]
  /\ reg' = [n \in Names |-> IF reg[n] # NoReg /\ ClassOf[reg[n].obj] = c
                             THEN [reg[n] EXCEPT !.class = FALSE] ELSE reg[n]]
  /\ UNCHANGED <<class, dep, up, queue, d, h, world>>

(* DeleteAgent of the control plane. *)
DeleteAgent ==
  /\ ~calm
  /\ "delete agent" \in Ops
  /\ dep \in {"new", "live"}
  /\ dep' = IF dep = "live" THEN "terminating" ELSE "gone"
  /\ stale' = stale \cup {Agent}
  /\ UNCHANGED <<class, reg, w, world, agent>>

Calm ==
  /\ ~calm
  /\ calm' = TRUE
  /\ UNCHANGED <<obj, class, dep, pushes, reg, stale, w, agent>>
-----------------------------------------------------------------------------
(* The agent's process. *)

(* Variant: the handlers outlive the informers. *)
LeaveHandlers ==
  /\ w' = Idle /\ d' = Idle
  /\ inf' = [c \in Classes |-> NoInformer]
  /\ UNCHANGED h

Stopped ==
  /\ w' = Idle /\ d' = Idle
  /\ inf' = [c \in Classes |-> NoInformer]
  /\ h' = [c \in Classes |-> NoEvent]

(* The pod goes with the Deployment: killed, or by os.Exit.                *)
Stop ==
  /\ up' = FALSE
  /\ Stopped
  /\ queue' = {}
  /\ UNCHANGED <<class, dep, reg, cache, stale, world>>

DeletePod == up /\ dep = "gone" /\ Stop

(* A restart: the caches are filled, everything is queued. *)
Crash ==
  /\ up /\ MayCrash /\ ~calm
  /\ Stopped
  /\ cache' = [class |-> class, dep |-> dep, current |-> Classes]
  /\ stale' = {}
  /\ queue' = {c \in Classes : class[c] # NoClass} \cup {Agent}
  /\ UNCHANGED <<class, dep, reg, up, world>>

Sync(n) ==
  /\ up /\ n \in stale
  /\ cache' = IF n = Agent THEN [cache EXCEPT !.dep = dep]
                           ELSE [cache EXCEPT !.class[n] = class[n],
                                              !.current = @ \cup {n}]
  /\ stale' = stale \ {n}
  /\ queue' = queue \cup {n}
  /\ UNCHANGED <<class, dep, reg, up, w, d, inf, h, world>>

(* The garbage collector deletes what the Deployment owned. *)
Collect ==
  /\ dep = "gone"
  /\ \E c \in Classes :
       /\ class[c].owned /\ class[c].phase \in {"new", "live"}
       /\ StoreClasses([class EXCEPT ![c] = Deleted(@)])
  /\ UNCHANGED <<dep, reg, world, agent>>
-----------------------------------------------------------------------------
(* The ServiceClass controller. *)

Requeue == w' = Idle /\ queue' = queue \cup {w.c}

(* RunInformer, for the class as it was read, unless one runs under the    *)
(* name of the class.  The initial list makes no events.                   *)
SetWatchersForResources(c) ==
  inf' = IF inf[c] # NoInformer THEN inf
         ELSE [inf EXCEPT ![c] = [current |-> c \in cache.current,
            seen |-> [o \in ObjectsOf(c) |-> [phase |-> obj[o], current |-> TRUE]]]]

(* Variant: the finalizer decides, not the deletion timestamps. *)
EndsByFinalizer(c) ==
  IF c \notin stale
  THEN /\ class' = [class EXCEPT ![c].owned = TRUE]
       /\ stale' = IF class[c].owned THEN stale ELSE stale \cup {c}
       /\ SetWatchersForResources(c)
       /\ w' = [pc |-> "list", c |-> c, fresh |-> TRUE, current |-> c \in cache.current,
                finalizer |-> cache.class[c].phase # "new",
                ends |-> cache.class[c].phase # "new",
                items |-> {}, todo |-> {}, err |-> FALSE]
       /\ queue' = queue \ {c}
  ELSE UNCHANGED <<class, stale, inf, w, queue>>

(* The class is written with its owner, then the informer started. *)
setOwnerReference(c) ==
  IF c \notin stale
  THEN /\ class' = [class EXCEPT ![c].owned = TRUE]
       /\ stale' = IF class[c].owned THEN stale ELSE stale \cup {c}
       /\ SetWatchersForResources(c)
       /\ w' = [pc |-> "list", c |-> c, fresh |-> TRUE, current |-> c \in cache.current,
                finalizer |-> cache.class[c].phase # "new",
                ends |-> "terminating" \in {cache.class[c].phase, cache.dep},
                items |-> {}, todo |-> {}, err |-> FALSE]
       /\ queue' = queue \ {c}
  ELSE UNCHANGED <<class, stale, inf, w, queue>>

(* The same, when the kind of the resources cannot be mapped: there is no  *)
(* informer, and the class comes back.                                     *)
setOwnerUnwatched(c) ==
  /\ c \notin stale
  /\ class' = [class EXCEPT ![c].owned = TRUE]
  /\ stale' = IF class[c].owned THEN stale ELSE stale \cup {c}
  /\ UNCHANGED <<inf, w, queue>>

(* The class and the Deployment are read; without a Deployment the agent   *)
(* exits.                                                                  *)
Reconcile(c) ==
  /\ up /\ w.pc = "idle" /\ c \in queue
  /\ \/ /\ cache.class[c] = NoClass
        /\ queue' = queue \ {c}
        /\ UNCHANGED <<class, dep, reg, up, cache, stale, w, d, inf, h, world>>
     \/ /\ cache.class[c] # NoClass /\ cache.dep = "gone"
        /\ Stop
     \/ /\ cache.class[c] # NoClass /\ cache.dep # "gone"
        /\ \/ setOwnerReference(c)
           \/ Fails /\ setOwnerUnwatched(c)
        /\ UNCHANGED <<dep, reg, up, cache, d, h, world>>

GetResources ==
  /\ w.pc = "list"
  /\ LET items == {[obj |-> o, current |-> TRUE] :
                     o \in {x \in ObjectsOf(w.c) : obj[x] = "live"}}
     IN  \/ /\ w' = [w EXCEPT !.pc = "branch", !.items = items, !.todo = items]
            /\ UNCHANGED queue
         \/ Fails /\ Requeue
  /\ UNCHANGED <<class, dep, reg, up, cache, stale, d, inf, h, world>>

(* The finalizer is added, or the informer stopped, or there is nothing to *)
(* do.                                                                     *)
AddFinalizer ==
  /\ w.pc = "branch" /\ ~w.ends
  /\ IF w.finalizer
     THEN w' = [w EXCEPT !.pc = "items"] /\ UNCHANGED <<class, stale, queue>>
     ELSE IF w.fresh
     THEN /\ Update([class[w.c] EXCEPT !.phase = "live"])
          /\ w' = [w EXCEPT !.pc = "items", !.finalizer = TRUE]
          /\ UNCHANGED queue
     ELSE Requeue /\ UNCHANGED <<class, stale>>
  /\ UNCHANGED <<dep, reg, up, cache, d, inf, h, world>>

(* Variant: the informer is not stopped. *)
ForgetInformer ==
  /\ w.pc = "branch" /\ w.ends
  /\ w' = IF w.finalizer THEN [w EXCEPT !.pc = "items"] ELSE Idle
  /\ UNCHANGED <<class, dep, reg, up, cache, stale, queue, d, inf, h, world>>

(* The informer's context is cancelled, and its handler's calls with it: a *)
(* call is taken to have been served before, or not at all.                *)
StopInformer ==
  /\ w.pc = "branch" /\ w.ends
  /\ IF w.finalizer
     THEN /\ inf' = [inf EXCEPT ![w.c] = NoInformer]
          /\ h' = [h EXCEPT ![w.c] = NoEvent]
          /\ w' = [w EXCEPT !.pc = "items"]
     ELSE w' = Idle /\ UNCHANGED <<inf, h>>
  /\ UNCHANGED <<class, dep, reg, up, cache, stale, queue, d, world>>

(* PrepareRegisteredService: named after the resource, whatever its kind.  *)
PrepareRegisteredService(i, current) ==
  [obj |-> i.obj, current |-> i.current, class |-> current]

updateRegisteredService(i) ==
  reg' = [reg EXCEPT ![NameOf[i.obj]] = PrepareRegisteredService(i, w.current)]

deleteRegisteredService(i) == reg' = [reg EXCEPT ![NameOf[i.obj]] = NoReg]

(* HandleRegisteredServices: the resources that were listed are gone       *)
(* through, and an error is kept, that of a secret too, which is written   *)
(* after its RegisteredService; a connection that fails, or a mapping that *)
(* cannot be made, ends it.                                                *)
HandleRegisteredServices ==
  /\ w.pc = "items"
  /\ \/ \E i \in w.todo :
          \/ /\ IF w.ends THEN deleteRegisteredService(i) ELSE updateRegisteredService(i)
             /\ w' = [w EXCEPT !.todo = @ \ {i}]
          \/ /\ Fails /\ ~w.ends
             /\ updateRegisteredService(i)
             /\ w' = [w EXCEPT !.todo = @ \ {i}, !.err = TRUE]
          \/ /\ Fails
             /\ w' = [w EXCEPT !.todo = @ \ {i}, !.err = TRUE]
             /\ UNCHANGED reg
     \/ /\ Fails /\ (w.todo # {} \/ w.items = {})
        /\ w' = [w EXCEPT !.todo = {}, !.err = TRUE]
        /\ UNCHANGED reg
  /\ UNCHANGED <<class, dep, stale, world, agent>>

(* The finalizer goes, whatever became of the RegisteredServices.          *)
RemoveFinalizer ==
  /\ w.pc = "items" /\ w.todo = {} /\ w.ends
  /\ IF w.fresh
     THEN /\ Update(IF class[w.c].phase = "terminating" THEN NoClass
                         ELSE [class[w.c] EXCEPT !.phase = "new"])
          /\ w' = [w EXCEPT !.pc = "status", !.items = {}]
          /\ UNCHANGED queue
     ELSE Requeue /\ UNCHANGED <<class, stale>>
  /\ UNCHANGED <<dep, reg, up, cache, d, inf, h, world>>

UpdateStatus ==
  /\ \/ w.pc = "items" /\ w.todo = {} /\ ~w.ends
     \/ w.pc = "status"
  /\ IF w.fresh /\ class[w.c] # NoClass /\ ~w.err
     THEN w' = Idle /\ UNCHANGED queue
     ELSE Requeue
  /\ UNCHANGED <<class, dep, reg, up, cache, stale, d, inf, h, world>>
-----------------------------------------------------------------------------
(* The informers and their handlers. *)

(* The watch tells of the current state of a resource.  The handler is     *)
(* called for one that exists; for a deleted one it asks for the deletion  *)
(* of a RegisteredService with the name of the class and no namespace,     *)
(* a request the client refuses to send (DeleteRegisteredService).         *)
Notify(c, o) ==
  /\ inf[c] # NoInformer /\ h[c] = NoEvent
  /\ inf[c].seen[o] # [phase |-> obj[o], current |-> TRUE]
  /\ inf' = [inf EXCEPT ![c].seen[o] = [phase |-> obj[o], current |-> TRUE]]
  /\ h' = IF obj[o] = "live" THEN [h EXCEPT ![c] = [obj |-> o, current |-> TRUE]] ELSE h
  /\ UNCHANGED <<class, dep, reg, up, cache, stale, queue, w, d, world>>

(* Variant: a resync is ignored when the resource has not changed. *)
ResyncChanges(c, o) ==
  /\ inf[c] # NoInformer /\ h[c] = NoEvent
  /\ inf[c].seen[o].phase = "live" /\ ~inf[c].seen[o].current
  /\ h' = [h EXCEPT ![c] = [obj |-> o, current |-> inf[c].seen[o].current]]
  /\ UNCHANGED <<class, dep, reg, up, cache, stale, queue, w, d, inf, world>>

(* Every minute the handler is called for all resources of the store.      *)
Resync(c, o) ==
  /\ inf[c] # NoInformer /\ h[c] = NoEvent
  /\ inf[c].seen[o].phase = "live"
  /\ h' = [h EXCEPT ![c] = [obj |-> o, current |-> inf[c].seen[o].current]]
  /\ UNCHANGED <<class, dep, reg, up, cache, stale, queue, w, d, inf, world>>

(* CreateOrUpdateRegisteredService, with the class the informer was        *)
(* started for; an error is dropped.                                       *)
CreateOrUpdateRegisteredService(c) ==
  /\ h[c] # NoEvent
  /\ \/ reg' = [reg EXCEPT ![NameOf[h[c].obj]] = PrepareRegisteredService(h[c], inf[c].current)]
     \/ Fails /\ UNCHANGED reg
  /\ h' = [h EXCEPT ![c] = NoEvent]
  /\ UNCHANGED <<class, dep, up, cache, stale, queue, w, d, inf, world>>
-----------------------------------------------------------------------------
(* The controller of the agent's Deployment. *)

RequeueAgent == d' = Idle /\ queue' = queue \cup {Agent}

(* Without its Deployment the agent exits. *)
ReconcileAgent ==
  /\ up /\ d.pc = "idle" /\ Agent \in queue
  /\ cache.dep \in {"gone", "live"}
  /\ IF cache.dep = "gone" THEN Stop
     ELSE /\ queue' = queue \ {Agent}
          /\ UNCHANGED <<class, dep, reg, up, cache, stale, w, d, inf, h, world>>

AddAgentFinalizer ==
  /\ up /\ d.pc = "idle" /\ Agent \in queue
  /\ cache.dep = "new"
  /\ IF dep = "new" THEN /\ dep' = "live" /\ stale' = stale \cup {Agent}
                         /\ queue' = queue \ {Agent}
                    ELSE UNCHANGED <<dep, stale, queue>>
  /\ UNCHANGED <<class, reg, up, cache, w, d, inf, h, world>>

(* removeServiceClasses deletes all classes of the namespace ... *)
removeServiceClasses ==
  /\ up /\ d.pc = "idle" /\ Agent \in queue
  /\ cache.dep = "terminating"
  /\ StoreClasses([c \in Classes |-> Deleted(class[c])])
  /\ d' = [pc |-> "wait"]
  /\ queue' = queue \ {Agent}
  /\ UNCHANGED <<dep, reg, up, cache, inf, h, world>>

(* Variant: the wait for the classes is not an error, so not retried. *)
WaitOnce ==
  /\ d.pc = "wait"
  /\ IF dep = "terminating" /\ \A c \in Classes : cache.class[c] = NoClass
     THEN dep' = "gone" /\ stale' = stale \cup {Agent}
     ELSE UNCHANGED <<dep, stale>>
  /\ d' = Idle
  /\ UNCHANGED <<class, reg, up, cache, queue, w, inf, h, world>>

(* ... and the Deployment is kept until the cache shows none. *)
RemoveAgentFinalizer ==
  /\ d.pc = "wait"
  /\ IF dep = "terminating" /\ \A c \in Classes : cache.class[c] = NoClass
     THEN /\ dep' = "gone" /\ stale' = stale \cup {Agent}
          /\ d' = Idle /\ UNCHANGED queue
     ELSE RequeueAgent /\ UNCHANGED <<dep, stale>>
  /\ UNCHANGED <<class, reg, up, cache, w, inf, h, world>>
-----------------------------------------------------------------------------
ClassWorker ==
  \/ GetResources \/ AddFinalizer \/ StopInformer
  \/ HandleRegisteredServices \/ RemoveFinalizer \/ UpdateStatus

AgentController ==
  ReconcileAgent \/ AddAgentFinalizer \/ removeServiceClasses

Informers(c) == \E o \in ObjectsOf(c) : Notify(c, o) \/ Resync(c, o)

Next ==
  \/ \E o \in Objects : Users(o)
  \/ \E c \in Classes : PushClass(c) \/ UpdateClass(c) \/ Reconcile(c) \/ Informers(c)
                       \/ CreateOrUpdateRegisteredService(c)
  \/ DeleteAgent \/ Calm \/ DeletePod \/ Crash \/ Collect
  \/ \E n \in Classes \cup {Agent} : Sync(n)
  \/ ClassWorker \/ AgentController \/ RemoveAgentFinalizer

Spec == Init /\ [][Next]_vars

(* The workers run, watches deliver, informers resync; work queues and     *)
(* event queues are first in, first out.                                   *)
Fairness ==
  /\ \A n \in Classes \cup {Agent} : WF_vars(Sync(n))
  /\ \A c \in Classes :
       /\ SF_vars(Reconcile(c))
       /\ WF_vars(CreateOrUpdateRegisteredService(c))
       /\ \A o \in ObjectsOf(c) : SF_vars(Notify(c, o)) /\ SF_vars(Resync(c, o))
  /\ WF_vars(ClassWorker) /\ WF_vars(RemoveAgentFinalizer) /\ SF_vars(AgentController)
  /\ WF_vars(DeletePod) /\ WF_vars(Collect)

FairSpec == Spec /\ Fairness
-----------------------------------------------------------------------------
(* Properties. *)

(* What the agent has to register. *)
Discovered(o) ==
  /\ dep = "live" /\ class[ClassOf[o]].phase \in {"new", "live"}
  /\ obj[o] = "live"

(* Once users and the network leave the system alone, every resource of a  *)
(* class has a RegisteredService with its current content, although lists  *)
(* and events are handled side by side, handlers drop their errors and     *)
(* what was listed may be out of date when it is written.                  *)
ResourcesRegistered ==
  \A o \in Objects :
    <>[](calm /\ Discovered(o) => /\ reg[NameOf[o]] # NoReg
                                  /\ reg[NameOf[o]].obj = o
                                  /\ reg[NameOf[o]].current)

(* A RegisteredService is only deleted for a class or an agent that is     *)
(* being deleted, however old what the agent has read of them.             *)
DeletedWithClass ==
  [][\A n \in Names :
       reg[n] # NoReg /\ reg'[n] = NoReg
         => \/ dep \in {"terminating", "gone"}
            \/ class[ClassOf[reg[n].obj]].phase = "terminating"]_vars

(* When the finalizer of a class is about to go and nothing failed, the    *)
(* resources that were listed are unregistered: no handler has written one *)
(* of them back.  A name is used by one class only.                        *)
UnregisteredStay ==
  w.pc = "items" /\ w.todo = {} /\ w.ends /\ ~w.err
    => \A i \in w.items :
         reg[NameOf[i.obj]] = NoReg \/ ClassOf[reg[NameOf[i.obj]].obj] # w.c

(* A class or an agent that is deleted goes away in the end, although each *)
(* waits for a controller that the other one drives; a class with an agent *)
(* that is gone stays.                                                     *)
DeletionEnds ==
  /\ <>[](calm => dep # "terminating")
  /\ \A c \in Classes : <>[](calm /\ up => class[c].phase # "terminating")
-----------------------------------------------------------------------------
(* What the documentation and comments say of the agent, and the code does *)
(* not do.                                                                 *)

(* When a resource is deleted, so is its RegisteredService. *)
DeletedUnregistered ==
  \A o \in Objects :
    <>[](calm /\ obj[o] = "gone" => reg[NameOf[o]] = NoReg)

(* An update of a class reaches the RegisteredServices. *)
ClassUpdateReaches ==
  \A o \in Objects :
    <>[](calm /\ Discovered(o) /\ reg[NameOf[o]] # NoReg => reg[NameOf[o]].class)

(* The RegisteredServices of a class that has been deleted are deleted.    *)
ClassDeletionUnregisters ==
  \A o \in Objects :
    <>[](calm /\ class[ClassOf[o]] = NoClass => reg[NameOf[o]] = NoReg)

(* The informers are stopped if the service class is deleted. *)
InformerStopped ==
  \A c \in Classes : <>[](calm /\ class[c] = NoClass => inf[c] = NoInformer)
=============================================================================
