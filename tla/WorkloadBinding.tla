-------------------------- MODULE WorkloadBinding ---------------------------
(***************************************************************************)
(* The application agent: one ServiceBinding projected into the workloads  *)
(* of its namespace, by the reconciler and by the event handlers of the    *)
(* informer the reconciler starts for the binding.                         *)
(*                                                                         *)
(* The two run concurrently.  ServiceBindings are read from the agent's    *)
(* cache, workloads from the API server (the client does not cache         *)
(* unstructured objects) or from the event that carries them.  A write     *)
(* starts from such a copy and is rejected when the object has been        *)
(* written since: "fresh" and "held" say whose copies are current.  A      *)
(* write that changes nothing keeps the version and causes no event.       *)
(*                                                                         *)
(* One step is the code between two calls to the API server.  A cached     *)
(* secret is read when it is used; that it is older is the copy's being    *)
(* out of date at the next step.  Other ServiceBindings of the namespace   *)
(* are among the users, who write workloads too.                           *)
(***************************************************************************)
EXTENDS Naturals, Sequences

CONSTANTS
  Workloads,   \* names of workloads of the binding's kind
  Secrets,     \* names of secrets
  NoSecret,    \* no volume for the binding
  Labels,      \* what labels workloads may have: all those of the selector
               \* ("all"; also the name, for a binding by name), "some", "none"
  UserEnv,     \* environment variables users give their containers
  Finalized,   \* whether ServiceBindings are created with the finalizer;
               \* the one Reconcile adds to its copy is never written
  Ops,         \* what users do besides creating things
  MayFail,     \* calls to the API server (not reads of the cache) may fail
  MayCrash,    \* the agent may be restarted
  Backlog      \* bound on the undelivered events of one workload

ASSUME WorkloadAssumption ==
  /\ NoSecret \notin Secrets
  /\ Labels \subseteq {"all", "some", "none"}
  /\ UserEnv \subseteq {"own root", "plain"}
  /\ {"own root", "plain", "root"} \cap Secrets = {}
  /\ Finalized \in BOOLEAN
  /\ Ops \subseteq {"respec", "delete binding", "delete secret", "replace",
                  "relabel", "delete workload", "stop"}
  /\ MayFail \in BOOLEAN /\ MayCrash \in BOOLEAN
  /\ Backlog \in Nat \ {0}

VARIABLES
  binding,    \* the ServiceBinding in the API server
  cache,      \* the agent's cached ServiceBinding
  fresh,      \* the copies of the ServiceBinding that have its version
  secrets,    \* the secrets: absent, free, owned by the ServiceBinding, or
              \* owned by one that is gone ("old")
  workloads,  \* the workloads
  held,       \* per thread, the workloads it has a current copy of
  queued,     \* the work queue of the reconciler
  rec,        \* the reconciler
  informer,   \* the informer, with the secret named in its closure
  events,     \* its undelivered events, per workload
  hnd,        \* the event handler
  calm        \* users leave everything alone and calls succeed from now on

agent == <<queued, rec, informer, hnd>>
vars == <<binding, cache, fresh, secrets, workloads, held, queued, rec,
          informer, events, hnd, calm>>
-----------------------------------------------------------------------------
(* Objects and local state. *)

Reasons ==
  {"", "NoMatchingWorkloads", "ErrorFetchSecret", "Successful", "Binding Failure"}

(* The condition Bound is True exactly when its reason is Successful.      *)
Binding ==
  [phase : {"absent", "live", "terminating"}, fin : BOOLEAN, secret : Secrets,
   state : {"Malformed", "Ready"}, reason : Reasons, connections : SUBSET Workloads]

NewBinding(s) ==
  [phase |-> "live", fin |-> Finalized, secret |-> s, state |-> "Malformed",
   reason |-> "", connections |-> {}]

EnvVars == Secrets \cup {"own root", "root", "plain"}

(* volume: the secret of the volume, and volume mount, named after the     *)
(* binding; env: the variables of the containers, where a secret stands    *)
(* for the variables that refer to it, "root" for the                      *)
(* SERVICE_BINDING_ROOT the agent adds and "own root" for one of the       *)
(* user's; path: the variable under which the volume is mounted.           *)
Workload ==
  [exists : BOOLEAN, labels : {"all", "some", "none"},
   volume : Secrets \cup {NoSecret}, env : SUBSET EnvVars,
   path : {"", "root", "own root"}]

NoWorkload == [exists |-> FALSE, labels |-> "none", volume |-> NoSecret,
               env |-> {}, path |-> ""]

(* apps: what getApplication or getBoundApplications returned; bare: those *)
(* of them without volumes; todo: those still to be written; secret: that  *)
(* of the copied spec; current: the copy of the secret has its version.    *)
Reconciler ==
  [pc : {"idle", "apps", "noApps", "secret", "malformed", "bind", "own",
         "lookup", "unbind", "finalize"},
   apps : SUBSET Workloads, bare : SUBSET Workloads, todo : SUBSET Workloads,
   secret : Secrets \cup {NoSecret}, current : BOOLEAN, err : BOOLEAN]

Idle == [pc |-> "idle", apps |-> {}, bare |-> {}, todo |-> {},
         secret |-> NoSecret, current |-> FALSE, err |-> FALSE]

(* of: the workload of the event; ps: the secret of the closure, psSecret; *)
(* secret: that of the ServiceBinding read afterwards.                     *)
Handler ==
  [pc : {"idle", "secret", "malformed", "unbind", "get", "bind", "status", "prune"},
   of : SUBSET Workloads, ps : Secrets \cup {NoSecret},
   secret : Secrets \cup {NoSecret}, err : BOOLEAN]

HandlerIdle == [pc |-> "idle", of |-> {}, ps |-> NoSecret, secret |-> NoSecret,
                err |-> FALSE]

TypeOK ==
  /\ binding \in Binding /\ cache \in Binding
  /\ fresh \subseteq {"cache", "rec", "hnd", "closure"}
  /\ secrets \in [Secrets -> {"absent", "free", "owned", "old"}]
  /\ workloads \in [Workloads -> Workload]
  /\ held \in [{"rec", "hnd"} -> SUBSET Workloads]
  /\ queued \in BOOLEAN /\ calm \in BOOLEAN
  /\ rec \in Reconciler /\ hnd \in Handler
  /\ informer \in [on : BOOLEAN, secret : Secrets \cup {NoSecret}]
  /\ events \in [Workloads -> Seq({"all", "some", "none", "deleted"})]
  /\ \A w \in Workloads : Len(events[w]) <= Backlog

Off == [on |-> FALSE, secret |-> NoSecret]
NoEvents == [w \in Workloads |-> << >>]

Init ==
  /\ binding \in {[NewBinding(s) EXCEPT !.phase = "absent"] : s \in Secrets}
  /\ cache = binding /\ fresh = {"cache"}
  /\ secrets = [s \in Secrets |-> "absent"]
  /\ workloads = [w \in Workloads |-> NoWorkload]
  /\ held = [t \in {"rec", "hnd"} |-> {}]
  /\ queued = FALSE /\ rec = Idle
  /\ informer = Off /\ events = NoEvents /\ hnd = HandlerIdle
  /\ calm = FALSE
-----------------------------------------------------------------------------
(* The API server. *)

Existing == {w \in Workloads : workloads[w].exists}

(* What the List by labels, or the Get by name, of getApplication finds.   *)
Selected == {w \in Existing : workloads[w].labels = "all"}

Fails == MayFail /\ ~calm

(* A status update from thread t's copy; ok says whether it is accepted.   *)
(* No thread uses its copy again after such a write.                       *)
PutStatus(t, st, reason, conns, ok) ==
  \/ /\ ok /\ t \in fresh
     /\ binding' = [binding EXCEPT !.state = st, !.reason = reason,
                                   !.connections = conns]
     /\ fresh' = IF binding' = binding THEN fresh \ {t} ELSE {}
  \/ /\ ~ok /\ (t \notin fresh \/ Fails)
     /\ fresh' = fresh \ {t}
     /\ UNCHANGED binding

(* The informer is told of w.  An event is what the handlers look at in    *)
(* the object it carries: the labels.                                      *)
Notified(w, e) ==
  IF ~informer.on THEN events
  ELSE IF Len(events[w]) < Backlog THEN [events EXCEPT ![w] = Append(@, e)]
  ELSE [events EXCEPT ![w] = [@ EXCEPT ![Len(@)] = e]]

StoreWorkload(w, o) ==
  /\ o # workloads[w]
  /\ workloads' = [workloads EXCEPT ![w] = o]
  /\ held' = [t \in {"rec", "hnd"} |-> held[t] \ {w}]
  /\ events' = Notified(w, IF o.exists THEN o.labels ELSE "deleted")

(* An update of w from thread t's copy, which is then used no more.        *)
PutWorkload(t, w, o, ok) ==
  \/ ok /\ w \in held[t] /\ StoreWorkload(w, o)
  \/ /\ IF ok THEN w \in held[t] /\ o = workloads[w] ELSE w \notin held[t] \/ Fails
     /\ held' = [held EXCEPT ![t] = @ \ {w}]
     /\ UNCHANGED <<workloads, events>>

(* A secret is written or removed: the reconciler's copy of it is old.     *)
StoreSecret(s, st) ==
  /\ secrets' = [secrets EXCEPT ![s] = st]
  /\ rec' = IF rec.secret = s THEN [rec EXCEPT !.current = FALSE] ELSE rec
-----------------------------------------------------------------------------
(* Users. *)

CreateBinding(s) ==
  /\ ~calm
  /\ binding.phase = "absent" /\ (s = binding.secret \/ "respec" \in Ops)
  /\ binding' = NewBinding(s) /\ fresh' = {}
  /\ UNCHANGED <<cache, secrets, workloads, held, agent, events, calm>>

(* Another secret, or only another version: annotations, or the same spec  *)
(* pushed again.                                                           *)
EditBinding(s) ==
  /\ ~calm /\ "respec" \in Ops
  /\ binding.phase = "live"
  /\ binding' = [binding EXCEPT !.secret = s] /\ fresh' = {}
  /\ UNCHANGED <<cache, secrets, workloads, held, agent, events, calm>>

(* The secrets the binding owns are left to the garbage collector.         *)
Orphaned == [s \in Secrets |-> IF secrets[s] = "owned" THEN "old" ELSE secrets[s]]

DeleteBinding ==
  /\ ~calm /\ "delete binding" \in Ops
  /\ binding.phase = "live"
  /\ binding' = [binding EXCEPT !.phase = IF binding.fin THEN "terminating" ELSE "absent"]
  /\ secrets' = IF binding.fin THEN secrets ELSE Orphaned
  /\ fresh' = {}
  /\ UNCHANGED <<cache, workloads, held, agent, events, calm>>

CollectSecret(s) ==
  /\ secrets[s] = "old"
  /\ StoreSecret(s, "absent")
  /\ queued' = TRUE
  /\ UNCHANGED <<binding, cache, fresh, workloads, held, informer, events, hnd, calm>>

CreateSecret(s) ==
  /\ ~calm
  /\ secrets[s] = "absent" /\ StoreSecret(s, "free")
  /\ UNCHANGED <<binding, cache, fresh, workloads, held, queued, informer,
                 events, hnd, calm>>

(* An owned secret's events enqueue its owner (Owns).                      *)
DeleteSecret(s) ==
  /\ ~calm /\ "delete secret" \in Ops
  /\ secrets[s] # "absent" /\ StoreSecret(s, "absent")
  /\ queued' = (queued \/ secrets[s] # "free")
  /\ UNCHANGED <<binding, cache, fresh, workloads, held, informer, events, hnd, calm>>

(* A user creates w, patches its labels, or replaces it by its manifest,   *)
(* which has no projection.                                                *)
ApplyWorkload(w, l, patch) ==
  /\ ~calm /\ Len(events[w]) < Backlog
  /\ w \in Existing => (IF patch THEN "relabel" ELSE "replace") \in Ops
  /\ patch => w \in Existing
  /\ StoreWorkload(w, IF patch THEN [workloads[w] EXCEPT !.labels = l]
                      ELSE [NoWorkload EXCEPT !.exists = TRUE, !.labels = l,
                                              !.env = UserEnv])
  /\ UNCHANGED <<binding, cache, fresh, secrets, agent, calm>>

DeleteWorkload(w) ==
  /\ ~calm /\ Len(events[w]) < Backlog
  /\ w \in Existing /\ "delete workload" \in Ops
  /\ StoreWorkload(w, NoWorkload)
  /\ UNCHANGED <<binding, cache, fresh, secrets, agent, calm>>

CalmDown ==
  /\ "stop" \in Ops
  /\ ~calm /\ calm' = TRUE
  /\ UNCHANGED <<binding, cache, fresh, secrets, workloads, held, agent, events>>
-----------------------------------------------------------------------------
(* Watches, and the agent's start. *)

SyncBinding ==
  /\ "cache" \notin fresh
  /\ cache' = binding /\ fresh' = fresh \cup {"cache"}
  /\ queued' = TRUE
  /\ UNCHANGED <<binding, secrets, workloads, held, rec, informer, events, hnd, calm>>

(* The informer delivers an update of every workload each minute.          *)
Resync(w) ==
  /\ informer.on /\ events[w] = << >> /\ w \in Existing
  /\ events' = Notified(w, workloads[w].labels)
  /\ UNCHANGED <<binding, cache, fresh, secrets, workloads, held, agent, calm>>

Restart ==
  /\ MayCrash /\ ~calm
  /\ cache' = binding /\ fresh' = {"cache"}
  /\ held' = [t \in {"rec", "hnd"} |-> {}]
  /\ queued' = (binding.phase # "absent")
  /\ rec' = Idle /\ informer' = Off /\ events' = NoEvents /\ hnd' = HandlerIdle
  /\ UNCHANGED <<binding, secrets, workloads, calm>>
-----------------------------------------------------------------------------
(* What a projection does to a workload. *)

removeServiceBindingEnvironments(env, secret) == (env \cap Secrets) \ {secret}

(* prepareContainerWithMounts and updateContainerInfo: secret is that of   *)
(* the ServiceBinding, ps the secret that was read.                        *)
Bound(o, secret, ps) ==
  LET env == removeServiceBindingEnvironments(o.env, secret) \cup {ps}
      rooted == env \cap {"root", "own root"} # {}
  IN [o EXCEPT !.volume = secret,
               !.env = IF rooted THEN env ELSE env \cup {"root"},
               !.path = IF "own root" \in env THEN "own root" ELSE "root"]

(* removeVolumeMountAndEnvironment: returns early without volumes.         *)
Unbound(o, secret) ==
  IF o.volume = NoSecret THEN o
  ELSE [o EXCEPT !.volume = NoSecret, !.path = "",
                 !.env = removeServiceBindingEnvironments(
                           o.env \ {"root", "own root"}, secret)]

verifyApplicationSatisfiesServiceBindingSpec(labels) == labels \in {"all", "some"}
-----------------------------------------------------------------------------
(* The reconciler. *)

(* Reconcile returns; with an error the binding is queued again.           *)
Return(err) == rec' = Idle /\ queued' = (queued \/ err)

Step(pc) == rec.pc = pc /\ UNCHANGED <<cache, calm>>

(* The copy of a cached object has its version iff the cache has.          *)
Copied(t, F) == IF "cache" \in F THEN F \cup {t} ELSE F \ {t}

(* Nothing to do: the ServiceBinding is gone, or has no finalizer.         *)
ReconcileNothing ==
  /\ Step("idle") /\ queued /\ queued' = FALSE
  /\ cache.phase = "absent" \/ (cache.phase = "terminating" /\ ~cache.fin)
  /\ UNCHANGED <<binding, fresh, secrets, workloads, held, rec, informer, events, hnd>>

(* ensureInformerIsRunningForServiceBinding.  Events of the initial list   *)
(* are ignored; those delivered after synced has been set are like the     *)
(* events of a Resync.                                                     *)
ReconcileLive(ok) ==
  /\ Step("idle") /\ queued
  /\ cache.phase = "live"
  /\ IF ok
     THEN /\ queued' = FALSE
          /\ rec' = [Idle EXCEPT !.pc = "apps", !.secret = cache.secret]
          /\ informer' = IF informer.on THEN informer
                         ELSE [on |-> TRUE, secret |-> cache.secret]
          /\ fresh' = Copied("rec", IF informer.on THEN fresh
                                    ELSE Copied("closure", fresh))
     ELSE Fails /\ UNCHANGED <<agent, fresh>>
  /\ UNCHANGED <<binding, secrets, workloads, held, events, hnd>>

getApplication(ok) ==
  /\ Step("apps")
  /\ ok \/ Fails
  /\ LET apps == IF ok THEN Selected ELSE {} IN
     /\ rec' = [rec EXCEPT !.pc = IF apps = {} THEN "noApps" ELSE "secret",
                           !.apps = apps,
                           !.bare = {w \in apps : workloads[w].volume = NoSecret}]
     /\ held' = [held EXCEPT !["rec"] = apps]
  /\ UNCHANGED <<binding, fresh, secrets, workloads, queued, informer, events, hnd>>

(* Variant: without applications nothing is tried again. *)
ReportNoApplicationsNoRetry(ok) ==
  /\ Step("noApps")
  /\ PutStatus("rec", "Ready", "NoMatchingWorkloads", binding.connections, ok)
  /\ Return(FALSE)
  /\ UNCHANGED <<secrets, workloads, held, informer, events, hnd>>

(* The connections stay as they are.                                       *)
ReportNoApplications(ok) ==
  /\ Step("noApps")
  /\ PutStatus("rec", "Ready", "NoMatchingWorkloads", binding.connections, ok)
  /\ Return(TRUE)
  /\ UNCHANGED <<secrets, workloads, held, informer, events, hnd>>

(* Secrets are cached: the read fails only when there is none.             *)
GetSecret ==
  /\ Step("secret")
  /\ LET ok == secrets[rec.secret] # "absent" IN
     rec' = [rec EXCEPT !.pc = IF ok THEN "bind" ELSE "malformed",
                        !.todo = rec.apps, !.current = ok]
  /\ UNCHANGED <<binding, fresh, secrets, workloads, held, queued, informer, events, hnd>>

(* Variant: a missing secret is reported and the projection left alone. *)
ReportNoSecretOnly(ok) ==
  /\ Step("malformed")
  /\ PutStatus("rec", "Malformed", "ErrorFetchSecret", binding.connections, ok)
  /\ Return(TRUE) /\ held' = [held EXCEPT !["rec"] = {}]
  /\ UNCHANGED <<secrets, workloads, informer, events, hnd>>

(* Only a status that could be written is followed by the unbinding.       *)
ReportNoSecret(ok) ==
  /\ Step("malformed")
  /\ PutStatus("rec", "Malformed", "ErrorFetchSecret", binding.connections, ok)
  /\ IF ok THEN rec' = [rec EXCEPT !.pc = "unbind"] /\ UNCHANGED <<queued, held>>
     ELSE Return(TRUE) /\ held' = [held EXCEPT !["rec"] = {}]
  /\ UNCHANGED <<secrets, workloads, informer, events, hnd>>

prepareContainerWithMounts(w, ok) ==
  /\ Step("bind") /\ w \in rec.todo
  /\ PutWorkload("rec", w, Bound(workloads[w], rec.secret, rec.secret), ok)
  /\ rec' = [rec EXCEPT !.todo = @ \ {w}, !.err = @ \/ ~ok]
  /\ UNCHANGED <<binding, fresh, secrets, queued, informer, hnd>>

(* Variant: state and reason are interchanged. *)
bindApplicationsSwapped(ok) ==
  /\ Step("bind") /\ rec.todo = {}
  /\ IF rec.err THEN PutStatus("rec", "Binding Failure", "Malformed", rec.apps, ok)
     ELSE PutStatus("rec", "Successful", "Ready", rec.apps, ok)
  /\ IF ok /\ ~rec.err THEN rec' = [rec EXCEPT !.pc = "own"] /\ UNCHANGED queued
     ELSE Return(TRUE)
  /\ UNCHANGED <<secrets, workloads, held, informer, events, hnd>>

(* The end of bindApplications: every application is a connection, bound   *)
(* or not.                                                                 *)
bindApplications(ok) ==
  /\ Step("bind") /\ rec.todo = {}
  /\ IF rec.err THEN PutStatus("rec", "Malformed", "Binding Failure", rec.apps, ok)
     ELSE PutStatus("rec", "Ready", "Successful", rec.apps, ok)
  /\ IF ok /\ ~rec.err THEN rec' = [rec EXCEPT !.pc = "own"] /\ UNCHANGED queued
     ELSE Return(TRUE)
  /\ UNCHANGED <<secrets, workloads, held, informer, events, hnd>>

(* Whom a secret belongs to when the reconciler makes its ServiceBinding   *)
(* the owner: without a finalizer that one may be gone by now.             *)
Owners == IF Finalized \/ "delete binding" \notin Ops THEN {"owned"} ELSE {"owned", "old"}

(* SetControllerReference refuses a secret another object owns.  The       *)
(* update of the secret comes back as an event of its owner.               *)
SetOwner(ok) ==
  /\ Step("own")
  /\ LET st == secrets[rec.secret] IN
     \/ /\ ok /\ rec.current /\ st # "old"
        /\ \E o \in IF st = "free" THEN Owners ELSE {"owned"} :
             secrets' = [secrets EXCEPT ![rec.secret] = o]
        /\ Return(st # "owned")
     \/ /\ ~ok /\ (~rec.current \/ st = "old" \/ Fails)
        /\ Return(TRUE)
        /\ UNCHANGED secrets
  /\ UNCHANGED <<binding, fresh, workloads, held, informer, events, hnd>>
-----------------------------------------------------------------------------
(* finalizeServiceBinding, and the unbinding it shares with GetSecret. *)

(* The informer is stopped, and its context with it: what its handler has  *)
(* begun fails from here on.                                               *)
ReconcileDeleted ==
  /\ Step("idle") /\ queued /\ queued' = FALSE
  /\ cache.phase = "terminating" /\ cache.fin
  /\ informer' = Off /\ events' = NoEvents /\ hnd' = HandlerIdle
  /\ held' = [held EXCEPT !["hnd"] = {}]
  /\ fresh' = Copied("rec", fresh \ {"closure", "hnd"})
  /\ rec' = [Idle EXCEPT !.pc = "lookup", !.secret = cache.secret,
                         !.apps = cache.connections]
  /\ UNCHANGED <<binding, secrets, workloads>>

(* A connection that cannot be read is an error, kept for the end.         *)
getBoundApplications(unread) ==
  /\ Step("lookup")
  /\ LET found == rec.apps \cap Existing IN
     /\ unread \subseteq (IF Fails THEN found ELSE {})
     /\ held' = [held EXCEPT !["rec"] = found \ unread]
     /\ rec' = [rec EXCEPT !.pc = "finalize",
                  !.apps = found \ unread, !.todo = found \ unread,
                  !.bare = {w \in found : workloads[w].volume = NoSecret},
                  !.err = found \ unread # rec.apps]
  /\ UNCHANGED <<binding, fresh, secrets, workloads, queued, informer, events, hnd>>

unbindApplication(w, ok) ==
  /\ rec.pc \in {"unbind", "finalize"} /\ w \in rec.todo
  /\ IF w \in rec.bare
     THEN /\ ok /\ held' = [held EXCEPT !["rec"] = @ \ {w}]
          /\ UNCHANGED <<workloads, events>>
     ELSE PutWorkload("rec", w, Unbound(workloads[w], rec.secret), ok)
  /\ rec' = [rec EXCEPT !.todo = @ \ {w}, !.err = @ \/ ~ok]
  /\ UNCHANGED <<binding, cache, fresh, secrets, queued, informer, hnd, calm>>

(* After a missing secret, or an error in the finalization: try again.     *)
UnbindReturns ==
  /\ rec.pc = "unbind" \/ (rec.pc = "finalize" /\ rec.err)
  /\ rec.todo = {}
  /\ Return(TRUE) /\ fresh' = fresh \ {"rec"}
  /\ UNCHANGED <<binding, cache, secrets, workloads, held, informer, events, hnd, calm>>

(* Variant: the error of the last update is dropped. *)
RemoveFinalizerNoRetry(ok) ==
  /\ Step("finalize") /\ rec.todo = {} /\ ~rec.err
  /\ \/ /\ ok /\ "rec" \in fresh
        /\ binding' = [binding EXCEPT !.phase = "absent"]
        /\ secrets' = Orphaned /\ fresh' = {}
     \/ /\ ~ok /\ ("rec" \notin fresh \/ Fails)
        /\ fresh' = fresh \ {"rec"}
        /\ UNCHANGED <<binding, secrets>>
  /\ Return(FALSE)
  /\ UNCHANGED <<workloads, held, informer, events, hnd>>

RemoveFinalizer(ok) ==
  /\ Step("finalize") /\ rec.todo = {} /\ ~rec.err
  /\ \/ /\ ok /\ "rec" \in fresh
        /\ binding' = [binding EXCEPT !.phase = "absent"]
        /\ secrets' = Orphaned /\ fresh' = {}
     \/ /\ ~ok /\ ("rec" \notin fresh \/ Fails)
        /\ fresh' = fresh \ {"rec"}
        /\ UNCHANGED <<binding, secrets>>
  /\ Return(~ok)
  /\ UNCHANGED <<workloads, held, informer, events, hnd>>
-----------------------------------------------------------------------------
(* The informer's event handlers, which run one after the other.  Their    *)
(* errors are logged and nothing is tried again.                           *)

HandlerStep(pc) == hnd.pc = pc /\ UNCHANGED <<cache, queued, rec, informer, calm>>

HandlerReturns == hnd' = HandlerIdle

(* prepareAddFunc and prepareUpdateFunc.  The object of the event has the  *)
(* current version if no other event of w is waiting.                      *)
HandleChange(w) ==
  /\ HandlerStep("idle")
  /\ events[w] # << >> /\ Head(events[w]) # "deleted"
  /\ events' = [events EXCEPT ![w] = Tail(@)]
  /\ IF verifyApplicationSatisfiesServiceBindingSpec(Head(events[w]))
     THEN /\ hnd' = [HandlerIdle EXCEPT !.pc = "secret", !.of = {w},
                                        !.ps = informer.secret]
          /\ held' = [held EXCEPT !["hnd"] = IF events'[w] = << >> THEN {w} ELSE {}]
     ELSE UNCHANGED <<hnd, held>>
  /\ UNCHANGED <<binding, fresh, secrets, workloads>>

(* The ServiceBinding is the one captured when the informer was started.   *)
HandlerGetSecret ==
  /\ HandlerStep("secret")
  /\ LET ok == secrets[hnd.ps] # "absent" IN
     /\ hnd' = [hnd EXCEPT !.pc = IF ok THEN "get" ELSE "malformed"]
     /\ fresh' = IF ~ok /\ "closure" \in fresh THEN fresh \cup {"hnd"} ELSE fresh
  /\ UNCHANGED <<binding, secrets, workloads, held, events>>

HandlerReportNoSecret(ok) ==
  /\ HandlerStep("malformed")
  /\ PutStatus("hnd", "Malformed", "ErrorFetchSecret", binding.connections, ok)
  /\ IF ok THEN hnd' = [hnd EXCEPT !.pc = "unbind"] /\ UNCHANGED held
     ELSE HandlerReturns /\ held' = [held EXCEPT !["hnd"] = {}]
  /\ UNCHANGED <<secrets, workloads, events>>

HandlerUnbind(ok) ==
  /\ HandlerStep("unbind")
  /\ \E w \in hnd.of : PutWorkload("hnd", w, Unbound(workloads[w], hnd.ps), ok)
  /\ HandlerReturns
  /\ UNCHANGED <<binding, fresh, secrets>>

(* The ServiceBinding is read again, whether or not it is being deleted.   *)
HandlerGetBinding ==
  /\ HandlerStep("get")
  /\ IF cache.phase # "absent"
     THEN /\ hnd' = [hnd EXCEPT !.pc = "bind", !.secret = cache.secret]
          /\ fresh' = Copied("hnd", fresh)
          /\ UNCHANGED held
     ELSE /\ HandlerReturns
          /\ held' = [held EXCEPT !["hnd"] = {}]
          /\ UNCHANGED fresh
  /\ UNCHANGED <<binding, secrets, workloads, events>>

HandlerBind(ok) ==
  /\ HandlerStep("bind")
  /\ \E w \in hnd.of :
       PutWorkload("hnd", w, Bound(workloads[w], hnd.secret, hnd.ps), ok)
  /\ hnd' = [hnd EXCEPT !.pc = "status", !.err = ~ok]
  /\ UNCHANGED <<binding, fresh, secrets>>

(* bindApplications with one application: it is the only connection.       *)
HandlerBound(ok) ==
  /\ HandlerStep("status")
  /\ IF hnd.err THEN PutStatus("hnd", "Malformed", "Binding Failure", hnd.of, ok)
     ELSE PutStatus("hnd", "Ready", "Successful", hnd.of, ok)
  /\ HandlerReturns
  /\ UNCHANGED <<secrets, workloads, held, events>>

(* prepareDeleteFunc *)
HandleDelete(w) ==
  /\ HandlerStep("idle")
  /\ events[w] # << >> /\ Head(events[w]) = "deleted"
  /\ events' = [events EXCEPT ![w] = Tail(@)]
  /\ IF cache.phase # "absent" /\ w \in cache.connections
     THEN /\ hnd' = [HandlerIdle EXCEPT !.pc = "prune", !.of = {w}]
          /\ fresh' = Copied("hnd", fresh)
     ELSE UNCHANGED <<hnd, fresh>>
  /\ UNCHANGED <<binding, secrets, workloads, held>>

HandlerPrune(ok) ==
  /\ HandlerStep("prune")
  /\ PutStatus("hnd", "Ready", "NoMatchingWorkloads",
               binding.connections \ hnd.of, ok)
  /\ HandlerReturns
  /\ UNCHANGED <<secrets, workloads, held, events>>
-----------------------------------------------------------------------------
Users ==
  \/ \E s \in Secrets : CreateBinding(s) \/ EditBinding(s)
  \/ DeleteBinding
  \/ \E s \in Secrets : CreateSecret(s) \/ DeleteSecret(s)
  \/ \E w \in Workloads :
       DeleteWorkload(w) \/ \E l \in Labels, p \in BOOLEAN : ApplyWorkload(w, l, p)
  \/ CalmDown

Reconcile ==
  \/ ReconcileNothing \/ ReconcileDeleted \/ GetSecret \/ UnbindReturns
  \/ \E unread \in SUBSET Workloads : getBoundApplications(unread)
  \/ \E ok \in BOOLEAN :
       \/ ReconcileLive(ok)
       \/ getApplication(ok) \/ ReportNoApplications(ok)
       \/ ReportNoSecret(ok) \/ bindApplications(ok)
       \/ SetOwner(ok) \/ RemoveFinalizer(ok)
       \/ \E w \in Workloads :
            prepareContainerWithMounts(w, ok) \/ unbindApplication(w, ok)

Handle ==
  \/ \E w \in Workloads : HandleChange(w) \/ HandleDelete(w)
  \/ HandlerGetSecret \/ HandlerGetBinding
  \/ \E ok \in BOOLEAN :
       \/ HandlerReportNoSecret(ok) \/ HandlerUnbind(ok)
       \/ HandlerBind(ok) \/ HandlerBound(ok) \/ HandlerPrune(ok)

Collect == \E s \in Secrets : CollectSecret(s)

Next ==
  \/ Users \/ Restart \/ Reconcile \/ Handle \/ SyncBinding \/ Collect
  \/ \E w \in Workloads : Resync(w)

Spec == Init /\ [][Next]_vars

(* The reconciler and the handler keep running, watches deliver, and the   *)
(* informer resyncs.                                                       *)
FairSpec ==
  /\ Spec
  /\ WF_vars(Reconcile) /\ WF_vars(Handle) /\ WF_vars(SyncBinding) /\ WF_vars(Collect)
  /\ \A w \in Workloads : WF_vars(Resync(w))
-----------------------------------------------------------------------------
(* Properties. *)

Live == binding.phase = "live"

(* Nothing is left to be done by the agent. *)
Quiescent ==
  /\ "cache" \in fresh /\ ~queued
  /\ rec.pc = "idle" /\ hnd.pc = "idle"
  /\ \A w \in Workloads : events[w] = << >>

(* The handlers know the secret of the binding. *)
ClosureCurrent == informer.on => informer.secret = binding.secret

Settled ==
  /\ binding.reason = "Successful" /\ binding.state = "Ready"
  /\ secrets[binding.secret] = "owned"
  /\ \A w \in Selected : /\ workloads[w].volume = binding.secret
                         /\ w \in binding.connections

(* The agent never rests on unfinished work: when nothing is queued, under *)
(* way or undelivered, every selected workload has the binding's secret    *)
(* and is listed as connected, the secret is owned, and the status says    *)
(* Bound.  Handlers drop their errors, so this rests on a rejected or      *)
(* overwritten status always coming back as an event of the binding.  The  *)
(* proviso: the binding still names the secret its informer started with.  *)
RestIsSettled == Live /\ Quiescent /\ ClosureCurrent => Settled

(* Once users and the network leave the system alone, every selected       *)
(* workload ends up with the projection if the binding's secret exists,    *)
(* and without it, the binding being Malformed, if it does not -- whatever *)
(* was lost or rejected before.                                            *)
WorkloadsConverge ==
  <>calm => <>[](Live /\ ClosureCurrent => \A w \in Selected :
     IF secrets[binding.secret] = "absent"
     THEN workloads[w].volume = NoSecret /\ binding.state = "Malformed"
     ELSE workloads[w].volume = binding.secret)

(* "When a ServiceBinding is updated, Primaza Application Agent will       *)
(* update the workload resources with the secret details": no workload is  *)
(* left without the secret of an updated binding.                          *)
UpdateIsProjected == Live /\ Quiescent => Settled

(* "If the ServiceBinding is deleted the secret projection from the        *)
(* workloads is removed too": none is left when the agent is done.         *)
DeletionUnbinds ==
  binding.phase = "absent" /\ Quiescent =>
    \A w \in Existing : workloads[w].volume = NoSecret

(* A ServiceBinding that is deleted does go away, whatever is rejected or  *)
(* fails meanwhile.  It needs the connected workloads to exist: one that   *)
(* is gone makes getBoundApplications fail at every attempt.               *)
DeletionEnds == <>calm => <>[](binding.phase # "terminating")

(* "SERVICE_BINDING_ROOT points to the environment variable in the         *)
(* container which is used as the volume mount path."                      *)
RootIsUsed ==
  \A w \in Existing :
    "own root" \in UserEnv /\ workloads[w].volume # NoSecret
      => workloads[w].path = "own root"

(* Only matching applications are projected into: not those with some of   *)
(* the labels of the selector.                                             *)
OnlySelectedBound ==
  "relabel" \notin Ops =>
    \A w \in Existing : workloads[w].volume # NoSecret => w \in Selected
=============================================================================
