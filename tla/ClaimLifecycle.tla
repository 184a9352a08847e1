--------------------------- MODULE ClaimLifecycle ---------------------------
(***************************************************************************)
(* The life of ServiceClaims and RegisteredServices in Primaza's control   *)
(* plane: the ServiceClaim controller, the status half of the              *)
(* RegisteredService controller, and the ClusterEnvironment controller's   *)
(* pass that pushes ServiceBindings again, running concurrently in one     *)
(* manager against the API server.                                         *)
(*                                                                         *)
(* Reads go through the manager's cache, which lags the API server.        *)
(* Writes carry the resourceVersion of the copy they start from, and the   *)
(* API server rejects the write when the object has been written since.    *)
(* A resourceVersion is only ever compared for equality with the current   *)
(* one, so each copy carries a flag "fresh": no write has been made since  *)
(* the copy's version.  A write that changes nothing keeps the version.    *)
(*                                                                         *)
(* The claim controller has one worker w and the RegisteredService         *)
(* controller one worker v (MaxConcurrentReconciles is left at 1).  One    *)
(* step of a worker is the code between two calls to an API server.        *)
(***************************************************************************)
EXTENDS Matching

CONSTANTS
  Claims,          \* names of ServiceClaims
  Services,        \* names of RegisteredServices
  NoService,       \* a nil status.registeredService
  NoClaim,         \* the worker's claim when it has none
  NoPush,          \* a claim the environment pass has nothing to push for
  NoEnv,           \* the empty environment tag
  ClaimSCI,        \* [Claims -> Seq(item)]: spec.serviceClassIdentity
  ServiceSCI,      \* [Services -> Seq(item)]
  EnvironmentTag,  \* [Claims -> environment or NoEnv]: spec.target.environmentTag
  ClusterEnv,      \* [Claims -> environment or NoEnv]: the environmentName of the
                   \* ClusterEnvironment in spec.target.applicationClusterContext
  Hosted,          \* claims with an application namespace to be pushed to: one of
                   \* a ClusterEnvironment with the tag, or the target's own if
                   \* its ClusterEnvironment lists it
  Constraints,     \* [Services -> Seq(constraint)]: spec.constraints.environments
  HealthChecked,   \* services with spec.healthCheck
  Deletable,       \* claims their users may delete
  Removable,       \* services that may be deleted
  Editable,        \* services and claims whose spec may be edited
  MayFail,         \* calls to other clusters and reads of secrets may fail
  MayCrash,        \* the manager may be restarted
  EnvPushes        \* the ClusterEnvironment controller reconciles as well

ASSUME ConstantsAssumption ==
  /\ NoService \notin Services
  /\ NoClaim \notin Claims
  /\ Claims \cap Services = {}
  /\ NoPush \notin Services \cup {NoService}
  /\ Hosted \subseteq Claims
  /\ HealthChecked \subseteq Services
  /\ Deletable \subseteq Claims
  /\ Removable \subseteq Services
  /\ MayFail \in BOOLEAN /\ MayCrash \in BOOLEAN /\ EnvPushes \in BOOLEAN

VARIABLES
  claim,    \* the ServiceClaims in the API server
  svc,      \* status.state of the RegisteredServices in the API server
  cCache,   \* the manager's cache of ServiceClaims
  sCache,   \* the manager's cache of RegisteredServices (their states)
  stale,    \* claims and services whose cached version is not the current one
  edited,   \* claims and services whose generation has changed since their
            \* cached version, which GenerationChangedPredicate lets through
  cq,       \* work queue of the ServiceClaim controller
  w,        \* worker of the ServiceClaim controller
  v,        \* worker of the RegisteredService controller
  env,      \* the environment pass: what is left to push, per claim
  binding,  \* the service named by the claim's ServiceBinding in the
            \* application namespaces, NoService when there is none
  stray     \* history: services taken from under a claim that held them

caches == <<cCache, sCache>>
version == <<stale, edited>>
vars == <<claim, svc, cCache, sCache, stale, edited, cq, w, v, env, binding, stray>>
-----------------------------------------------------------------------------
(* Objects and local state. *)

SvcOrNone == Services \cup {NoService}

SvcState == {"absent", "", "Available", "Claimed", "Unreachable", "Unknown"}

(* A ServiceClaim: fin is Primaza's finalizer, id a non-empty claimID.     *)
ClaimObj ==
  [phase : {"absent", "live", "terminating"}, fin : BOOLEAN, id : BOOLEAN,
   state : {"", "Pending", "Resolved"}, rs : SvcOrNone]

NoObj == [phase |-> "absent", fin |-> FALSE, id |-> FALSE, state |-> "",
          rs |-> NoService]

ClaimSteps ==
  {"idle", "finalizer", "initialize", "choose", "noMatch", "again",
   "markPending", "claimService", "push", "rollback", "markResolved",
   "unbind", "release", "removeFinalizer"}

(* obj, fresh: the in-memory ServiceClaim; svc, sfresh: the in-memory      *)
(* RegisteredService; resolved: the claim came in through                  *)
(* processResolvedServiceClaim; err: an error was kept for later;          *)
(* lost: the push failed with NotFound.                                    *)
Worker ==
  [pc : ClaimSteps, c : Claims \cup {NoClaim}, obj : ClaimObj,
   fresh : BOOLEAN, svc : SvcOrNone, sfresh : BOOLEAN,
   resolved : BOOLEAN, err : BOOLEAN, lost : BOOLEAN]

Idle == [pc |-> "idle", c |-> NoClaim, obj |-> NoObj, fresh |-> FALSE,
         svc |-> NoService, sfresh |-> FALSE,
         resolved |-> FALSE, err |-> FALSE, lost |-> FALSE]

SvcWorker ==
  [pc : {"idle", "update"}, s : SvcOrNone, state : SvcState, fresh : BOOLEAN]

SvcIdle == [pc |-> "idle", s |-> NoService, state |-> "absent", fresh |-> FALSE]

TypeOK ==
  /\ claim \in [Claims -> ClaimObj]
  /\ svc \in [Services -> SvcState]
  /\ cCache \in [Claims -> ClaimObj]
  /\ sCache \in [Services -> SvcState]
  /\ stale \subseteq Claims \cup Services
  /\ edited \subseteq Claims \cup Services
  /\ cq \subseteq Claims
  /\ w \in Worker
  /\ v \in SvcWorker
  /\ env \in [Claims -> SvcOrNone \cup {NoPush}]
  /\ binding \in [Claims -> SvcOrNone]
  /\ stray \subseteq Services

Init ==
  /\ claim = [c \in Claims |-> NoObj]
  /\ svc = [s \in Services |-> "absent"]
  /\ cCache = claim
  /\ sCache = svc
  /\ stale = {} /\ edited = {}
  /\ cq = {}
  /\ w = Idle /\ v = SvcIdle
  /\ env = [c \in Claims |-> NoPush]
  /\ binding = [c \in Claims |-> NoService]
  /\ stray = {}
-----------------------------------------------------------------------------
(* The API server. *)

(* c is written to o: every older copy is out of date. *)
StoreClaim(c, o, edit) ==
  /\ claim' = [claim EXCEPT ![c] = o]
  /\ stale' = IF edit \/ o # claim[c] THEN stale \cup {c} ELSE stale
  /\ edited' = IF edit THEN edited \cup {c} ELSE edited

(* A claim uses a service: its status says Resolved and it is not being    *)
(* deleted, or the controller has marked the service Claimed for it and is *)
(* about to say so.                                                        *)
Holds(c, s) ==
  \/ /\ claim[c].phase = "live"
     /\ claim[c].state = "Resolved" /\ claim[c].rs = s
  \/ w.pc \in {"push", "markResolved"} /\ w.c = c /\ w.svc = s

(* s is written to state by the controller working on claim c (NoClaim for *)
(* anyone else).  A change is history's business when s stops being        *)
(* Claimed although another claim holds it.                                *)
StoreService(s, state, c, edit) ==
  /\ svc' = [svc EXCEPT ![s] = state]
  /\ stale' = IF edit \/ state # svc[s] THEN stale \cup {s} ELSE stale
  /\ edited' = IF edit THEN edited \cup {s} ELSE edited
  /\ stray' = IF svc[s] = "Claimed" /\ state # "Claimed"
                 /\ \E d \in Claims \ {c} : Holds(d, s)
              THEN stray \cup {s} ELSE stray

(* The copies the workers keep of a claim or a service, after someone else *)
(* has written it.                                                         *)
OutdateClaimCopy(c) ==
  w' = IF w.c = c THEN [w EXCEPT !.fresh = FALSE] ELSE w

OutdateServiceCopy(s, changed) ==
  w' = IF w.svc = s /\ changed THEN [w EXCEPT !.sfresh = FALSE] ELSE w
-----------------------------------------------------------------------------
(* Users of the control plane. *)

CreateClaim(c) ==
  /\ claim[c].phase = "absent"
  /\ StoreClaim(c, [NoObj EXCEPT !.phase = "live"], TRUE)
  /\ OutdateClaimCopy(c)
  /\ UNCHANGED <<svc, caches, cq, v, env, binding, stray>>

(* Deletion waits for the finalizer when there is one. *)
DeleteClaim(c) ==
  /\ c \in Deletable
  /\ claim[c].phase = "live"
  /\ StoreClaim(c, IF claim[c].fin THEN [claim[c] EXCEPT !.phase = "terminating"]
                                   ELSE NoObj, TRUE)
  /\ OutdateClaimCopy(c)
  /\ UNCHANGED <<svc, caches, cq, v, env, binding, stray>>

EditClaim(c) ==
  /\ c \in Editable
  /\ claim[c].phase = "live"
  /\ StoreClaim(c, claim[c], TRUE)
  /\ OutdateClaimCopy(c)
  /\ UNCHANGED <<svc, caches, cq, v, env, binding, stray>>

OutdateSvcWorker(s) ==
  v' = IF v.s = s THEN [v EXCEPT !.fresh = FALSE] ELSE v

(* A deleted service's name is used again only when nothing in the control *)
(* plane refers to it any more (references carry a UID as well).           *)
CreateService(s) ==
  /\ svc[s] = "absent" /\ s \notin stale
  /\ \A c \in Claims : claim[c].rs # s /\ cCache[c].rs # s /\ w.svc # s
  /\ StoreService(s, "", NoClaim, TRUE)
  /\ OutdateServiceCopy(s, TRUE) /\ OutdateSvcWorker(s)
  /\ UNCHANGED <<claim, caches, cq, env, binding>>

DeleteService(s) ==
  /\ s \in Removable
  /\ svc[s] # "absent"
  /\ StoreService(s, "absent", NoClaim, TRUE)
  /\ OutdateServiceCopy(s, TRUE) /\ OutdateSvcWorker(s)
  /\ UNCHANGED <<claim, caches, cq, env, binding>>

EditService(s) ==
  /\ s \in Editable
  /\ svc[s] # "absent"
  /\ StoreService(s, svc[s], NoClaim, TRUE)
  /\ OutdateServiceCopy(s, TRUE) /\ OutdateSvcWorker(s)
  /\ UNCHANGED <<claim, caches, cq, env, binding>>
-----------------------------------------------------------------------------
(* The manager's cache. *)

(* A watch event brings the cached claim up to date; the predicate drops   *)
(* the ones that leave the generation alone.                               *)
SyncClaim(c) ==
  /\ c \in stale
  /\ cCache' = [cCache EXCEPT ![c] = claim[c]]
  /\ stale' = stale \ {c} /\ edited' = edited \ {c}
  /\ cq' = IF c \in edited THEN cq \cup {c} ELSE cq
  /\ UNCHANGED <<claim, svc, sCache, w, v, env, binding, stray>>

(* reconcileOnRegisteredServiceUpdate: the first cached claim that is      *)
(* Resolved with a Claimed service; lists come in no particular order.     *)
Mapped(s, state) ==
  LET users == {c \in Claims : /\ cCache[c].state = "Resolved"
                               /\ cCache[c].rs = s}
  IN  IF state = "Claimed" /\ users # {} THEN users ELSE {NoClaim}

(* Variant: the mapping's empty answer is queued too. *)
SyncServiceEmptyRequest(s) ==
  /\ s \in stale
  /\ sCache' = [sCache EXCEPT ![s] = svc[s]]
  /\ stale' = stale \ {s} /\ edited' = edited \ {s}
  /\ \E c1 \in Mapped(s, sCache[s]), c2 \in Mapped(s, svc[s]) :
       cq' = IF s \in edited THEN cq \cup {c1, c2} ELSE cq
  /\ UNCHANGED <<claim, svc, cCache, w, v, env, binding, stray>>

(* A service's event reaches the RegisteredService controller as it is and *)
(* the claim controller through the predicate and the mapping, which is    *)
(* applied to the old and to the new version.                              *)
SyncService(s) ==
  /\ s \in stale
  /\ sCache' = [sCache EXCEPT ![s] = svc[s]]
  /\ stale' = stale \ {s} /\ edited' = edited \ {s}
  /\ \E c1 \in Mapped(s, sCache[s]), c2 \in Mapped(s, svc[s]) :
       cq' = IF s \in edited THEN cq \cup ({c1, c2} \ {NoClaim}) ELSE cq
  /\ UNCHANGED <<claim, svc, cCache, w, v, env, binding, stray>>

(* A restart: queues, workers and caches are rebuilt from a new list.      *)
Restart ==
  /\ cCache' = claim /\ sCache' = svc
  /\ stale' = {} /\ edited' = {}
  /\ cq' = {c \in Claims : claim[c].phase # "absent"}
  /\ w' = Idle /\ v' = SvcIdle
  /\ env' = [c \in Claims |-> NoPush]
  /\ UNCHANGED <<claim, svc, binding, stray>>

Crash == MayCrash /\ Restart
-----------------------------------------------------------------------------
(* The ServiceClaim controller. *)

(* The error returned by Reconcile puts the claim back in the queue. *)
Requeue == w' = Idle /\ cq' = cq \cup {w.c}

Done == w' = Idle /\ UNCHANGED cq

Goto(pc) == w' = [w EXCEPT !.pc = pc] /\ UNCHANGED cq

(* Reconcile: where the in-memory claim sends the worker. *)
Dispatch(o) ==
  IF o.phase = "terminating" THEN "unbind"
  ELSE IF ~o.fin THEN "finalizer"
  ELSE IF ~o.id THEN "initialize"
  ELSE IF o.state = "Resolved" THEN "again" ELSE "choose"

Reconcile(c) ==
  /\ w.pc = "idle"
  /\ c \in cq
  /\ cq' = cq \ {c}
  /\ LET o == cCache[c]
     IN  w' = IF o.phase = "absent" \/ (o.phase = "terminating" /\ ~o.fin)
              THEN w
              ELSE [Idle EXCEPT !.pc = Dispatch(o), !.c = c, !.obj = o,
                                !.fresh = c \notin stale]
  /\ UNCHANGED <<claim, svc, caches, version, v, env, binding, stray>>

(* updateRemoteServiceClaimStatusIfNeeded: a claim that targets one        *)
(* cluster has its copy there written as well, which may fail.             *)
RemoteUpdateFails(status) == status /\ MayFail /\ ClusterEnv[w.c] # NoEnv

(* Variant: the claim is patched, and no conflict is seen. *)
WriteClaimPatched(o, next, status) ==
  /\ StoreClaim(w.c, o, FALSE)
  /\ \/ w' = next /\ UNCHANGED cq
     \/ RemoteUpdateFails(status) /\ Requeue

(* The worker writes its claim as o and becomes next; when the call is     *)
(* updateServiceClaimStatus, the remote copy is written after the local    *)
(* one.                                                                    *)
(* A conflict, or the failed remote write, ends the reconciliation.        *)
WriteClaim(o, next, status) ==
  \/ /\ w.fresh
     /\ StoreClaim(w.c, o, FALSE)
     /\ \/ w' = next /\ UNCHANGED cq
        \/ RemoteUpdateFails(status) /\ Requeue
  \/ /\ ~w.fresh
     /\ Requeue
     /\ UNCHANGED <<claim, version>>

AddFinalizer ==
  /\ w.pc = "finalizer"
  /\ LET o == [w.obj EXCEPT !.fin = TRUE]
     IN  WriteClaim(o, [w EXCEPT !.pc = Dispatch(o), !.obj = o], FALSE)
  /\ UNCHANGED <<svc, caches, v, env, binding, stray>>

ensureServiceClaimIsInitialized ==
  /\ w.pc = "initialize"
  /\ LET o == [w.obj EXCEPT !.id = TRUE, !.state = "Pending"]
     IN  WriteClaim(o, [w EXCEPT !.pc = Dispatch(o), !.obj = o], FALSE)
  /\ UNCHANGED <<svc, caches, v, env, binding, stray>>

(* The RegisteredService test of processServiceClaim and of                *)
(* processClaimMarkedForDeletion, for an environment.                      *)
Candidate(c, s, environment) ==
  /\ checkSCISubset(ClaimSCI[c], ServiceSCI[s])
  /\ Match(environment, Constraints[s])

(* The environment processServiceClaim matches services against. *)
ClaimEnvironment(c) ==
  IF ClusterEnv[c] # NoEnv THEN ClusterEnv[c] ELSE EnvironmentTag[c]

(* Variant: the state of the service is not looked at. *)
AvailableInAnyState(c) ==
  {s \in Services : sCache[s] # "absent"
                    /\ Candidate(c, s, ClaimEnvironment(c))}

Available(c) ==
  {s \in Services : sCache[s] = "Available"
                    /\ Candidate(c, s, ClaimEnvironment(c))}

(* The worker keeps a by-value copy of the cached service. *)
CopyOf(s) == [w EXCEPT !.svc = s, !.sfresh = s \notin stale]

(* processClaim, processServiceClaim up to its first write: the services   *)
(* are listed and the first available candidate is taken.  The lookup of   *)
(* the ClusterEnvironment may fail; endpoint keys may be missing.          *)
processClaim ==
  /\ w.pc = "choose"
  /\ \/ \E s \in Available(w.c) : /\ w' = [CopyOf(s) EXCEPT !.pc = "markPending"]
                                   /\ UNCHANGED cq
     \/ (Available(w.c) = {} \/ MayFail) /\ Goto("noMatch")
     \/ MayFail /\ ClusterEnv[w.c] # NoEnv /\ Requeue
  /\ UNCHANGED <<claim, svc, caches, version, v, env, binding, stray>>

(* No match, or missing endpoint keys: the claim is left Pending, whatever *)
(* service its status still names, and the error puts it back.  The status *)
(* also gets a Ready=False condition; a status that has it already is not  *)
(* written again.                                                          *)
reportNoMatch ==
  /\ w.pc = "noMatch"
  /\ \/ /\ w.fresh
        /\ \/ /\ claim' = [claim EXCEPT ![w.c] = [w.obj EXCEPT !.state = "Pending"]]
              /\ stale' = stale \cup {w.c}
           \/ w.obj.state = "Pending" /\ UNCHANGED <<claim, stale>>
     \/ ~w.fresh /\ UNCHANGED <<claim, stale>>
  /\ Requeue
  /\ UNCHANGED <<svc, caches, edited, v, env, binding, stray>>

(* processResolvedServiceClaim up to its first write: the service named in *)
(* the status is read again, in whatever state it is.  The writes that     *)
(* follow are those of an unresolved claim, with w.resolved set.           *)
processResolvedServiceClaim ==
  /\ w.pc = "again"
  /\ IF w.obj.rs = NoService \/ sCache[w.obj.rs] = "absent"
     THEN Requeue
     ELSE /\ w' = [CopyOf(w.obj.rs) EXCEPT !.pc = "markPending", !.resolved = TRUE]
          /\ UNCHANGED cq
  /\ UNCHANGED <<claim, svc, caches, version, v, env, binding, stray>>

markPending ==
  /\ w.pc = "markPending"
  /\ LET o == [w.obj EXCEPT !.state = "Pending", !.rs = w.svc]
     IN  WriteClaim(o, [w EXCEPT !.pc = "claimService", !.obj = o], TRUE)
  /\ UNCHANGED <<svc, caches, v, env, binding, stray>>

(* Variant: the service is patched, and no conflict is seen. *)
changeServiceStatePatched(state, c) ==
  /\ svc[w.svc] # "absent"
  /\ StoreService(w.svc, state, c, FALSE)
  /\ v' = IF v.s = w.svc /\ state # svc[w.svc] THEN [v EXCEPT !.fresh = FALSE] ELSE v

(* changeServiceState: a write of the worker's copy with another state.    *)
(* The copy is passed by value: the caller's copy keeps the old version,   *)
(* out of date as soon as the write has changed something.                 *)
changeServiceState(state, c) ==
  /\ w.sfresh
  /\ StoreService(w.svc, state, c, FALSE)
  /\ v' = IF v.s = w.svc /\ state # svc[w.svc] THEN [v EXCEPT !.fresh = FALSE] ELSE v

(* Variant: a conflict on the service does not return the error. *)
claimServiceNoRetry ==
  /\ w.pc = "claimService"
  /\ \/ /\ changeServiceState("Claimed", w.c)
        /\ w' = [w EXCEPT !.pc = "push", !.sfresh = (svc[w.svc] = "Claimed")]
        /\ UNCHANGED cq
     \/ /\ ~w.sfresh
        /\ Done
        /\ UNCHANGED <<svc, version, stray, v>>
  /\ UNCHANGED <<claim, caches, env, binding>>

(* Variant: the error of changeServiceState is dropped. *)
claimServiceDespiteConflict ==
  /\ w.pc = "claimService"
  /\ \/ /\ changeServiceState("Claimed", w.c)
        /\ w' = [w EXCEPT !.pc = "push", !.sfresh = (svc[w.svc] = "Claimed")]
     \/ /\ ~w.sfresh
        /\ w' = [w EXCEPT !.pc = "push"]
        /\ UNCHANGED <<svc, version, stray, v>>
  /\ UNCHANGED <<claim, caches, cq, env, binding>>

(* Variant: the claim is Resolved before anything is pushed. *)
claimServiceNoPush ==
  /\ w.pc = "claimService"
  /\ \/ /\ changeServiceState("Claimed", w.c)
        /\ w' = [w EXCEPT !.pc = "markResolved", !.sfresh = (svc[w.svc] = "Claimed")]
        /\ UNCHANGED cq
     \/ /\ ~w.sfresh
        /\ Requeue
        /\ UNCHANGED <<svc, version, stray, v>>
  /\ UNCHANGED <<claim, caches, env, binding>>

claimService ==
  /\ w.pc = "claimService"
  /\ \/ /\ changeServiceState("Claimed", w.c)
        /\ w' = [w EXCEPT !.pc = "push", !.sfresh = (svc[w.svc] = "Claimed")]
        /\ UNCHANGED cq
     \/ /\ ~w.sfresh
        /\ Requeue
        /\ UNCHANGED <<svc, version, stray, v>>
  /\ UNCHANGED <<claim, caches, env, binding>>

(* The bindings after claim c has been pushed with service s: where no     *)
(* namespace is found for it the loops have nothing to do.                 *)
Pushed(c, s) == IF c \in Hosted THEN [binding EXCEPT ![c] = s] ELSE binding

(* Variant: the errors of the push are dropped. *)
pushToClusterEnvironmentsUnchecked ==
  /\ w.pc = "push"
  /\ \/ binding' = Pushed(w.c, w.svc)
     \/ MayFail /\ UNCHANGED binding
  /\ w' = [w EXCEPT !.pc = "markResolved"]
  /\ UNCHANGED <<claim, svc, caches, version, cq, v, env, stray>>

(* pushToClusterEnvironments: ServiceBinding and secret are written to     *)
(* every matching application namespace; one that fails does not stop the  *)
(* others, so bindings may be there after an error too.  That no namespace *)
(* matches is no error.                                                    *)
pushToClusterEnvironments ==
  /\ w.pc = "push"
  /\ \/ /\ binding' = Pushed(w.c, w.svc)
        /\ w' = [w EXCEPT !.pc = "markResolved"]
     \/ /\ MayFail
        /\ binding' = Pushed(w.c, w.svc) \/ UNCHANGED binding
        /\ \E lost \in BOOLEAN : w' = [w EXCEPT !.pc = "rollback", !.lost = lost]
  /\ UNCHANGED <<claim, svc, caches, version, cq, v, env, stray>>

(* The service goes back to Available if the worker's copy is still the    *)
(* current version; otherwise the error is only logged.  A NotFound from   *)
(* the push ends the reconciliation of an unresolved claim without error.  *)
rollback ==
  /\ w.pc = "rollback"
  /\ \/ changeServiceState("Available", w.c)
     \/ ~w.sfresh /\ UNCHANGED <<svc, version, stray, v>>
  /\ IF w.lost /\ ~w.resolved THEN Done ELSE Requeue
  /\ UNCHANGED <<claim, caches, env, binding>>

markResolved ==
  /\ w.pc = "markResolved"
  /\ WriteClaim([w.obj EXCEPT !.state = "Resolved", !.rs = w.svc], Idle, TRUE)
  /\ UNCHANGED <<svc, caches, v, env, binding, stray>>

(* processClaimMarkedForDeletion: the services are listed and the first    *)
(* candidate for the claim's environment tag is kept, whatever its state   *)
(* and whatever service the status names; then DeleteServiceBindings-      *)
(* AndSecret, whose error is kept for later.                               *)
ReleaseCandidates(c) == {s \in Services : /\ sCache[s] # "absent"
                                          /\ Candidate(c, s, EnvironmentTag[c])}

processClaimMarkedForDeletion ==
  /\ w.pc = "unbind"
  /\ \E err \in IF MayFail THEN BOOLEAN ELSE {FALSE} :
       /\ \/ binding' = [binding EXCEPT ![w.c] = NoService]
          \/ err /\ UNCHANGED binding
       /\ LET found == ReleaseCandidates(w.c)
          IN  \/ \E s \in found :
                   w' = [CopyOf(s) EXCEPT !.pc = "release", !.err = err]
              \/ found = {} /\ ~err /\ w' = [w EXCEPT !.pc = "removeFinalizer"]
              \/ found = {} /\ err /\ w' = Idle
       /\ cq' = IF err /\ ReleaseCandidates(w.c) = {} THEN cq \cup {w.c} ELSE cq
  /\ UNCHANGED <<claim, svc, caches, version, v, env, stray>>

(* Variant: the error kept from the unbinding is forgotten. *)
releaseServiceDespiteError ==
  /\ w.pc = "release"
  /\ \/ /\ changeServiceState("Available", w.c)
        /\ w' = [w EXCEPT !.pc = "removeFinalizer", !.sfresh = FALSE]
        /\ UNCHANGED cq
     \/ /\ ~w.sfresh
        /\ Requeue
        /\ UNCHANGED <<svc, version, stray, v>>
  /\ UNCHANGED <<claim, caches, env, binding>>

(* Variant: a conflict on the service does not return the error. *)
releaseServiceNoRetry ==
  /\ w.pc = "release"
  /\ \/ /\ changeServiceState("Available", w.c)
        /\ IF w.err THEN Requeue
           ELSE /\ w' = [w EXCEPT !.pc = "removeFinalizer", !.sfresh = FALSE]
                /\ UNCHANGED cq
     \/ /\ ~w.sfresh
        /\ Done
        /\ UNCHANGED <<svc, version, stray, v>>
  /\ UNCHANGED <<claim, caches, env, binding>>

releaseService ==
  /\ w.pc = "release"
  /\ \/ /\ changeServiceState("Available", w.c)
        /\ IF w.err THEN Requeue
           ELSE /\ w' = [w EXCEPT !.pc = "removeFinalizer", !.sfresh = FALSE]
                /\ UNCHANGED cq
     \/ /\ ~w.sfresh
        /\ Requeue
        /\ UNCHANGED <<svc, version, stray, v>>
  /\ UNCHANGED <<claim, caches, env, binding>>

(* With its last finalizer the terminating claim goes. *)
removeFinalizer ==
  /\ w.pc = "removeFinalizer"
  /\ IF w.fresh THEN StoreClaim(w.c, NoObj, TRUE) /\ Done
                ELSE UNCHANGED <<claim, version>> /\ Requeue
  /\ UNCHANGED <<svc, caches, v, env, binding, stray>>
-----------------------------------------------------------------------------
(* The RegisteredService controller.  (Its catalogs are another module's.) *)

(* Variant: a completed check always makes the service Available. *)
CompletedAvailable(state) == "Available"

(* The state of a service that is healthy, or has no health check. *)
Completed(state) == IF state = "Claimed" THEN "Claimed" ELSE "Available"

(* handleHealthcheck and its absence: the states a service may be given,   *)
(* from the state it was read in.  The health check may have no CronJob    *)
(* yet, no finished job, a completed or only failed ones.                  *)
ServiceOutcomes(s, state) ==
  IF s \in HealthChecked
  THEN {"Unknown", Completed(state), "Unreachable"}
  ELSE {Completed(state)}

(* Reconcile up to its status update.  Every event of a service and of the *)
(* CronJob it owns, every failed attempt and the manager's periodic resync *)
(* bring the service here: it may be reconciled at any time.               *)
ReconcileService(s) ==
  /\ v.pc = "idle"
  /\ sCache[s] # "absent"
  /\ \E state \in ServiceOutcomes(s, sCache[s]) :
       v' = [pc |-> "update", s |-> s, state |-> state, fresh |-> s \notin stale]
  /\ UNCHANGED <<claim, svc, caches, version, cq, w, env, binding, stray>>

(* The status update; registering the health check or writing the catalogs *)
(* may have failed before it, and a conflict leaves it undone.             *)
UpdateService ==
  /\ v.pc = "update"
  /\ \/ /\ v.fresh
        /\ StoreService(v.s, v.state, NoClaim, FALSE)
        /\ OutdateServiceCopy(v.s, v.state # svc[v.s])
     \/ /\ ~v.fresh \/ MayFail
        /\ UNCHANGED <<svc, version, stray, w>>
  /\ v' = SvcIdle
  /\ UNCHANGED <<claim, caches, cq, env, binding>>
-----------------------------------------------------------------------------
(* The ClusterEnvironment controller's push of ServiceBindings. *)

(* reconcileServiceBindingApplicationNamespaces lists the cached claims    *)
(* that carry the environment's tag and have a namespace there ...         *)
ListClaimsToPush ==
  /\ EnvPushes
  /\ \A c \in Claims : env[c] = NoPush
  /\ env' = [c \in Claims |->
               IF cCache[c].phase # "absent" /\ EnvironmentTag[c] # NoEnv /\ c \in Hosted
               THEN cCache[c].rs ELSE NoPush]
  /\ env' # env
  /\ UNCHANGED <<claim, svc, caches, version, cq, w, v, binding, stray>>

(* ... and pushes them one by one, or fails to. *)
PushClaim(c) ==
  /\ env[c] \in Services
  /\ env' = [env EXCEPT ![c] = NoPush]
  /\ \/ binding' = Pushed(c, env[c])
     \/ MayFail /\ UNCHANGED binding
  /\ UNCHANGED <<claim, svc, caches, version, cq, w, v, stray>>

(* A claim that has no service yet: its nil status.registeredService is    *)
(* dereferenced, and the panic restarts the manager.                       *)
PushUnresolved(c) == env[c] = NoService /\ Restart
-----------------------------------------------------------------------------
ClaimWorker ==
  \/ AddFinalizer \/ ensureServiceClaimIsInitialized
  \/ processClaim \/ reportNoMatch \/ processResolvedServiceClaim
  \/ markPending \/ claimService \/ pushToClusterEnvironments
  \/ rollback \/ markResolved
  \/ processClaimMarkedForDeletion \/ releaseService \/ removeFinalizer

Next ==
  \/ \E c \in Claims : \/ CreateClaim(c) \/ DeleteClaim(c) \/ EditClaim(c)
                       \/ SyncClaim(c) \/ Reconcile(c)
                       \/ PushClaim(c) \/ PushUnresolved(c)
  \/ \E s \in Services : \/ CreateService(s) \/ DeleteService(s) \/ EditService(s)
                         \/ SyncService(s) \/ ReconcileService(s)
  \/ ClaimWorker
  \/ UpdateService
  \/ ListClaimsToPush
  \/ Crash

Spec == Init /\ [][Next]_vars
-----------------------------------------------------------------------------
(* Properties. *)

(* Two claims use the same service only if that service was taken from     *)
(* under a claim that held it: the versions checked by the API server and  *)
(* the one worker of the claim controller leave no other way to claim a    *)
(* service twice, whatever the caches show and wherever a restart falls.   *)
Exclusive ==
  \A s \in Services \ stray : \A c, d \in Claims :
    Holds(c, s) /\ Holds(d, s) => c = d

(* A service in use stays Claimed, with the same proviso. *)
HeldIsClaimed ==
  \A s \in Services \ stray : \A c \in Claims :
    Holds(c, s) => svc[s] = "Claimed"

(* A service without a health check stops being Claimed only by the claim  *)
(* controller's hand or by deletion: the RegisteredService controller,     *)
(* which sets every other state to Available, never does it from a stale   *)
(* read.                                                                   *)
OnlyClaimControllerFrees ==
  [][\A s \in Services \ HealthChecked :
       svc[s] = "Claimed" /\ svc'[s] \notin {"Claimed", "absent"}
         => w.pc \in {"rollback", "release"} /\ w.svc = s]_vars

(* A service becomes Claimed only through the claim controller, and then   *)
(* from Available unless a claim that was Resolved with it claims it anew. *)
ClaimedFromAvailable ==
  [][\A s \in Services :
       svc[s] # "Claimed" /\ svc'[s] = "Claimed"
         => /\ w.pc = "claimService" /\ w.svc = s
            /\ svc[s] = "Available" \/ w.resolved]_vars

(* While only the claim controller pushes, a claim that is gone has left   *)
(* no ServiceBinding behind in the application namespaces.                 *)
NoOrphanBinding ==
  \A c \in Claims : claim[c].phase = "absent" => binding[c] = NoService

(* While only the claim controller pushes, a Resolved claim that has an    *)
(* application namespace is bound there to the service its status names,   *)
(* through moves to other services, failed pushes, rollbacks and restarts. *)
ResolvedIsBound ==
  \A c \in Hosted : claim[c].phase = "live" /\ claim[c].state = "Resolved"
                       => binding[c] = claim[c].rs
-----------------------------------------------------------------------------
(* The inductive invariant behind Exclusive and HeldIsClaimed. *)

(* What a copy that is still the current version tells about the object.   *)
CopiesCurrent ==
  /\ \A c \in Claims \ stale : cCache[c] = claim[c]
  /\ \A s \in Services \ stale : sCache[s] = svc[s]
  /\ w.fresh => /\ w.c \in Claims
                /\ w.obj = claim[w.c]
                /\ cCache[w.c].phase = claim[w.c].phase
  /\ v.fresh => /\ v.s \in Services
                /\ v.state = "Claimed" => svc[v.s] = "Claimed"
                /\ v.s \notin HealthChecked /\ svc[v.s] = "Claimed" => v.state = "Claimed"

Claiming == {"claimService", "push", "rollback", "markResolved"}
Deleting == {"unbind", "release", "removeFinalizer"}

(* A worker at a step has the object that step is about. *)
WorkersBusy ==
  /\ IF w.pc = "idle" THEN w = Idle ELSE w.c \in Claims
  /\ w.pc \in Claiming \cup {"markPending", "release"} => w.svc \in Services
  /\ IF v.pc = "idle" THEN v = SvcIdle ELSE v.s \in Services

(* What the worker can rely on at its various steps. *)
WorkerKnows ==
  /\ w.pc # "idle" => w.obj.phase # "absent"
  /\ w.resolved => w.pc \in Claiming \cup {"markPending"}
  /\ w.pc \in {"markPending", "claimService"} /\ w.sfresh /\ ~w.resolved
       => svc[w.svc] = "Available"
  /\ w.pc = "again" => w.obj.phase = "live" /\ w.obj.state = "Resolved"
  /\ w.pc = "markPending" /\ w.resolved
       => w.obj.phase = "live" /\ w.obj.state = "Resolved" /\ w.obj.rs = w.svc
  /\ w.pc = "claimService" /\ w.resolved /\ w.svc \notin stray
       => \A d \in Claims : Holds(d, w.svc) => d = w.c
  /\ w.pc \in Claiming => claim[w.c].state # "Resolved"
  /\ w.pc \in Deleting => claim[w.c].phase # "live" \/ claim[w.c].state # "Resolved"

(* A cache that still shows a deletion of a claim since created anew is    *)
(* older than any resolution of the new one.                               *)
OldDeletionSeen ==
  \A c \in Claims :
    cCache[c].phase = "terminating" /\ claim[c].phase = "live"
      => claim[c].state # "Resolved"

ClaimInv ==
  /\ TypeOK
  /\ WorkersBusy
  /\ CopiesCurrent
  /\ WorkerKnows
  /\ OldDeletionSeen
  /\ Exclusive
  /\ HeldIsClaimed
-----------------------------------------------------------------------------
(* Fairness.  The manager's goroutines keep running and watches deliver;   *)
(* work queues are first in, first out, so what is queued is reached even  *)
(* if other objects keep coming back.  Users owe nothing.                  *)
Fairness ==
  /\ \A c \in Claims : WF_vars(SyncClaim(c)) /\ SF_vars(Reconcile(c))
  /\ \A s \in Services : WF_vars(SyncService(s)) /\ SF_vars(ReconcileService(s))
  /\ WF_vars(ClaimWorker)
  /\ WF_vars(UpdateService)

FairSpec == Spec /\ Fairness

(* When calls succeed, no claim is left unresolved for ever beside an      *)
(* Available service it could use: conflicts with the RegisteredService    *)
(* controller and stale reads are retried until they are gone, and a       *)
(* service that another claim gives up is found.                           *)
ClaimIsServed ==
  \A c \in Claims :
    []<>(/\ claim[c].phase = "live"
         /\ \E s \in Services : /\ svc[s] = "Available"
                                /\ Candidate(c, s, ClaimEnvironment(c))
         => claim[c].state = "Resolved")

(* A deleted claim does go: neither a stale read nor a conflict on the     *)
(* service it releases leaves it terminating.                              *)
DeletionCompletes ==
  \A c \in Claims : claim[c].phase = "terminating" ~> claim[c].phase # "terminating"
-----------------------------------------------------------------------------
(* What the documentation says and the code does not do. *)

(* "once claimed, the RegisteredService can't be claimed by other          *)
(* application": no two claims are Resolved with one service.              *)
NeverShared ==
  \A c, d \in Claims :
    /\ claim[c].phase = "live" /\ claim[c].state = "Resolved"
    /\ claim[d].phase = "live" /\ claim[d].state = "Resolved"
    /\ claim[c].rs = claim[d].rs
    => c = d

(* The deletion of a claim "also change the state of RegisteredService to  *)
(* Available": the service of a claim that goes is not left Claimed.       *)
ReleasedOnDeletion ==
  [][\A c \in Claims :
       claim[c].phase = "terminating" /\ claim'[c].phase = "absent"
         /\ claim[c].state = "Resolved"
         => svc[claim[c].rs] # "Claimed"]_vars

(* "Update RegisteredService status back to Available": the failed push is *)
(* undone.                                                                 *)
RollbackRestores ==
  [][w.pc = "rollback" /\ w'.pc = "idle" => svc'[w.svc] = "Available"]_vars

(* Primaza creates the ServiceBinding, "Then it will update the state of   *)
(* ServiceClaim to Resolved": every Resolved claim is bound, wherever its  *)
(* target is.                                                              *)
ResolvedHasBinding ==
  \A c \in Claims : claim[c].phase = "live" /\ claim[c].state = "Resolved"
                       => binding[c] = claim[c].rs

(* A service whose health check passes again, with a claim that still uses *)
(* it, is not given back to the pool.                                      *)
RecoveredStaysClaimed ==
  [][\A s \in Services, c \in Claims :
       /\ svc[s] \in {"Unreachable", "Unknown"} /\ svc'[s] = "Available"
       => ~(claim[c].phase = "live" /\ claim[c].state = "Resolved" /\ claim[c].rs = s)]_vars

(* If a Claimed service is deleted, its claim "will be changed to Pending  *)
(* by the ServiceClaim controller".                                        *)
RemovedServiceUnresolves ==
  \A c \in Claims, s \in Services :
    svc[s] = "absent" /\ claim[c].rs = s /\ claim[c].phase = "live"
      ~> claim[c].state = "Pending" \/ claim[c].phase # "live"
=============================================================================
