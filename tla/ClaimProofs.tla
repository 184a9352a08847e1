---------------------------- MODULE ClaimProofs ----------------------------
(***************************************************************************)
(* The claim life cycle, for any sets of claims and services: its types,   *)
(* then ClaimInv, by which a service is used by one claim at a time unless *)
(* it was taken from under its claim, then BindInv, by which a Resolved    *)
(* claim is bound and a claim that is gone has left no binding.            *)
(***************************************************************************)
EXTENDS ClaimLifecycle, TLAPS

USE ConstantsAssumption

(* The two writes keep the stores well typed. *)
LEMMA StoreClaimType ==
  ASSUME TypeOK, NEW c \in Claims, NEW o \in ClaimObj, NEW e \in BOOLEAN,
         StoreClaim(c, o, e)
  PROVE  /\ claim' \in [Claims -> ClaimObj]
         /\ stale' \subseteq Claims \cup Services
         /\ edited' \subseteq Claims \cup Services
  BY DEF StoreClaim, TypeOK

(* A write of a service keeps the store well typed. *)
LEMMA StoreServiceType ==
  ASSUME TypeOK, NEW s \in Services, NEW state \in SvcState, NEW c, NEW e \in BOOLEAN,
         StoreService(s, state, c, e)
  PROVE  /\ svc' \in [Services -> SvcState]
         /\ stale' \subseteq Claims \cup Services
         /\ edited' \subseteq Claims \cup Services
         /\ stray' \subseteq Services
  BY DEF StoreService, TypeOK

(* An absent claim is a claim object. *)
LEMMA NoObjType == NoObj \in ClaimObj
  BY DEF NoObj, ClaimObj, SvcOrNone

(* The idle workers are workers. *)
LEMMA IdleType == Idle \in Worker /\ SvcIdle \in SvcWorker
  BY NoObjType DEF Idle, Worker, SvcIdle, SvcWorker, ClaimSteps, SvcOrNone, SvcState

(* Reconcile sends the worker to a step that needs no service. *)
LEMMA DispatchType ==
  ASSUME NEW o
  PROVE  /\ Dispatch(o) \in ClaimSteps \ {"idle"}
         /\ Dispatch(o) \notin Claiming \cup {"markPending", "release"}
  BY DEF Dispatch, ClaimSteps, Claiming

(* A write of the worker's claim leaves it at the next step or idle. *)
LEMMA WriteClaimType ==
  ASSUME TypeOK, w.c \in Claims, NEW o \in ClaimObj, NEW next \in Worker,
         NEW status \in BOOLEAN, WriteClaim(o, next, status)
  PROVE  /\ claim' \in [Claims -> ClaimObj]
         /\ stale' \subseteq Claims \cup Services
         /\ edited' \subseteq Claims \cup Services
         /\ cq' \subseteq Claims
         /\ w' \in {next, Idle}
         /\ w' \in Worker
  <1>1. w' \in {next, Idle} /\ cq' \subseteq Claims
    BY DEF WriteClaim, Requeue, TypeOK
  <1>2. /\ claim' \in [Claims -> ClaimObj]
        /\ stale' \subseteq Claims \cup Services
        /\ edited' \subseteq Claims \cup Services
    BY StoreClaimType DEF WriteClaim, version, TypeOK
  <1> QED BY <1>1, <1>2, IdleType

(* Type correctness, with the facts about busy workers that it needs.      *)
TypeInv == TypeOK /\ WorkersBusy

(* A claim worker that has become idle is in order. *)
LEMMA IdleBusy ==
  ASSUME w' = Idle, v' \in {v, SvcIdle}, WorkersBusy
  PROVE  WorkersBusy'
  BY DEF WorkersBusy, Idle, SvcIdle, Claiming

(* Outdating a copy leaves what the worker is doing alone. *)
LEMMA OutdateClaimWork ==
  ASSUME TypeInv, NEW c \in Claims, OutdateClaimCopy(c)
  PROVE  /\ w' \in Worker
         /\ w' = w \/ (w.pc # "idle" /\ w.c = c /\ w' = [w EXCEPT !.fresh = FALSE])
         /\ w'.pc = w.pc /\ w'.c = w.c /\ w'.svc = w.svc /\ w'.obj = w.obj
         /\ w'.sfresh = w.sfresh /\ w'.resolved = w.resolved
  <1>1. w \in Worker BY DEF TypeInv, TypeOK
  <1>2. w.pc = "idle" => w.c = NoClaim BY DEF TypeInv, WorkersBusy, Idle
  <1>3. [w EXCEPT !.fresh = FALSE] \in Worker BY <1>1 DEF Worker
  <1>4. CASE w.c = c BY <1>1, <1>2, <1>3, <1>4 DEF OutdateClaimCopy, Worker
  <1>5. CASE w.c # c BY <1>1, <1>5 DEF OutdateClaimCopy
  <1> QED BY <1>4, <1>5

(* Outdating the copy of a service changes its flag only. *)
LEMMA OutdateServiceWork ==
  ASSUME TypeInv, NEW s \in Services, NEW b \in BOOLEAN, OutdateServiceCopy(s, b)
  PROVE  /\ w' \in Worker
         /\ w' = w \/ (w.pc # "idle" /\ w.svc = s /\ w' = [w EXCEPT !.sfresh = FALSE])
         /\ w'.pc = w.pc /\ w'.c = w.c /\ w'.svc = w.svc /\ w'.obj = w.obj
         /\ w'.fresh = w.fresh /\ w'.resolved = w.resolved
  <1>1. w \in Worker BY DEF TypeInv, TypeOK
  <1>2. w.pc = "idle" => w.svc = NoService BY DEF TypeInv, WorkersBusy, Idle
  <1>3. [w EXCEPT !.sfresh = FALSE] \in Worker BY <1>1 DEF Worker
  <1>4. CASE w.svc = s /\ b BY <1>1, <1>2, <1>3, <1>4 DEF OutdateServiceCopy, Worker
  <1>5. CASE ~(w.svc = s /\ b) BY <1>1, <1>5 DEF OutdateServiceCopy
  <1> QED BY <1>4, <1>5

(* The same for the worker of the RegisteredService controller. *)
LEMMA OutdateSvcWork ==
  ASSUME TypeInv, NEW s \in Services, OutdateSvcWorker(s)
  PROVE  /\ v' \in SvcWorker
         /\ v' = v \/ (v.pc # "idle" /\ v.s = s /\ v' = [v EXCEPT !.fresh = FALSE])
         /\ v'.pc = v.pc /\ v'.s = v.s /\ v'.state = v.state
  <1>1. v \in SvcWorker BY DEF TypeInv, TypeOK
  <1>2. v.pc = "idle" => v.s = NoService BY DEF TypeInv, WorkersBusy, SvcIdle
  <1>3. [v EXCEPT !.fresh = FALSE] \in SvcWorker BY <1>1 DEF SvcWorker
  <1>4. CASE v.s = s BY <1>1, <1>2, <1>3, <1>4 DEF OutdateSvcWorker, SvcWorker
  <1>5. CASE v.s # s BY <1>1, <1>5 DEF OutdateSvcWorker
  <1> QED BY <1>4, <1>5

(* Users' writes of claims keep the types. *)
LEMMA UserClaimSteps ==
  ASSUME TypeInv, NEW c \in Claims,
         CreateClaim(c) \/ DeleteClaim(c) \/ EditClaim(c)
  PROVE  TypeInv'
  <1> USE DEF TypeInv
  <1>0. claim[c] \in ClaimObj BY DEF TypeOK
  <1>1. ASSUME NEW o \in ClaimObj, StoreClaim(c, o, TRUE), OutdateClaimCopy(c),
               UNCHANGED <<svc, caches, cq, v, env, binding, stray>>
        PROVE  TypeInv'
    <2>1. w' \in Worker BY <1>1, OutdateClaimWork
    <2>2. WorkersBusy' BY <1>1, OutdateClaimWork DEF WorkersBusy
    <2> QED BY <1>1, <2>1, <2>2, StoreClaimType DEF TypeOK, caches
  <1>2. CASE CreateClaim(c)
    <2>1. [NoObj EXCEPT !.phase = "live"] \in ClaimObj
      BY NoObjType DEF ClaimObj
    <2> QED BY <1>1, <1>2, <2>1 DEF CreateClaim
  <1>3. CASE DeleteClaim(c)
    <2>1. [claim[c] EXCEPT !.phase = "terminating"] \in ClaimObj
      BY <1>0 DEF ClaimObj
    <2> QED BY <1>1, <1>3, <2>1, NoObjType DEF DeleteClaim
  <1>4. CASE EditClaim(c)
    BY <1>0, <1>1, <1>4 DEF EditClaim
  <1> QED BY <1>2, <1>3, <1>4

(* Users' writes of services keep the types. *)
LEMMA UserServiceSteps ==
  ASSUME TypeInv, NEW s \in Services,
         CreateService(s) \/ DeleteService(s) \/ EditService(s)
  PROVE  TypeInv'
  <1> USE DEF TypeInv
  <1>1. ASSUME NEW st \in SvcState, StoreService(s, st, NoClaim, TRUE),
               OutdateServiceCopy(s, TRUE), OutdateSvcWorker(s),
               UNCHANGED <<claim, caches, cq, env, binding>>
        PROVE  TypeInv'
    <2>1. w' \in Worker /\ v' \in SvcWorker
      BY <1>1, OutdateServiceWork, OutdateSvcWork
    <2>2. WorkersBusy'
      BY <1>1, OutdateServiceWork, OutdateSvcWork DEF WorkersBusy
    <2> QED BY <1>1, <2>1, <2>2, StoreServiceType DEF TypeOK, caches
  <1>2. svc[s] \in SvcState /\ "absent" \in SvcState /\ "" \in SvcState
    BY DEF TypeOK, SvcState
  <1> QED BY <1>1, <1>2 DEF CreateService, DeleteService, EditService

(* So do the events that reach the cache, and the mapped requests. *)
LEMMA SyncSteps ==
  ASSUME TypeInv,
         \/ \E c \in Claims : SyncClaim(c)
         \/ \E s \in Services : SyncService(s)
  PROVE  TypeInv'
  <1> USE DEF TypeInv
  <1>1. ASSUME NEW c \in Claims, SyncClaim(c) PROVE TypeInv'
    BY <1>1 DEF SyncClaim, TypeOK, WorkersBusy
  <1>2. ASSUME NEW s \in Services, SyncService(s) PROVE TypeInv'
    <2>1. \A state : Mapped(s, state) \subseteq Claims \cup {NoClaim}
      BY DEF Mapped
    <2>2. cq' \subseteq Claims
      BY <1>2, <2>1 DEF SyncService, TypeOK
    <2> QED BY <1>2, <2>2 DEF SyncService, TypeOK, WorkersBusy
  <1> QED BY <1>1, <1>2

(* So do a restart and the ClusterEnvironment controller's pass. *)
LEMMA EnvironmentSteps ==
  ASSUME TypeInv,
         \/ Crash
         \/ \E c \in Claims : PushUnresolved(c) \/ PushClaim(c)
         \/ ListClaimsToPush
  PROVE  TypeInv'
  <1> USE DEF TypeInv
  <1>1. CASE Restart
    <2>1. WorkersBusy' BY <1>1, IdleBusy DEF Restart
    <2> QED BY <1>1, <2>1, IdleType DEF Restart, TypeOK
  <1>2. ASSUME NEW c \in Claims, PushClaim(c) PROVE TypeInv'
    <2>1. binding' \in [Claims -> SvcOrNone] /\ env' \in [Claims -> SvcOrNone \cup {NoPush}]
      BY <1>2 DEF PushClaim, Pushed, TypeOK, SvcOrNone
    <2> QED BY <1>2, <2>1 DEF PushClaim, TypeOK, WorkersBusy, caches, version
  <1>3. CASE ListClaimsToPush
    <2>1. \A d \in Claims : cCache[d].rs \in SvcOrNone BY DEF TypeOK, ClaimObj
    <2>2. env' \in [Claims -> SvcOrNone \cup {NoPush}]
      BY <1>3, <2>1 DEF ListClaimsToPush
    <2> QED BY <1>3, <2>2 DEF ListClaimsToPush, TypeOK, WorkersBusy, caches, version
  <1> QED BY <1>1, <1>2, <1>3 DEF Crash, PushUnresolved

(* So does the RegisteredService controller. *)
LEMMA ServiceControllerSteps ==
  ASSUME TypeInv,
         UpdateService \/ \E s \in Services : ReconcileService(s)
  PROVE  TypeInv'
  <1> USE DEF TypeInv
  <1>1. ASSUME NEW s \in Services, ReconcileService(s) PROVE TypeInv'
    <2>1. PICK state \in ServiceOutcomes(s, sCache[s]) :
            v' = [pc |-> "update", s |-> s, state |-> state, fresh |-> s \notin stale]
      BY <1>1 DEF ReconcileService
    <2>2. state \in SvcState
      BY <2>1 DEF ServiceOutcomes, Completed, SvcState
    <2>3. v' \in SvcWorker /\ v'.pc # "idle" /\ v'.s \in Services
      BY <2>1, <2>2 DEF SvcWorker, SvcOrNone
    <2> QED BY <1>1, <2>3 DEF ReconcileService, TypeOK, WorkersBusy, caches, version
  <1>2. CASE UpdateService
    <2>1. v.s \in Services /\ v.state \in SvcState
      BY <1>2 DEF UpdateService, TypeOK, WorkersBusy, SvcWorker
    <2>2. CASE UNCHANGED <<svc, version, stray, w>>
      BY <1>2, <2>2, IdleType DEF UpdateService, TypeOK, WorkersBusy, caches, version, SvcIdle
    <2>3. CASE /\ StoreService(v.s, v.state, NoClaim, FALSE)
               /\ OutdateServiceCopy(v.s, v.state # svc[v.s])
      <3>1. w' \in Worker /\ (w' = w \/ w.pc # "idle")
            /\ w'.pc = w.pc /\ w'.c = w.c /\ w'.svc = w.svc
        BY <2>1, <2>3, OutdateServiceWork
      <3>2. WorkersBusy'
        BY <1>2, <3>1 DEF UpdateService, WorkersBusy, SvcIdle
      <3> QED BY <1>2, <2>1, <2>3, <3>1, <3>2, StoreServiceType, IdleType
              DEF UpdateService, TypeOK, caches
    <2> QED BY <1>2, <2>2, <2>3 DEF UpdateService
  <1> QED BY <1>1, <1>2

(* A worker value that a step of the claim controller may leave behind.    *)
Ready(x) ==
  /\ x \in Worker
  /\ IF x.pc = "idle" THEN x = Idle ELSE x.c \in Claims
  /\ x.pc \in Claiming \cup {"markPending", "release"} => x.svc \in Services

(* The idle worker is ready. *)
LEMMA IdleReady == Ready(Idle)
  BY IdleType DEF Ready, Idle, Claiming

(* The worker itself, moved to another step. *)
LEMMA MoveReady ==
  ASSUME TypeInv, w.pc # "idle", NEW pc \in ClaimSteps \ {"idle"},
         pc \in Claiming \cup {"markPending", "release"} => w.svc \in Services
  PROVE  Ready([w EXCEPT !.pc = pc])
  BY DEF TypeInv, TypeOK, WorkersBusy, Ready, Worker

(* A worker that has written its claim is ready for its next step. *)
LEMMA MoveWriteReady ==
  ASSUME TypeInv, w.pc # "idle", NEW pc \in ClaimSteps \ {"idle"}, NEW o \in ClaimObj,
         pc \in Claiming \cup {"markPending", "release"} => w.svc \in Services
  PROVE  Ready([w EXCEPT !.pc = pc, !.obj = o])
  BY DEF TypeInv, TypeOK, WorkersBusy, Ready, Worker

(* A write of the claim with a ready successor keeps the types. *)
LEMMA ClaimWriteStep ==
  ASSUME TypeInv, w.pc # "idle", NEW o \in ClaimObj, NEW next, Ready(next),
         NEW status \in BOOLEAN, WriteClaim(o, next, status),
         UNCHANGED <<svc, caches, v, env, binding, stray>>
  PROVE  TypeInv'
  <1>1. w.c \in Claims BY DEF TypeInv, WorkersBusy
  <1>2. TypeOK'
    BY <1>1, WriteClaimType DEF TypeInv, TypeOK, Ready, caches
  <1>3. w' \in {next, Idle} BY <1>1, WriteClaimType DEF TypeInv, Ready
  <1>4. WorkersBusy'
    BY <1>3, IdleReady DEF TypeInv, WorkersBusy, Ready
  <1> QED BY <1>2, <1>4 DEF TypeInv

(* The writes that lead to a Resolved claim. *)
LEMMA ClaimWrites ==
  ASSUME TypeInv,
         \/ AddFinalizer \/ ensureServiceClaimIsInitialized \/ markPending \/ markResolved
  PROVE  TypeInv'
  <1>1. w \in Worker /\ w.obj \in ClaimObj /\ w.svc \in SvcOrNone
    BY DEF TypeInv, TypeOK, Worker
  <1>2. CASE AddFinalizer
    <2> DEFINE o == [w.obj EXCEPT !.fin = TRUE]
    <2>1. o \in ClaimObj BY <1>1 DEF ClaimObj
    <2>2. WriteClaim(o, [w EXCEPT !.pc = Dispatch(o), !.obj = o], FALSE)
      BY <1>2 DEF AddFinalizer
    <2> HIDE DEF o
    <2>3. Ready([w EXCEPT !.pc = Dispatch(o), !.obj = o])
      BY <1>2, <2>1, DispatchType, MoveWriteReady DEF AddFinalizer
    <2> QED BY <1>2, <2>1, <2>2, <2>3, ClaimWriteStep DEF AddFinalizer
  <1>3. CASE ensureServiceClaimIsInitialized
    <2> DEFINE o == [w.obj EXCEPT !.id = TRUE, !.state = "Pending"]
    <2>1. o \in ClaimObj BY <1>1 DEF ClaimObj
    <2>2. WriteClaim(o, [w EXCEPT !.pc = Dispatch(o), !.obj = o], FALSE)
      BY <1>3 DEF ensureServiceClaimIsInitialized
    <2> HIDE DEF o
    <2>3. Ready([w EXCEPT !.pc = Dispatch(o), !.obj = o])
      BY <1>3, <2>1, DispatchType, MoveWriteReady DEF ensureServiceClaimIsInitialized
    <2> QED BY <1>3, <2>1, <2>2, <2>3, ClaimWriteStep DEF ensureServiceClaimIsInitialized
  <1>4. CASE markPending
    <2> DEFINE o == [w.obj EXCEPT !.state = "Pending", !.rs = w.svc]
    <2>1. o \in ClaimObj BY <1>1 DEF ClaimObj
    <2>2. WriteClaim(o, [w EXCEPT !.pc = "claimService", !.obj = o], TRUE)
      BY <1>4 DEF markPending
    <2>3. w.svc \in Services BY <1>4 DEF markPending, TypeInv, WorkersBusy
    <2> HIDE DEF o
    <2>4. Ready([w EXCEPT !.pc = "claimService", !.obj = o])
      BY <1>4, <2>1, <2>3, MoveWriteReady DEF markPending, ClaimSteps
    <2> QED BY <1>4, <2>1, <2>2, <2>4, ClaimWriteStep DEF markPending
  <1>5. CASE markResolved
    <2> DEFINE o == [w.obj EXCEPT !.state = "Resolved", !.rs = w.svc]
    <2>1. o \in ClaimObj BY <1>1 DEF ClaimObj
    <2>2. WriteClaim(o, Idle, TRUE) BY <1>5 DEF markResolved
    <2> HIDE DEF o
    <2> QED BY <1>5, <2>1, <2>2, IdleReady, ClaimWriteStep DEF markResolved
  <1> QED BY <1>2, <1>3, <1>4, <1>5

(* The report of a missing service and the removal of the finalizer. *)
LEMMA OtherClaimWrites ==
  ASSUME TypeInv, reportNoMatch \/ removeFinalizer
  PROVE  TypeInv'
  <1>1. w \in Worker /\ w.obj \in ClaimObj
    BY DEF TypeInv, TypeOK, Worker
  <1>2. CASE reportNoMatch
    <2>1. w.c \in Claims /\ w' = Idle /\ cq' \subseteq Claims
      BY <1>2 DEF reportNoMatch, Requeue, TypeInv, TypeOK, WorkersBusy
    <2>2. [w.obj EXCEPT !.state = "Pending"] \in ClaimObj BY <1>1 DEF ClaimObj
    <2>3. claim' \in [Claims -> ClaimObj] /\ stale' \subseteq Claims \cup Services
      BY <1>2, <2>1, <2>2 DEF reportNoMatch, TypeInv, TypeOK
    <2>4. WorkersBusy' BY <1>2, <2>1, IdleBusy DEF reportNoMatch, TypeInv
    <2> QED BY <1>2, <2>1, <2>3, <2>4, IdleType DEF reportNoMatch, TypeInv, TypeOK, caches
  <1>3. CASE removeFinalizer
    <2>1. w.c \in Claims /\ w' = Idle /\ cq' \subseteq Claims
      BY <1>3 DEF removeFinalizer, Requeue, Done, TypeInv, TypeOK, WorkersBusy
    <2>2. /\ claim' \in [Claims -> ClaimObj]
          /\ stale' \subseteq Claims \cup Services
          /\ edited' \subseteq Claims \cup Services
      BY <1>3, <2>1, NoObjType, StoreClaimType DEF removeFinalizer, TypeInv, TypeOK, version
    <2>3. WorkersBusy' BY <1>3, <2>1, IdleBusy DEF removeFinalizer, TypeInv
    <2> QED BY <1>3, <2>1, <2>2, <2>3, IdleType DEF removeFinalizer, TypeInv, TypeOK, caches
  <1> QED BY <1>2, <1>3

(* The copy of a service keeps the rest of the worker. *)
LEMMA CopyReady ==
  ASSUME TypeInv, w.pc # "idle", NEW s \in Services,
         NEW r \in BOOLEAN, NEW e \in BOOLEAN
  PROVE  /\ Ready([CopyOf(s) EXCEPT !.pc = "markPending"])
         /\ Ready([CopyOf(s) EXCEPT !.pc = "markPending", !.resolved = r])
         /\ Ready([CopyOf(s) EXCEPT !.pc = "release", !.err = e])
  <1> DEFINE f == s \notin stale
             x == [w EXCEPT !.svc = s, !.sfresh = f]
  <1>1. f \in BOOLEAN OBVIOUS
  <1>2. w \in Worker /\ w.c \in Claims BY DEF TypeInv, TypeOK, WorkersBusy
  <1>3. CopyOf(s) = x BY DEF CopyOf
  <1> HIDE DEF f
  <1>4. x \in Worker /\ x.c \in Claims /\ x.svc = s
    BY <1>1, <1>2 DEF Worker, SvcOrNone
  <1> HIDE DEF x
  <1> QED BY <1>3, <1>4 DEF Ready, Worker, ClaimSteps

(* A step of the worker that writes no object. *)
LEMMA LocalStep ==
  ASSUME TypeInv, Ready(w'), cq' \subseteq Claims,
         binding' \in [Claims -> SvcOrNone],
         UNCHANGED <<claim, svc, caches, version, v, env, stray>>
  PROVE  TypeInv'
  BY DEF TypeInv, TypeOK, WorkersBusy, Ready, caches, version

(* The steps that only read, or write to other clusters. *)
LEMMA LocalSteps ==
  ASSUME TypeInv,
         \/ (\E c \in Claims : Reconcile(c))
         \/ processClaim \/ processResolvedServiceClaim
         \/ pushToClusterEnvironments \/ processClaimMarkedForDeletion
  PROVE  TypeInv'
  <1>1. /\ w \in Worker /\ w.obj \in ClaimObj /\ cq \subseteq Claims
        /\ binding \in [Claims -> SvcOrNone]
        /\ w.pc = "idle" => w = Idle
        /\ w.pc # "idle" => w.c \in Claims
    BY DEF TypeInv, TypeOK, Worker, WorkersBusy
  <1>2. ASSUME NEW c \in Claims, Reconcile(c) PROVE TypeInv'
    <2> DEFINE o == cCache[c]  f == c \notin stale
    <2>1. o \in ClaimObj /\ f \in BOOLEAN BY DEF TypeInv, TypeOK
    <2>2. w' \in {w, [Idle EXCEPT !.pc = Dispatch(o), !.c = c, !.obj = o, !.fresh = f]}
      BY <1>2 DEF Reconcile
    <2> HIDE DEF o, f
    <2>3. Ready([Idle EXCEPT !.pc = Dispatch(o), !.c = c, !.obj = o, !.fresh = f])
      BY <2>1, DispatchType, IdleType DEF Ready, Worker
    <2>4. w = Idle BY <1>1, <1>2 DEF Reconcile
    <2>5. Ready(w') BY <2>2, <2>3, <2>4, IdleReady
    <2> QED BY <1>1, <1>2, <2>5, LocalStep DEF Reconcile
  <1>3. CASE processClaim
    <2>1. ASSUME NEW s \in Available(w.c), w' = [CopyOf(s) EXCEPT !.pc = "markPending"]
          PROVE  Ready(w')
      BY <1>3, <2>1, CopyReady DEF Available, processClaim
    <2>2. Ready([w EXCEPT !.pc = "noMatch"])
      BY <1>3, MoveReady DEF processClaim, ClaimSteps, Claiming
    <2>3. Ready(w') /\ cq' \subseteq Claims
      BY <1>1, <1>3, <2>1, <2>2, IdleReady DEF processClaim, Goto, Requeue
    <2> QED BY <1>1, <1>3, <2>3, LocalStep DEF processClaim
  <1>4. CASE processResolvedServiceClaim
    <2>1. w.obj.rs \in SvcOrNone BY <1>1 DEF ClaimObj
    <2>2. Ready(w') /\ cq' \subseteq Claims
      BY <1>1, <1>4, <2>1, CopyReady, IdleReady DEF processResolvedServiceClaim, Requeue, SvcOrNone
    <2> QED BY <1>1, <1>4, <2>2, LocalStep DEF processResolvedServiceClaim
  <1>5. CASE pushToClusterEnvironments
    <2>1. w.pc = "push" /\ w.svc \in Services
      BY <1>5 DEF pushToClusterEnvironments, TypeInv, WorkersBusy, Claiming
    <2>2. Ready([w EXCEPT !.pc = "markResolved"])
      BY <2>1, MoveReady DEF ClaimSteps
    <2>3. \A b \in BOOLEAN : Ready([w EXCEPT !.pc = "rollback", !.lost = b])
      BY <1>1, <2>1 DEF Ready, Worker, ClaimSteps
    <2>4. binding' \in [Claims -> SvcOrNone]
      BY <1>1, <1>5, <2>1 DEF pushToClusterEnvironments, Pushed, SvcOrNone
    <2> QED BY <1>1, <1>5, <2>2, <2>3, <2>4, LocalStep DEF pushToClusterEnvironments
  <1>6. CASE processClaimMarkedForDeletion
    <2>1. PICK err \in BOOLEAN :
            /\ binding' = [binding EXCEPT ![w.c] = NoService] \/ UNCHANGED binding
            /\ \/ \E s \in ReleaseCandidates(w.c) :
                     w' = [CopyOf(s) EXCEPT !.pc = "release", !.err = err]
               \/ w' = [w EXCEPT !.pc = "removeFinalizer"]
               \/ w' = Idle
            /\ cq' \in {cq, cq \cup {w.c}}
      BY <1>6 DEF processClaimMarkedForDeletion
    <2>2. Ready([w EXCEPT !.pc = "removeFinalizer"])
      BY <1>6, MoveReady DEF processClaimMarkedForDeletion, ClaimSteps, Claiming
    <2>3. \A s \in ReleaseCandidates(w.c) : Ready([CopyOf(s) EXCEPT !.pc = "release", !.err = err])
      BY <1>6, CopyReady DEF processClaimMarkedForDeletion, ReleaseCandidates
    <2>4. Ready(w') BY <2>1, <2>2, <2>3, IdleReady
    <2>5. cq' \subseteq Claims /\ binding' \in [Claims -> SvcOrNone]
      BY <1>1, <1>6, <2>1 DEF processClaimMarkedForDeletion, SvcOrNone
    <2> QED BY <1>6, <2>4, <2>5, LocalStep DEF processClaimMarkedForDeletion
  <1> QED BY <1>2, <1>3, <1>4, <1>5, <1>6

(* The worker's write of its service outdates the other worker's copy.     *)
LEMMA ChangeStateType ==
  ASSUME TypeInv, w.svc \in Services, NEW state \in SvcState, NEW c,
         changeServiceState(state, c)
  PROVE  /\ svc' \in [Services -> SvcState]
         /\ stale' \subseteq Claims \cup Services
         /\ edited' \subseteq Claims \cup Services
         /\ stray' \subseteq Services
         /\ v' \in SvcWorker
         /\ v' = v \/ (v.pc # "idle" /\ v.s = w.svc /\ v' = [v EXCEPT !.fresh = FALSE])
         /\ v'.pc = v.pc /\ v'.s = v.s /\ v'.state = v.state
  <1>1. StoreService(w.svc, state, c, FALSE) BY DEF changeServiceState
  <1>2. v \in SvcWorker BY DEF TypeInv, TypeOK
  <1>3. v.pc = "idle" => v.s = NoService BY DEF TypeInv, WorkersBusy, SvcIdle
  <1>4. [v EXCEPT !.fresh = FALSE] \in SvcWorker BY <1>2 DEF SvcWorker
  <1>5. CASE v.s = w.svc /\ state # svc[w.svc]
    BY <1>1, <1>2, <1>3, <1>4, <1>5, StoreServiceType DEF changeServiceState, SvcWorker, TypeInv
  <1>6. CASE ~(v.s = w.svc /\ state # svc[w.svc])
    BY <1>1, <1>2, <1>6, StoreServiceType DEF changeServiceState, TypeInv
  <1> QED BY <1>5, <1>6

(* The three writes of a service by the claim controller. *)
LEMMA ServiceWrites ==
  ASSUME TypeInv, claimService \/ rollback \/ releaseService
  PROVE  TypeInv'
  <1> USE DEF TypeInv
  <1>1. /\ w \in Worker /\ w.pc # "idle" /\ w.c \in Claims /\ w.svc \in Services
        /\ cq \subseteq Claims
    BY DEF claimService, rollback, releaseService, TypeOK, WorkersBusy, Claiming
  <1>2. UNCHANGED <<claim, caches, env, binding>>
    BY DEF claimService, rollback, releaseService
  <1>3. /\ svc' \in [Services -> SvcState]
        /\ stale' \subseteq Claims \cup Services
        /\ edited' \subseteq Claims \cup Services
        /\ stray' \subseteq Services
        /\ v' \in SvcWorker
        /\ v' = v \/ (v.pc # "idle" /\ v'.pc = v.pc /\ v'.s = v.s)
    <2>1. CASE UNCHANGED <<svc, version, stray, v>>
      BY <2>1 DEF version, TypeOK
    <2>2. \/ \E state \in SvcState : changeServiceState(state, w.c)
          \/ UNCHANGED <<svc, version, stray, v>>
      BY DEF claimService, rollback, releaseService, SvcState
    <2> QED BY <1>1, <2>1, <2>2, ChangeStateType
  <1>4. Ready(w') /\ cq' \subseteq Claims
    <2> DEFINE f == svc[w.svc] = "Claimed"
    <2>1. f \in BOOLEAN OBVIOUS
    <2> HIDE DEF f
    <2>2. Ready([w EXCEPT !.pc = "push", !.sfresh = f])
      BY <1>1, <2>1 DEF Ready, Worker, ClaimSteps
    <2> USE DEF f
    <2>3. Ready([w EXCEPT !.pc = "removeFinalizer", !.sfresh = FALSE])
      BY <1>1 DEF Ready, Worker, ClaimSteps, Claiming
    <2> QED BY <1>1, <2>2, <2>3, IdleReady
            DEF claimService, rollback, releaseService, Requeue, Done
  <1> QED BY <1>2, <1>3, <1>4 DEF TypeOK, WorkersBusy, Ready, caches

(* Types are kept by every step. *)
LEMMA TypeStep == TypeInv /\ [Next]_vars => TypeInv'
  <1> SUFFICES ASSUME TypeInv, [Next]_vars PROVE TypeInv'
    OBVIOUS
  <1>0. CASE UNCHANGED vars
    BY <1>0 DEF vars, TypeInv, TypeOK, WorkersBusy
  <1>1. CASE \E c \in Claims : CreateClaim(c) \/ DeleteClaim(c) \/ EditClaim(c)
    BY <1>1, UserClaimSteps
  <1>2. CASE \E s \in Services : CreateService(s) \/ DeleteService(s) \/ EditService(s)
    BY <1>2, UserServiceSteps
  <1>3. CASE \/ \E c \in Claims : SyncClaim(c)
             \/ \E s \in Services : SyncService(s)
    BY <1>3, SyncSteps
  <1>4. CASE \/ Crash \/ ListClaimsToPush
             \/ \E c \in Claims : PushUnresolved(c) \/ PushClaim(c)
    BY <1>4, EnvironmentSteps
  <1>5. CASE \/ UpdateService
             \/ \E s \in Services : ReconcileService(s)
    BY <1>5, ServiceControllerSteps
  <1>6. CASE \/ ClaimWorker
             \/ \E c \in Claims : Reconcile(c)
    BY <1>6, ClaimWrites, OtherClaimWrites, LocalSteps, ServiceWrites DEF ClaimWorker
  <1> QED BY <1>0, <1>1, <1>2, <1>3, <1>4, <1>5, <1>6 DEF Next

(* Types hold at the start. *)
LEMMA TypeInit == Init => TypeInv
  BY NoObjType, IdleType DEF Init, TypeInv, TypeOK, WorkersBusy, Idle, SvcIdle, SvcState,
     SvcOrNone, Claiming

(* Every behaviour of the claim life cycle is well typed, and a worker     *)
(* that is at a step has the claim and the service that step is about.     *)
THEOREM TypeCorrect == Spec => [](TypeOK /\ WorkersBusy)
  BY TypeInit, TypeStep, PTL DEF Spec, TypeInv
-----------------------------------------------------------------------------
(* ClaimInv is inductive. *)

(* Steps that add no user of a service. *)
LEMMA HoldsShrink ==
  ASSUME Exclusive, HeldIsClaimed, UNCHANGED <<svc, stray>>,
         \A d \in Claims, s \in Services : Holds(d, s)' => Holds(d, s)
  PROVE  Exclusive' /\ HeldIsClaimed'
  BY DEF Exclusive, HeldIsClaimed

(* A user's write of a claim: it cannot make the claim Resolved, and it    *)
(* outdates the worker's copy.                                             *)
LEMMA ClaimEdit ==
  ASSUME ClaimInv, TypeInv', NEW c \in Claims,
         c \in stale', stale \subseteq stale',
         \A d \in Claims \ {c} : claim'[d] = claim[d],
         claim'[c].state = "Resolved" => claim[c].state = "Resolved",
         claim'[c].phase = "live" /\ claim'[c].state = "Resolved"
           => claim[c].phase = "live" /\ claim'[c].rs = claim[c].rs,
         OutdateClaimCopy(c),
         UNCHANGED <<svc, caches, v, stray>>
  PROVE  ClaimInv'
  <1>1. /\ w'.pc = w.pc /\ w'.c = w.c /\ w'.svc = w.svc /\ w'.obj = w.obj
        /\ w'.sfresh = w.sfresh /\ w'.resolved = w.resolved
    BY OutdateClaimWork DEF ClaimInv, TypeInv
  <1>2. w'.fresh => w.fresh /\ w.c # c
    BY DEF OutdateClaimCopy, ClaimInv, TypeOK, Worker
  <1>3. \A d \in Claims, s \in Services : Holds(d, s)' => Holds(d, s)
    BY <1>1 DEF Holds
  <1>4. Exclusive' /\ HeldIsClaimed'
    BY <1>3, HoldsShrink DEF ClaimInv
  <1>5. CopiesCurrent'
    BY <1>1, <1>2 DEF ClaimInv, CopiesCurrent, caches
  <1>6. WorkerKnows'
    <2>1. w.pc \in Claiming \cup {"markPending"} \cup Deleting => w.c \in Claims /\ (w.pc \in Claiming \cup {"markPending"} => w.svc \in Services)
      BY DEF ClaimInv, WorkersBusy, Claiming, Deleting
    <2> QED BY <1>1, <1>3, <2>1 DEF ClaimInv, WorkerKnows, Claiming, Deleting
  <1>7. OldDeletionSeen'
    BY DEF ClaimInv, OldDeletionSeen, caches
  <1> QED BY <1>4, <1>5, <1>6, <1>7 DEF ClaimInv, TypeInv

(* Users' writes of claims keep ClaimInv.                                  *)
LEMMA UserClaimInv ==
  ASSUME ClaimInv, NEW c \in Claims,
         CreateClaim(c) \/ DeleteClaim(c) \/ EditClaim(c)
  PROVE  ClaimInv'
  <1>1. TypeInv /\ TypeInv' /\ claim \in [Claims -> ClaimObj] /\ claim[c] \in ClaimObj
    BY UserClaimSteps DEF ClaimInv, TypeInv, TypeOK
  <1>2. ASSUME NEW o, StoreClaim(c, o, TRUE), OutdateClaimCopy(c),
               UNCHANGED <<svc, caches, v, stray>>,
               o.state = "Resolved" => claim[c].state = "Resolved",
               o.phase = "live" /\ o.state = "Resolved"
                 => claim[c].phase = "live" /\ o.rs = claim[c].rs
        PROVE  ClaimInv'
    <2>1. /\ claim'[c] = o
          /\ \A d \in Claims \ {c} : claim'[d] = claim[d]
          /\ stale' = stale \cup {c}
      BY <1>1, <1>2 DEF StoreClaim
    <2> QED BY <1>1, <1>2, <2>1, ClaimEdit
  <1>3. CASE CreateClaim(c)
    <2> DEFINE o == [NoObj EXCEPT !.phase = "live"]
    <2>1. o.state = "" BY DEF NoObj
    <2>2. StoreClaim(c, o, TRUE) BY <1>3 DEF CreateClaim
    <2> HIDE DEF o
    <2> QED BY <1>2, <1>3, <2>1, <2>2 DEF CreateClaim
  <1>4. CASE DeleteClaim(c)
    <2> DEFINE o == IF claim[c].fin THEN [claim[c] EXCEPT !.phase = "terminating"]
                                    ELSE NoObj
    <2>1. o.phase # "live" /\ (o.state = "Resolved" => claim[c].state = "Resolved")
      BY <1>1 DEF NoObj, ClaimObj
    <2>2. StoreClaim(c, o, TRUE) BY <1>4 DEF DeleteClaim
    <2> HIDE DEF o
    <2> QED BY <1>2, <1>4, <2>1, <2>2 DEF DeleteClaim
  <1>5. CASE EditClaim(c)
    BY <1>2, <1>5 DEF EditClaim
  <1> QED BY <1>3, <1>4, <1>5

(* A write of a service by its users or by its own controller: it does not *)
(* make the service Claimed, and history notes a claim that loses it.      *)
LEMMA ServiceEdit ==
  ASSUME ClaimInv, TypeInv', NEW s \in Services,
         stale \subseteq stale', s \in stale' \/ svc'[s] = svc[s],
         \A r \in Services \ {s} : svc'[r] = svc[r],
         stray \subseteq stray',
         svc[s] = "Claimed" /\ svc'[s] # "Claimed" /\ (\E d \in Claims : Holds(d, s))
           => s \in stray',
         w'.pc = w.pc, w'.c = w.c, w'.svc = w.svc, w'.obj = w.obj,
         w'.fresh = w.fresh, w'.resolved = w.resolved,
         w'.sfresh => w.sfresh /\ (w.svc # s \/ svc'[s] = svc[s]),
         v'.fresh => v' = v /\ (v.s # s \/ svc'[s] = svc[s]),
         UNCHANGED <<claim, caches>>
  PROVE  ClaimInv'
  <1>1. \A d \in Claims, r \in Services : Holds(d, r)' <=> Holds(d, r)
    BY DEF Holds
  <1>2. Exclusive'
    BY <1>1 DEF ClaimInv, Exclusive
  <1>3. HeldIsClaimed'
    BY <1>1 DEF ClaimInv, HeldIsClaimed
  <1>4. CopiesCurrent'
    BY DEF ClaimInv, CopiesCurrent, caches
  <1>5. WorkerKnows'
    <2>1. w.pc \in Claiming \cup {"markPending"} => w.svc \in Services
      BY DEF ClaimInv, WorkersBusy
    <2> QED BY <1>1, <2>1 DEF ClaimInv, WorkerKnows, Claiming, Deleting
  <1>6. OldDeletionSeen'
    BY DEF ClaimInv, OldDeletionSeen, caches
  <1> QED BY <1>2, <1>3, <1>4, <1>5, <1>6 DEF ClaimInv, TypeInv

(* Users' writes of services keep ClaimInv.                                *)
LEMMA UserServiceInv ==
  ASSUME ClaimInv, NEW s \in Services,
         CreateService(s) \/ DeleteService(s) \/ EditService(s)
  PROVE  ClaimInv'
  <1>1. TypeInv /\ TypeInv' /\ svc \in [Services -> SvcState]
    BY UserServiceSteps DEF ClaimInv, TypeInv, TypeOK
  <1>2. ASSUME NEW st, StoreService(s, st, NoClaim, TRUE),
               OutdateServiceCopy(s, TRUE), OutdateSvcWorker(s),
               UNCHANGED <<claim, caches>>
        PROVE  ClaimInv'
    <2>1. /\ stale \subseteq stale' /\ s \in stale'
          /\ \A r \in Services \ {s} : svc'[r] = svc[r]
          /\ stray \subseteq stray'
          /\ svc[s] = "Claimed" /\ svc'[s] # "Claimed" /\ (\E d \in Claims : Holds(d, s))
               => s \in stray'
      BY <1>1, <1>2 DEF StoreService
    <2>2. /\ w'.pc = w.pc /\ w'.c = w.c /\ w'.svc = w.svc /\ w'.obj = w.obj
          /\ w'.fresh = w.fresh /\ w'.resolved = w.resolved
      BY <1>1, <1>2, OutdateServiceWork
    <2>3. w'.sfresh => w.sfresh /\ w.svc # s
      BY <1>1, <1>2 DEF OutdateServiceCopy, TypeInv, TypeOK, Worker
    <2>4. v'.fresh => v' = v /\ v.s # s
      BY <1>1, <1>2 DEF OutdateSvcWorker, TypeInv, TypeOK, SvcWorker
    <2> QED BY <1>1, <1>2, <2>1, <2>2, <2>3, <2>4, ServiceEdit
  <1> QED BY <1>2 DEF CreateService, DeleteService, EditService

(* The status update of the RegisteredService controller keeps ClaimInv:   *)
(* a current version tells whether the service is Claimed.                 *)
LEMMA UpdateServiceInv ==
  ASSUME ClaimInv, UpdateService
  PROVE  ClaimInv'
  <1>1. TypeInv /\ TypeInv' /\ svc \in [Services -> SvcState] /\ v.s \in Services
    BY ServiceControllerSteps DEF ClaimInv, TypeInv, TypeOK, WorkersBusy, UpdateService
  <1>2. ~v'.fresh /\ UNCHANGED <<claim, caches>>
    BY DEF UpdateService, SvcIdle
  <1>3. CASE UNCHANGED <<svc, version, stray, w>>
    BY <1>1, <1>2, <1>3, ServiceEdit DEF version
  <1>4. CASE /\ StoreService(v.s, v.state, NoClaim, FALSE)
             /\ OutdateServiceCopy(v.s, v.state # svc[v.s])
    <2>1. /\ stale \subseteq stale' /\ (v.s \in stale' \/ svc'[v.s] = svc[v.s])
          /\ \A r \in Services \ {v.s} : svc'[r] = svc[r]
          /\ stray \subseteq stray'
          /\ svc[v.s] = "Claimed" /\ svc'[v.s] # "Claimed" /\ (\E d \in Claims : Holds(d, v.s))
               => v.s \in stray'
          /\ svc'[v.s] = v.state
      BY <1>1, <1>4 DEF StoreService
    <2>2. /\ w'.pc = w.pc /\ w'.c = w.c /\ w'.svc = w.svc /\ w'.obj = w.obj
          /\ w'.fresh = w.fresh /\ w'.resolved = w.resolved
      BY <1>1, <1>4, OutdateServiceWork
    <2>3. w'.sfresh => w.sfresh /\ (w.svc # v.s \/ svc'[v.s] = svc[v.s])
      BY <1>1, <1>4, <2>1 DEF OutdateServiceCopy, TypeInv, TypeOK, Worker
    <2> QED BY <1>1, <1>2, <2>1, <2>2, <2>3, ServiceEdit
  <1> QED BY <1>3, <1>4 DEF UpdateService

(* The caches move towards the API server, and the worker with them.       *)
LEMMA SyncInv ==
  ASSUME ClaimInv,
         \/ \E c \in Claims : SyncClaim(c)
         \/ \E s \in Services : SyncService(s)
  PROVE  ClaimInv'
  <1>1. TypeInv' /\ cCache \in [Claims -> ClaimObj] /\ sCache \in [Services -> SvcState]
    BY SyncSteps DEF ClaimInv, TypeInv, TypeOK
  <1>2. UNCHANGED <<claim, svc, w, v, stray>>
    BY DEF SyncClaim, SyncService
  <1>3. \A d \in Claims, s \in Services : Holds(d, s)' <=> Holds(d, s)
    BY <1>2 DEF Holds
  <1>4. Exclusive' /\ HeldIsClaimed'
    BY <1>2, <1>3, HoldsShrink DEF ClaimInv
  <1>5. WorkerKnows'
    <2>1. w.pc = "claimService" => w.svc \in Services
      BY DEF ClaimInv, WorkersBusy, Claiming
    <2> QED BY <1>2, <1>3, <2>1 DEF ClaimInv, WorkerKnows
  <1>6. ASSUME NEW c \in Claims, SyncClaim(c) PROVE CopiesCurrent' /\ OldDeletionSeen'
    BY <1>1, <1>2, <1>6 DEF SyncClaim, ClaimInv, CopiesCurrent, OldDeletionSeen
  <1>7. ASSUME NEW s \in Services, SyncService(s) PROVE CopiesCurrent' /\ OldDeletionSeen'
    BY <1>1, <1>2, <1>7 DEF SyncService, ClaimInv, CopiesCurrent, OldDeletionSeen
  <1> QED BY <1>1, <1>4, <1>5, <1>6, <1>7 DEF ClaimInv, TypeInv

(* Restarts and the ClusterEnvironment controller's pass keep ClaimInv.    *)
LEMMA EnvironmentInv ==
  ASSUME ClaimInv,
         \/ Crash
         \/ \E c \in Claims : PushUnresolved(c) \/ PushClaim(c)
         \/ ListClaimsToPush
  PROVE  ClaimInv'
  <1>1. TypeInv' BY EnvironmentSteps DEF ClaimInv, TypeInv
  <1>2. CASE Restart
    <2>1. w'.pc = "idle" /\ ~w'.fresh /\ ~w'.resolved /\ ~v'.fresh
      BY <1>2 DEF Restart, Idle, SvcIdle
    <2>2. \A d \in Claims, s \in Services : Holds(d, s)' => Holds(d, s)
      BY <1>2, <2>1 DEF Holds, Restart
    <2>3. Exclusive' /\ HeldIsClaimed'
      BY <1>2, <2>2, HoldsShrink DEF ClaimInv, Restart
    <2>4. CopiesCurrent' /\ OldDeletionSeen'
      BY <1>2, <2>1 DEF CopiesCurrent, OldDeletionSeen, Restart
    <2>5. WorkerKnows'
      BY <2>1 DEF WorkerKnows, Claiming, Deleting
    <2> QED BY <1>1, <2>3, <2>4, <2>5 DEF ClaimInv, TypeInv
  <1>3. CASE UNCHANGED <<claim, svc, caches, version, w, v, stray>>
    BY <1>1, <1>3 DEF ClaimInv, TypeInv, CopiesCurrent, WorkerKnows, OldDeletionSeen,
       Exclusive, HeldIsClaimed, Holds, caches, version
  <1> QED BY <1>2, <1>3 DEF Crash, PushUnresolved, PushClaim, ListClaimsToPush

(* The RegisteredService controller's decision is right for the version it *)
(* was taken from.                                                         *)
LEMMA ReconcileServiceInv ==
  ASSUME ClaimInv, NEW s \in Services, ReconcileService(s)
  PROVE  ClaimInv'
  <1>1. TypeInv' BY ServiceControllerSteps DEF ClaimInv, TypeInv
  <1>2. UNCHANGED <<claim, svc, caches, version, w, stray>>
    BY DEF ReconcileService
  <1>3. PICK state \in ServiceOutcomes(s, sCache[s]) :
          v' = [pc |-> "update", s |-> s, state |-> state, fresh |-> s \notin stale]
    BY DEF ReconcileService
  <1>4. /\ state = "Claimed" => sCache[s] = "Claimed"
        /\ s \notin HealthChecked /\ sCache[s] = "Claimed" => state = "Claimed"
    BY <1>3 DEF ServiceOutcomes, Completed
  <1>5. v'.s = s /\ v'.state = state /\ (v'.fresh => s \notin stale)
    BY <1>3
  <1>6. CopiesCurrent'
    BY <1>2, <1>4, <1>5 DEF ClaimInv, CopiesCurrent, caches, version
  <1> QED BY <1>1, <1>2, <1>6 DEF ClaimInv, TypeInv, WorkerKnows, OldDeletionSeen,
       Exclusive, HeldIsClaimed, Holds, caches, version

(* What the step Reconcile chooses says of the claim that was read.        *)
LEMMA DispatchMeans ==
  ASSUME NEW o \in ClaimObj
  PROVE  /\ Dispatch(o) \notin Claiming \cup {"markPending", "push", "markResolved"}
         /\ Dispatch(o) = "again" /\ o.phase # "absent"
              => o.phase = "live" /\ o.state = "Resolved"
         /\ Dispatch(o) \in Deleting => o.phase = "terminating"
  BY DEF Dispatch, Claiming, Deleting, ClaimObj

(* The worker takes up a claim it finds in the cache. *)
LEMMA ReconcileInv ==
  ASSUME ClaimInv, NEW c \in Claims, Reconcile(c)
  PROVE  ClaimInv'
  <1>1. TypeInv' /\ w = Idle /\ cCache[c] \in ClaimObj
    BY LocalSteps DEF ClaimInv, TypeInv, TypeOK, WorkersBusy, Reconcile
  <1>2. UNCHANGED <<claim, svc, caches, version, v, stray>>
    BY DEF Reconcile
  <1>3. CASE w' = w
    BY <1>1, <1>2, <1>3 DEF ClaimInv, TypeInv, CopiesCurrent, WorkerKnows, OldDeletionSeen,
       Exclusive, HeldIsClaimed, Holds, caches, version
  <1>4. CASE w' # w
    <2>1. /\ w' = [Idle EXCEPT !.pc = Dispatch(cCache[c]), !.c = c, !.obj = cCache[c],
                                !.fresh = c \notin stale]
          /\ cCache[c].phase # "absent"
      BY <1>4 DEF Reconcile
    <2>2. /\ w'.pc = Dispatch(cCache[c]) /\ w'.c = c /\ w'.obj = cCache[c]
          /\ w'.fresh => c \notin stale
          /\ ~w'.resolved
      BY <2>1 DEF Idle
    <2>a. cCache[c].phase # "absent" BY <2>1
    <2>3. /\ w'.pc \notin Claiming \cup {"markPending"}
          /\ w'.pc = "again" => cCache[c].phase = "live" /\ cCache[c].state = "Resolved"
          /\ w'.pc \in Deleting => cCache[c].phase = "terminating"
      BY <1>1, <2>a, <2>2, DispatchMeans
    <2>4. \A d \in Claims, s \in Services : Holds(d, s)' => Holds(d, s)
      BY <1>2, <2>3 DEF Holds, Claiming
    <2>5. Exclusive' /\ HeldIsClaimed'
      BY <1>2, <2>4, HoldsShrink DEF ClaimInv
    <2>6. CopiesCurrent'
      BY <1>2, <2>2 DEF ClaimInv, CopiesCurrent, caches, version
    <2>7. claim[c].phase # "live" \/ claim[c].state # "Resolved" \/ w'.pc \notin Deleting
      BY <2>3 DEF ClaimInv, OldDeletionSeen
    <2>8. WorkerKnows'
      BY <1>2, <2>1, <2>2, <2>3, <2>7 DEF WorkerKnows, Claiming
    <2>9. OldDeletionSeen'
      BY <1>2 DEF ClaimInv, OldDeletionSeen, caches
    <2> QED BY <1>1, <2>5, <2>6, <2>8, <2>9 DEF ClaimInv, TypeInv
  <1> QED BY <1>3, <1>4

(* A write of its claim by the worker, from a copy that is the current     *)
(* version: it adds no user of a service, and leaves the worker idle or    *)
(* with what it has just written.                                          *)
LEMMA WorkerClaimWrite ==
  ASSUME ClaimInv, TypeInv', w.pc # "idle", w.fresh,
         claim' = [claim EXCEPT ![w.c] = claim'[w.c]],
         stale \subseteq stale', w.c \in stale' \/ claim'[w.c] = claim[w.c],
         \A s \in Services :
           claim'[w.c].phase = "live" /\ claim'[w.c].state = "Resolved"
             /\ claim'[w.c].rs = s => Holds(w.c, s),
         claim'[w.c].phase = "live" /\ claim'[w.c].state = "Resolved"
           => claim[w.c].phase = "live",
         \/ w' = Idle
         \/ /\ w'.c = w.c /\ w'.svc = w.svc /\ w'.sfresh = w.sfresh
            /\ w'.obj = claim'[w.c] /\ w'.obj.phase = w.obj.phase
            /\ w'.pc \notin {"push", "markResolved"},
         WorkerKnows',
         UNCHANGED <<svc, caches, v, stray>>
  PROVE  ClaimInv'
  <1>1. /\ w.c \in Claims /\ claim \in [Claims -> ClaimObj]
        /\ w.obj = claim[w.c] /\ cCache[w.c].phase = claim[w.c].phase
    BY DEF ClaimInv, WorkersBusy, TypeOK, CopiesCurrent
  <1>2. \A d \in Claims \ {w.c} : claim'[d] = claim[d]
    BY <1>1
  <1>3. w'.pc \notin {"push", "markResolved"} BY DEF Idle
  <1>4. \A d \in Claims, s \in Services : Holds(d, s)' => Holds(d, s)
    BY <1>1, <1>2, <1>3 DEF Holds
  <1>5. Exclusive' /\ HeldIsClaimed'
    BY <1>4, HoldsShrink DEF ClaimInv
  <1>6. CopiesCurrent'
    <2>1. w'.fresh => w'.c = w.c /\ w'.obj = claim'[w.c] /\ w'.obj.phase = w.obj.phase
      BY DEF Idle
    <2> QED BY <1>1, <1>2, <2>1 DEF ClaimInv, CopiesCurrent, caches
  <1>7. OldDeletionSeen'
    BY <1>1, <1>2 DEF ClaimInv, OldDeletionSeen, caches
  <1> QED BY <1>5, <1>6, <1>7 DEF ClaimInv, TypeInv

(* A conflict, or an error after the write, leaves the worker idle.        *)
LEMMA IdleKnows ==
  ASSUME w' = Idle
  PROVE  WorkerKnows'
  BY DEF WorkerKnows, Idle, Claiming, Deleting

(* A worker that ends without a write keeps ClaimInv.                      *)
LEMMA GivesUp ==
  ASSUME ClaimInv, TypeInv', w' = Idle,
         UNCHANGED <<claim, svc, caches, version, v, stray>>
  PROVE  ClaimInv'
  <1>1. w'.pc = "idle" /\ ~w'.fresh BY DEF Idle
  <1>2. \A d \in Claims, s \in Services : Holds(d, s)' => Holds(d, s)
    BY <1>1 DEF Holds
  <1>3. Exclusive' /\ HeldIsClaimed'
    BY <1>2, HoldsShrink DEF ClaimInv
  <1>4. CopiesCurrent' /\ OldDeletionSeen'
    BY <1>1 DEF ClaimInv, CopiesCurrent, OldDeletionSeen, caches, version
  <1> QED BY <1>3, <1>4, IdleKnows DEF ClaimInv, TypeInv

(* WriteClaim as those two cases. *)
LEMMA WriteClaimCases ==
  ASSUME ClaimInv, w.pc # "idle", NEW o, NEW next, NEW status \in BOOLEAN,
         WriteClaim(o, next, status), w' # Idle \/ claim' # claim \/ stale' # stale
  PROVE  /\ w.fresh /\ w.c \in Claims /\ w.obj = claim[w.c] /\ w.obj \in ClaimObj
         /\ claim' = [claim EXCEPT ![w.c] = o] /\ claim'[w.c] = o
         /\ stale \subseteq stale'
         /\ w.c \in stale' \/ o = claim[w.c]
         /\ w' = Idle \/ w' = next
  <1>1. w.c \in Claims /\ claim \in [Claims -> ClaimObj] BY DEF ClaimInv, WorkersBusy, TypeOK
  <1>2. w.fresh BY DEF WriteClaim, Requeue, version
  <1>3. w.obj = claim[w.c] BY <1>2 DEF ClaimInv, CopiesCurrent
  <1> QED BY <1>1, <1>2, <1>3 DEF WriteClaim, StoreClaim, Requeue

(* The finalizer and the initialization keep ClaimInv.                     *)
LEMMA InitializeInv ==
  ASSUME ClaimInv, AddFinalizer \/ ensureServiceClaimIsInitialized
  PROVE  ClaimInv'
  <1>1. TypeInv' /\ w.pc \in {"finalizer", "initialize"} /\ UNCHANGED <<svc, caches, v, stray>>
    BY ClaimWrites DEF ClaimInv, TypeInv, AddFinalizer, ensureServiceClaimIsInitialized
  <1>2. /\ w.obj \in ClaimObj /\ w.obj.phase # "absent" /\ ~w.resolved
        /\ w \in Worker
    BY <1>1 DEF ClaimInv, TypeOK, Worker, WorkerKnows, Claiming
  <1>3. ASSUME NEW o \in ClaimObj, o.phase = w.obj.phase,
               o.state = "Pending" \/ (o.state = w.obj.state /\ o.rs = w.obj.rs),
               WriteClaim(o, [w EXCEPT !.pc = Dispatch(o), !.obj = o], FALSE)
        PROVE  ClaimInv'
    <2>1. CASE w' = Idle /\ claim' = claim /\ stale' = stale
      <3>1. edited' = edited
        BY <1>3 DEF WriteClaim, StoreClaim, version
      <3> QED BY <1>1, <2>1, <3>1, GivesUp DEF version
    <2>2. CASE ~(w' = Idle /\ claim' = claim /\ stale' = stale)
      <3>1. /\ w.fresh /\ w.c \in Claims /\ w.obj = claim[w.c]
            /\ claim' = [claim EXCEPT ![w.c] = o] /\ claim'[w.c] = o
            /\ stale \subseteq stale'
            /\ w.c \in stale' \/ o = claim[w.c]
            /\ w' = Idle \/ w' = [w EXCEPT !.pc = Dispatch(o), !.obj = o]
        BY <1>1, <1>3, <2>2, WriteClaimCases
      <3>2. w' # Idle => /\ w'.c = w.c /\ w'.svc = w.svc /\ w'.sfresh = w.sfresh
                         /\ w'.obj = o /\ w'.pc = Dispatch(o) /\ ~w'.resolved
        BY <1>2, <3>1 DEF Worker
      <3>3. WorkerKnows'
        <4>1. CASE w' = Idle BY <4>1, IdleKnows
        <4>2. CASE w' # Idle
          BY <1>2, <1>3, <3>1, <3>2, <4>2, DispatchMeans DEF WorkerKnows, Claiming
        <4> QED BY <4>1, <4>2
      <3>4. \A s \in Services :
              o.phase = "live" /\ o.state = "Resolved" /\ o.rs = s => Holds(w.c, s)
        BY <1>3, <3>1 DEF Holds
      <3> QED BY <1>1, <1>2, <1>3, <3>1, <3>2, <3>3, <3>4, DispatchMeans, WorkerClaimWrite
    <2> QED BY <2>1, <2>2
  <1>4. CASE AddFinalizer
    <2> DEFINE o == [w.obj EXCEPT !.fin = TRUE]
    <2>1. o \in ClaimObj /\ o.phase = w.obj.phase /\ o.state = w.obj.state /\ o.rs = w.obj.rs
      BY <1>2 DEF ClaimObj
    <2>2. WriteClaim(o, [w EXCEPT !.pc = Dispatch(o), !.obj = o], FALSE)
      BY <1>4 DEF AddFinalizer
    <2> HIDE DEF o
    <2> QED BY <1>3, <2>1, <2>2
  <1>5. CASE ensureServiceClaimIsInitialized
    <2> DEFINE o == [w.obj EXCEPT !.id = TRUE, !.state = "Pending"]
    <2>1. o \in ClaimObj /\ o.phase = w.obj.phase /\ o.state = "Pending"
      BY <1>2 DEF ClaimObj
    <2>2. WriteClaim(o, [w EXCEPT !.pc = Dispatch(o), !.obj = o], FALSE)
      BY <1>5 DEF ensureServiceClaimIsInitialized
    <2> HIDE DEF o
    <2> QED BY <1>3, <2>1, <2>2
  <1> QED BY <1>4, <1>5

(* Setting a claim to Pending keeps ClaimInv: the worker takes over what   *)
(* the claim held.                                                         *)
LEMMA MarkPendingInv ==
  ASSUME ClaimInv, markPending
  PROVE  ClaimInv'
  <1> DEFINE o == [w.obj EXCEPT !.state = "Pending", !.rs = w.svc]
  <1>1. TypeInv' /\ w.pc = "markPending" /\ UNCHANGED <<svc, caches, v, stray>>
    BY ClaimWrites DEF ClaimInv, TypeInv, markPending
  <1>2. /\ w.obj \in ClaimObj /\ w \in Worker /\ w.svc \in Services
        /\ w.obj.phase # "absent"
    BY <1>1 DEF ClaimInv, TypeOK, Worker, WorkersBusy, WorkerKnows
  <1>3. o.phase = w.obj.phase /\ o.state = "Pending" /\ o.rs = w.svc
    BY <1>2 DEF ClaimObj
  <1>4. WriteClaim(o, [w EXCEPT !.pc = "claimService", !.obj = o], TRUE)
    BY DEF markPending
  <1> HIDE DEF o
  <1>5. CASE w' = Idle /\ claim' = claim /\ stale' = stale
    <2>1. edited' = edited
      BY <1>4 DEF WriteClaim, StoreClaim, version
    <2> QED BY <1>1, <1>5, <2>1, GivesUp DEF version
  <1>6. CASE ~(w' = Idle /\ claim' = claim /\ stale' = stale)
    <2>1. /\ w.fresh /\ w.c \in Claims /\ w.obj = claim[w.c]
          /\ claim' = [claim EXCEPT ![w.c] = o] /\ claim'[w.c] = o
          /\ stale \subseteq stale'
          /\ w.c \in stale' \/ o = claim[w.c]
          /\ w' = Idle \/ w' = [w EXCEPT !.pc = "claimService", !.obj = o]
      BY <1>1, <1>4, <1>6, WriteClaimCases
    <2>2. w' # Idle => /\ w'.c = w.c /\ w'.svc = w.svc /\ w'.sfresh = w.sfresh
                       /\ w'.obj = o /\ w'.pc = "claimService" /\ w'.resolved = w.resolved
      BY <1>2, <2>1 DEF Worker
    <2>3. WorkerKnows'
      <3>1. CASE w' = Idle BY <3>1, IdleKnows
      <3>2. CASE w' # Idle
        <4>1. ASSUME NEW d \in Claims, Holds(d, w.svc)'
              PROVE  Holds(d, w.svc)
          <5>1. \A e \in Claims \ {w.c} : claim'[e] = claim[e]
            BY <2>1 DEF ClaimInv, TypeOK
          <5> QED BY <1>3, <2>1, <2>2, <3>2, <4>1, <5>1 DEF Holds
        <4>2. w.resolved /\ w.svc \notin stray
                => \A d \in Claims : Holds(d, w.svc) => d = w.c
          <5>1. w.resolved => Holds(w.c, w.svc)
            BY <1>1, <2>1 DEF ClaimInv, WorkerKnows, Holds
          <5> QED BY <1>2, <2>1, <5>1 DEF ClaimInv, Exclusive
        <4>3. w.sfresh /\ ~w.resolved => svc[w.svc] = "Available"
          BY <1>1 DEF ClaimInv, WorkerKnows
        <4> QED BY <1>1, <1>2, <1>3, <2>1, <2>2, <3>2, <4>1, <4>2, <4>3
                DEF WorkerKnows, Claiming, Deleting
      <3> QED BY <3>1, <3>2
    <2> QED BY <1>1, <1>2, <1>3, <2>1, <2>2, <2>3, WorkerClaimWrite
  <1> QED BY <1>5, <1>6

(* The last write of a reconciliation: the worker goes idle with it.       *)
LEMMA LastWrite ==
  ASSUME ClaimInv, TypeInv', w.pc # "idle", w.fresh, w' = Idle, NEW o,
         claim' = [claim EXCEPT ![w.c] = o],
         stale \subseteq stale', w.c \in stale' \/ o = claim[w.c],
         o.phase # "live" \/ o.state # "Resolved"
           \/ (Holds(w.c, o.rs) /\ o.phase = w.obj.phase),
         UNCHANGED <<svc, caches, v, stray>>
  PROVE  ClaimInv'
  <1>1. w.obj = claim[w.c] /\ w.c \in Claims /\ claim \in [Claims -> ClaimObj]
    BY DEF ClaimInv, CopiesCurrent, WorkersBusy, TypeOK
  <1>2. claim'[w.c] = o BY <1>1
  <1> QED BY <1>1, <1>2, IdleKnows, WorkerClaimWrite

(* The writes that end a reconciliation keep ClaimInv.                     *)
LEMMA LastWriteInv ==
  ASSUME ClaimInv, markResolved \/ reportNoMatch \/ removeFinalizer
  PROVE  ClaimInv'
  <1>1. /\ TypeInv' /\ w.pc # "idle" /\ w \in Worker /\ w.obj \in ClaimObj /\ w.c \in Claims
        /\ UNCHANGED <<svc, caches, v, stray>>
    BY ClaimWrites, OtherClaimWrites
       DEF ClaimInv, TypeInv, TypeOK, Worker, WorkersBusy, markResolved, reportNoMatch, removeFinalizer
  <1>2. CASE markResolved
    <2> DEFINE o == [w.obj EXCEPT !.state = "Resolved", !.rs = w.svc]
    <2>1. o.phase = w.obj.phase /\ o.rs = w.svc BY <1>1 DEF ClaimObj
    <2>2. WriteClaim(o, Idle, TRUE) BY <1>2 DEF markResolved
    <2> HIDE DEF o
    <2>3. w' = Idle BY <2>2 DEF WriteClaim, Requeue
    <2>4. CASE claim' = claim /\ stale' = stale
      <3>1. edited' = edited
        BY <2>2 DEF WriteClaim, StoreClaim, version
      <3> QED BY <1>1, <2>3, <2>4, <3>1, GivesUp DEF version
    <2>5. CASE ~(claim' = claim /\ stale' = stale)
      <3>1. /\ w.fresh /\ claim' = [claim EXCEPT ![w.c] = o]
            /\ stale \subseteq stale'
            /\ w.c \in stale' \/ o = claim[w.c]
        BY <1>1, <2>2, <2>5, WriteClaimCases
      <3>2. Holds(w.c, w.svc) BY <1>2 DEF markResolved, Holds
      <3> QED BY <1>1, <2>1, <2>3, <3>1, <3>2, LastWrite
    <2> QED BY <2>4, <2>5
  <1>3. CASE reportNoMatch
    <2> DEFINE o == [w.obj EXCEPT !.state = "Pending"]
    <2>1. o.state = "Pending" BY <1>1 DEF ClaimObj
    <2>2. w' = Idle /\ UNCHANGED edited BY <1>3 DEF reportNoMatch, Requeue
    <2>3. CASE UNCHANGED <<claim, stale>>
      BY <1>1, <2>2, <2>3, GivesUp DEF version
    <2>4. CASE w.fresh /\ claim' = [claim EXCEPT ![w.c] = o] /\ stale' = stale \cup {w.c}
      <3> HIDE DEF o
      <3> QED BY <1>1, <2>1, <2>2, <2>4, LastWrite
    <2> QED BY <1>3, <2>3, <2>4 DEF reportNoMatch
  <1>4. CASE removeFinalizer
    <2>1. w' = Idle BY <1>4 DEF removeFinalizer, Requeue, Done
    <2>2. CASE UNCHANGED <<claim, version>>
      BY <1>1, <2>1, <2>2, GivesUp
    <2>3. CASE w.fresh /\ StoreClaim(w.c, NoObj, TRUE)
      <3>1. claim' = [claim EXCEPT ![w.c] = NoObj] /\ stale' = stale \cup {w.c}
            /\ NoObj.phase # "live"
        BY <2>3 DEF StoreClaim, NoObj
      <3> QED BY <1>1, <2>1, <2>3, <3>1, LastWrite
    <2> QED BY <1>4, <2>2, <2>3 DEF removeFinalizer
  <1> QED BY <1>2, <1>3, <1>4

(* Steps of the worker that write no object. *)
LEMMA LocalInv ==
  ASSUME ClaimInv, TypeInv', WorkerKnows',
         w'.fresh => w.fresh /\ w'.c = w.c /\ w'.obj = w.obj,
         w'.pc \in {"push", "markResolved"}
           => w.pc \in {"push", "markResolved"} /\ w'.c = w.c /\ w'.svc = w.svc,
         UNCHANGED <<claim, svc, caches, version, v, stray>>
  PROVE  ClaimInv'
  <1>1. \A d \in Claims, s \in Services : Holds(d, s)' => Holds(d, s)
    BY DEF Holds
  <1>2. Exclusive' /\ HeldIsClaimed'
    BY <1>1, HoldsShrink DEF ClaimInv
  <1>3. CopiesCurrent' /\ OldDeletionSeen'
    BY DEF ClaimInv, CopiesCurrent, OldDeletionSeen, caches, version
  <1> QED BY <1>2, <1>3 DEF ClaimInv, TypeInv

(* A copy of a service, taken into the worker. *)
LEMMA CopyMeans ==
  ASSUME w \in Worker, NEW s \in Services
  PROVE  /\ CopyOf(s) \in Worker
         /\ CopyOf(s).c = w.c /\ CopyOf(s).obj = w.obj /\ CopyOf(s).fresh = w.fresh
         /\ CopyOf(s).svc = s /\ CopyOf(s).resolved = w.resolved
         /\ CopyOf(s).sfresh => s \notin stale
  <1> DEFINE f == s \notin stale
  <1>1. f \in BOOLEAN OBVIOUS
  <1>2. CopyOf(s) = [w EXCEPT !.svc = s, !.sfresh = f] BY DEF CopyOf
  <1>3. f => s \notin stale OBVIOUS
  <1> HIDE DEF f
  <1> QED BY <1>1, <1>2, <1>3 DEF Worker, SvcOrNone

(* The worker's steps that write no claim and no service keep ClaimInv.    *)
LEMMA WorkerLocalInv ==
  ASSUME ClaimInv,
         \/ processClaim \/ processResolvedServiceClaim
         \/ pushToClusterEnvironments \/ processClaimMarkedForDeletion
  PROVE  ClaimInv'
  <1>1. /\ TypeInv' /\ w \in Worker /\ w.obj \in ClaimObj /\ w.c \in Claims /\ w.pc # "idle"
        /\ UNCHANGED <<claim, svc, caches, version, v, stray>>
        /\ w.obj.phase # "absent"
    BY LocalSteps DEF ClaimInv, TypeInv, TypeOK, Worker, WorkersBusy, WorkerKnows,
       processClaim, processResolvedServiceClaim, pushToClusterEnvironments,
       processClaimMarkedForDeletion
  <1>2. CASE w' = Idle BY <1>1, <1>2, GivesUp
  <1>3. CASE processClaim
    <2>0. ~w.resolved BY <1>3 DEF ClaimInv, WorkerKnows, processClaim, Claiming
    <2>1. ASSUME NEW s \in Available(w.c), w' = [CopyOf(s) EXCEPT !.pc = "markPending"]
          PROVE  ClaimInv'
      <3>1. s \in Services /\ sCache[s] = "Available" BY <2>1 DEF Available
      <3>2. /\ w'.c = w.c /\ w'.obj = w.obj /\ w'.fresh = w.fresh /\ w'.svc = s
            /\ w'.sfresh => s \notin stale
            /\ ~w'.resolved
        BY <1>1, <2>0, <2>1, <3>1, CopyMeans DEF Worker
      <3>3. w'.pc = "markPending" BY <1>1, <2>1 DEF CopyOf, Worker
      <3>4. w'.sfresh => svc[s] = "Available"
        BY <3>1, <3>2 DEF ClaimInv, CopiesCurrent
      <3>5. WorkerKnows'
        BY <1>1, <3>2, <3>3, <3>4 DEF WorkerKnows, Claiming, Deleting
      <3> QED BY <1>1, <3>2, <3>3, <3>5, LocalInv
    <2>2. CASE w' = [w EXCEPT !.pc = "noMatch"]
      <3>1. /\ w'.c = w.c /\ w'.obj = w.obj /\ w'.fresh = w.fresh /\ ~w'.resolved
            /\ w'.pc = "noMatch"
        BY <1>1, <2>0, <2>2 DEF Worker
      <3>2. WorkerKnows' BY <1>1, <3>1 DEF WorkerKnows, Claiming, Deleting
      <3> QED BY <1>1, <3>1, <3>2, LocalInv
    <2> QED BY <1>2, <1>3, <2>1, <2>2 DEF processClaim, Goto, Requeue
  <1>4. CASE processResolvedServiceClaim
    <2>1. w.pc = "again" /\ w.obj.phase = "live" /\ w.obj.state = "Resolved"
          /\ w.obj.rs \in SvcOrNone
      BY <1>1, <1>4 DEF processResolvedServiceClaim, ClaimInv, WorkerKnows, ClaimObj
    <2>2. CASE /\ w.obj.rs \in Services
               /\ w' = [CopyOf(w.obj.rs) EXCEPT !.pc = "markPending", !.resolved = TRUE]
      <3>1. /\ w'.c = w.c /\ w'.obj = w.obj /\ w'.fresh = w.fresh /\ w'.svc = w.obj.rs
            /\ w'.resolved = TRUE
        BY <1>1, <2>2, CopyMeans DEF Worker
      <3>2. w'.pc = "markPending" BY <1>1, <2>2 DEF CopyOf, Worker
      <3>3. WorkerKnows' BY <1>1, <2>1, <3>1, <3>2 DEF WorkerKnows, Claiming, Deleting
      <3> QED BY <1>1, <3>1, <3>2, <3>3, LocalInv
    <2> QED BY <1>2, <1>4, <2>1, <2>2 DEF processResolvedServiceClaim, Requeue, SvcOrNone
  <1>5. CASE pushToClusterEnvironments
    <2>1. /\ w'.c = w.c /\ w'.obj = w.obj /\ w'.fresh = w.fresh /\ w'.svc = w.svc
          /\ w'.resolved = w.resolved /\ w'.pc \in {"markResolved", "rollback"}
          /\ w.pc = "push"
      BY <1>1, <1>5 DEF pushToClusterEnvironments, Worker
    <2>2. WorkerKnows'
      BY <1>1, <2>1 DEF ClaimInv, WorkerKnows, Claiming, Deleting
    <2> QED BY <1>1, <2>1, <2>2, LocalInv
  <1>6. CASE processClaimMarkedForDeletion
    <2>0. w.pc = "unbind" /\ ~w.resolved
          /\ (claim[w.c].phase # "live" \/ claim[w.c].state # "Resolved")
      BY <1>6 DEF ClaimInv, WorkerKnows, processClaimMarkedForDeletion, Claiming, Deleting
    <2>1. PICK err \in BOOLEAN :
            \/ \E s \in ReleaseCandidates(w.c) :
                 w' = [CopyOf(s) EXCEPT !.pc = "release", !.err = err]
            \/ w' = [w EXCEPT !.pc = "removeFinalizer"]
            \/ w' = Idle
      BY <1>6 DEF processClaimMarkedForDeletion
    <2>2. ASSUME NEW s \in Services, w' = [CopyOf(s) EXCEPT !.pc = "release", !.err = err]
          PROVE  /\ w'.c = w.c /\ w'.obj = w.obj /\ w'.fresh = w.fresh
                 /\ ~w'.resolved /\ w'.pc = "release"
      BY <1>1, <2>0, <2>2, CopyMeans DEF Worker
    <2>3. CASE w' # Idle
      <3>1. /\ w'.c = w.c /\ w'.obj = w.obj /\ w'.fresh = w.fresh
            /\ ~w'.resolved /\ w'.pc \in {"release", "removeFinalizer"}
        <4>1. CASE w' = [w EXCEPT !.pc = "removeFinalizer"]
          BY <1>1, <2>0, <4>1 DEF Worker
        <4> QED BY <2>1, <2>2, <2>3, <4>1 DEF ReleaseCandidates
      <3>2. WorkerKnows'
        BY <1>1, <2>0, <3>1 DEF WorkerKnows, Claiming, Deleting
      <3> QED BY <1>1, <3>1, <3>2, LocalInv
    <2> QED BY <1>2, <2>3
  <1> QED BY <1>3, <1>4, <1>5, <1>6

(* The copy a worker writes with is outdated by the write, and so is the   *)
(* other worker's.                                                         *)
LEMMA ChangeStateMeans ==
  ASSUME ClaimInv, w.svc \in Services, NEW state \in SvcState,
         changeServiceState(state, w.c)
  PROVE  /\ w.sfresh
         /\ svc'[w.svc] = state
         /\ \A r \in Services \ {w.svc} : svc'[r] = svc[r]
         /\ stale \subseteq stale'
         /\ w.svc \in stale' \/ svc'[w.svc] = svc[w.svc]
         /\ stray \subseteq stray'
         /\ state = "Claimed" => stray' = stray
         /\ svc[w.svc] = "Claimed" /\ state # "Claimed"
              /\ (\E d \in Claims \ {w.c} : Holds(d, w.svc)) => w.svc \in stray'
         /\ v'.fresh => v' = v /\ (v.s # w.svc \/ svc'[w.svc] = svc[w.svc])
  <1>1. StoreService(w.svc, state, w.c, FALSE) /\ w.sfresh BY DEF changeServiceState
  <1>2. svc \in [Services -> SvcState] /\ v \in SvcWorker BY DEF ClaimInv, TypeOK
  <1>3. v'.fresh => v' = v /\ (v.s # w.svc \/ state = svc[w.svc])
    BY <1>2 DEF changeServiceState, SvcWorker
  <1> QED BY <1>1, <1>2, <1>3 DEF StoreService

(* Claiming a service keeps ClaimInv: its current version is Available,    *)
(* or its only user is the worker's claim.                                 *)
LEMMA ClaimServiceInv ==
  ASSUME ClaimInv, claimService
  PROVE  ClaimInv'
  <1>1. /\ TypeInv' /\ w \in Worker /\ w.c \in Claims /\ w.svc \in Services
        /\ w.pc = "claimService" /\ UNCHANGED <<claim, caches>>
        /\ w.obj.phase # "absent" /\ claim[w.c].state # "Resolved"
    BY ServiceWrites DEF ClaimInv, TypeInv, TypeOK, WorkersBusy, WorkerKnows, claimService, Claiming
  <1>2. CASE Requeue /\ UNCHANGED <<svc, version, stray, v>>
    BY <1>1, <1>2, GivesUp DEF Requeue
  <1>3. CASE /\ changeServiceState("Claimed", w.c)
             /\ w' = [w EXCEPT !.pc = "push", !.sfresh = (svc[w.svc] = "Claimed")]
    <2>1. /\ w'.c = w.c /\ w'.obj = w.obj /\ w'.fresh = w.fresh /\ w'.svc = w.svc
          /\ w'.pc = "push" /\ w'.resolved = w.resolved
      BY <1>1, <1>3 DEF Worker
    <2>2. /\ w.sfresh /\ svc'[w.svc] = "Claimed"
          /\ \A r \in Services \ {w.svc} : svc'[r] = svc[r]
          /\ stale \subseteq stale'
          /\ w.svc \in stale' \/ svc'[w.svc] = svc[w.svc]
          /\ stray' = stray
          /\ v'.fresh => v' = v /\ (v.s # w.svc \/ svc'[w.svc] = svc[w.svc])
      BY <1>1, <1>3, ChangeStateMeans DEF SvcState
    <2>3. \A d \in Claims, s \in Services :
            Holds(d, s)' => Holds(d, s) \/ (d = w.c /\ s = w.svc)
      BY <1>1, <2>1 DEF Holds
    <2>4. w.svc \notin stray => \A d \in Claims : Holds(d, w.svc) => d = w.c
      <3>1. CASE w.resolved
        BY <1>1, <3>1 DEF ClaimInv, WorkerKnows
      <3>2. CASE ~w.resolved
        <4>1. svc[w.svc] = "Available"
          BY <1>1, <2>2, <3>2 DEF ClaimInv, WorkerKnows
        <4> QED BY <1>1, <4>1 DEF ClaimInv, HeldIsClaimed
      <3> QED BY <3>1, <3>2
    <2>5. Exclusive'
      BY <1>1, <2>2, <2>3, <2>4 DEF ClaimInv, Exclusive
    <2>6. HeldIsClaimed'
      BY <1>1, <2>2, <2>3 DEF ClaimInv, HeldIsClaimed
    <2>7. CopiesCurrent'
      BY <1>1, <2>1, <2>2 DEF ClaimInv, CopiesCurrent, caches
    <2>8. WorkerKnows'
      BY <1>1, <2>1 DEF WorkerKnows, Claiming, Deleting
    <2>9. OldDeletionSeen'
      BY <1>1 DEF ClaimInv, OldDeletionSeen, caches
    <2> QED BY <1>1, <2>5, <2>6, <2>7, <2>8, <2>9 DEF ClaimInv, TypeInv
  <1> QED BY <1>2, <1>3 DEF claimService

(* A service is given back: if some claim still holds it, history notes    *)
(* it, for the claim that gives it back does not hold it.                  *)
LEMMA GiveBackInv ==
  ASSUME ClaimInv, rollback \/ releaseService
  PROVE  ClaimInv'
  <1>1. /\ TypeInv' /\ w \in Worker /\ w.c \in Claims /\ w.svc \in Services
        /\ w.pc \in {"rollback", "release"} /\ UNCHANGED <<claim, caches>>
        /\ w.obj.phase # "absent"
        /\ claim[w.c].phase # "live" \/ claim[w.c].state # "Resolved"
        /\ w.pc = "release" => ~w.resolved
    BY ServiceWrites DEF ClaimInv, TypeInv, TypeOK, WorkersBusy, WorkerKnows,
       rollback, releaseService, Claiming, Deleting
  <1>2. \/ w' = Idle
        \/ w.pc = "release" /\ w' = [w EXCEPT !.pc = "removeFinalizer", !.sfresh = FALSE]
    BY DEF rollback, releaseService, Requeue, Done
  <1>3. CASE w' = Idle /\ UNCHANGED <<svc, version, stray, v>>
    BY <1>1, <1>3, GivesUp
  <1>4. CASE changeServiceState("Available", w.c)
    <2>1. /\ w'.pc \in {"idle", "removeFinalizer"}
          /\ w'.fresh => w.fresh /\ w'.c = w.c /\ w'.obj = w.obj
      <3>1. CASE w' = Idle BY <3>1 DEF Idle
      <3>2. CASE w' = [w EXCEPT !.pc = "removeFinalizer", !.sfresh = FALSE]
        BY <1>1, <3>2 DEF Worker
      <3> QED BY <1>2, <3>1, <3>2
    <2>2. /\ svc'[w.svc] = "Available"
          /\ \A r \in Services \ {w.svc} : svc'[r] = svc[r]
          /\ stale \subseteq stale'
          /\ w.svc \in stale' \/ svc'[w.svc] = svc[w.svc]
          /\ stray \subseteq stray'
          /\ svc[w.svc] = "Claimed"
              /\ (\E d \in Claims \ {w.c} : Holds(d, w.svc)) => w.svc \in stray'
          /\ v'.fresh => v' = v /\ (v.s # w.svc \/ svc'[w.svc] = svc[w.svc])
      BY <1>1, <1>4, ChangeStateMeans DEF SvcState
    <2>3. \A d \in Claims, s \in Services : Holds(d, s)' => Holds(d, s)
      BY <1>1, <2>1 DEF Holds
    <2>4. ~Holds(w.c, w.svc)
      BY <1>1 DEF Holds
    <2>5. Exclusive'
      BY <2>2, <2>3 DEF ClaimInv, Exclusive
    <2>6. HeldIsClaimed'
      BY <1>1, <2>2, <2>3, <2>4 DEF ClaimInv, HeldIsClaimed
    <2>7. CopiesCurrent'
      BY <1>1, <2>1, <2>2 DEF ClaimInv, CopiesCurrent, caches
    <2>8. WorkerKnows'
      <3>1. CASE w' = Idle BY <3>1, IdleKnows
      <3>2. CASE /\ w.pc = "release"
                 /\ w' = [w EXCEPT !.pc = "removeFinalizer", !.sfresh = FALSE]
        <4>1. /\ w'.c = w.c /\ w'.obj = w.obj /\ ~w'.resolved /\ w'.pc = "removeFinalizer"
          BY <1>1, <3>2 DEF Worker
        <4> QED BY <1>1, <4>1 DEF WorkerKnows, Claiming, Deleting
      <3> QED BY <1>2, <3>1, <3>2
    <2>9. OldDeletionSeen'
      BY <1>1 DEF ClaimInv, OldDeletionSeen, caches
    <2> QED BY <1>1, <2>5, <2>6, <2>7, <2>8, <2>9 DEF ClaimInv, TypeInv
  <1> QED BY <1>3, <1>4 DEF rollback, releaseService, Requeue, Done

(* Every step keeps ClaimInv.                                              *)
LEMMA ClaimInvStep == ClaimInv /\ [Next]_vars => ClaimInv'
  <1> SUFFICES ASSUME ClaimInv, [Next]_vars PROVE ClaimInv'
    OBVIOUS
  <1>0. CASE UNCHANGED vars
    <2>1. TypeInv' BY <1>0, TypeStep DEF ClaimInv, TypeInv
    <2> QED BY <1>0, <2>1 DEF vars, ClaimInv, TypeInv, CopiesCurrent, WorkerKnows,
       OldDeletionSeen, Exclusive, HeldIsClaimed, Holds
  <1>1. CASE \E c \in Claims : CreateClaim(c) \/ DeleteClaim(c) \/ EditClaim(c)
    BY <1>1, UserClaimInv
  <1>2. CASE \E s \in Services : CreateService(s) \/ DeleteService(s) \/ EditService(s)
    BY <1>2, UserServiceInv
  <1>3. CASE \/ \E c \in Claims : SyncClaim(c)
             \/ \E s \in Services : SyncService(s)
    BY <1>3, SyncInv
  <1>4. CASE \/ Crash \/ ListClaimsToPush
             \/ \E c \in Claims : PushUnresolved(c) \/ PushClaim(c)
    BY <1>4, EnvironmentInv
  <1>5. CASE UpdateService
    BY <1>5, UpdateServiceInv
  <1>6. CASE \E s \in Services : ReconcileService(s)
    BY <1>6, ReconcileServiceInv
  <1>7. CASE \E c \in Claims : Reconcile(c)
    BY <1>7, ReconcileInv
  <1>8. CASE ClaimWorker
    BY <1>8, InitializeInv, MarkPendingInv, LastWriteInv, WorkerLocalInv,
       ClaimServiceInv, GiveBackInv DEF ClaimWorker
  <1> QED BY <1>0, <1>1, <1>2, <1>3, <1>4, <1>5, <1>6, <1>7, <1>8 DEF Next

(* ClaimInv holds at the start.                                            *)
LEMMA ClaimInvInit == Init => ClaimInv
  <1> SUFFICES ASSUME Init PROVE ClaimInv
    OBVIOUS
  <1>1. TypeOK /\ WorkersBusy BY TypeInit DEF TypeInv
  <1>2. \A c \in Claims, s \in Services : ~Holds(c, s)
    BY DEF Init, Holds, NoObj, Idle
  <1>3. Exclusive /\ HeldIsClaimed BY <1>2 DEF Exclusive, HeldIsClaimed
  <1>4. CopiesCurrent BY DEF Init, CopiesCurrent, Idle, SvcIdle
  <1>5. WorkerKnows BY DEF Init, WorkerKnows, Idle, Claiming, Deleting
  <1>6. OldDeletionSeen BY DEF Init, OldDeletionSeen, NoObj
  <1> QED BY <1>1, <1>3, <1>4, <1>5, <1>6 DEF ClaimInv

(* The inductive invariant of the claim controller: what its copies and    *)
(* the cache tell of the objects while no write has overtaken them, and    *)
(* what the worker may conclude from that at each of its steps.            *)
THEOREM ClaimInvHolds == Spec => []ClaimInv
  BY ClaimInvInit, ClaimInvStep, PTL DEF Spec

(* For any numbers of claims and services, whatever the caches show, what  *)
(* fails and where the manager is restarted: two claims use one service    *)
(* only after that service was taken from under a claim that held it.      *)
THEOREM ServiceExclusive == Spec => []Exclusive
  <1>1. ClaimInv => Exclusive BY DEF ClaimInv
  <1> QED BY <1>1, ClaimInvHolds, PTL

(* ... and a service in use is Claimed, with the same proviso.             *)
THEOREM ServiceInUseClaimed == Spec => []HeldIsClaimed
  <1>1. ClaimInv => HeldIsClaimed BY DEF ClaimInv
  <1> QED BY <1>1, ClaimInvHolds, PTL

(* What a step does to the state of a service, by the step's author.       *)
LEMMA ServiceMoves ==
  ASSUME ClaimInv, [Next]_vars, NEW s \in Services, svc'[s] # svc[s]
  PROVE  \/ /\ svc[s] = "absent" /\ svc'[s] = ""
         \/ /\ svc'[s] = "absent"
         \/ /\ w.pc = "claimService" /\ w.svc = s /\ svc'[s] = "Claimed"
            /\ svc[s] = "Available" \/ w.resolved
         \/ /\ w.pc \in {"rollback", "release"} /\ w.svc = s /\ svc'[s] = "Available"
         \/ /\ svc'[s] # "Claimed"
            /\ s \in HealthChecked \/ svc[s] # "Claimed"
  <1>0. svc \in [Services -> SvcState] BY DEF ClaimInv, TypeOK
  <1>1. CASE UNCHANGED svc
    BY <1>1
  <1>2. ASSUME NEW r \in Services, CreateService(r) \/ DeleteService(r) \/ EditService(r)
        PROVE  (svc[s] = "absent" /\ svc'[s] = "") \/ svc'[s] = "absent"
    BY <1>0, <1>2 DEF CreateService, DeleteService, EditService, StoreService
  <1>3. CASE UpdateService
    <2>1. /\ v.fresh /\ svc' = [svc EXCEPT ![v.s] = v.state] /\ v.s = s
          /\ svc'[s] = v.state
      BY <1>0, <1>3 DEF UpdateService, StoreService
    <2>2. /\ v.state = "Claimed" => svc[v.s] = "Claimed"
          /\ v.s \notin HealthChecked /\ svc[v.s] = "Claimed" => v.state = "Claimed"
      BY <2>1 DEF ClaimInv, CopiesCurrent
    <2> QED BY <2>1, <2>2
  <1>4. CASE claimService
    <2>1. w.pc = "claimService" /\ changeServiceState("Claimed", w.c)
      BY <1>4 DEF claimService
    <2>2. w.sfresh /\ w.svc = s /\ svc'[s] = "Claimed"
      BY <1>0, <2>1 DEF changeServiceState, StoreService
    <2> QED BY <2>1, <2>2 DEF ClaimInv, WorkerKnows
  <1>5. CASE rollback \/ releaseService
    <2>1. w.pc \in {"rollback", "release"} /\ changeServiceState("Available", w.c)
      BY <1>5 DEF rollback, releaseService
    <2>2. w.svc = s /\ svc'[s] = "Available"
      BY <1>0, <2>1 DEF changeServiceState, StoreService
    <2> QED BY <2>1, <2>2
  <1>6. \/ UNCHANGED svc
        \/ \E r \in Services : CreateService(r) \/ DeleteService(r) \/ EditService(r)
        \/ UpdateService \/ claimService \/ rollback \/ releaseService
    BY DEF Next, vars, ClaimWorker, CreateClaim, DeleteClaim, EditClaim, SyncClaim,
       Reconcile, PushClaim, PushUnresolved, SyncService, ReconcileService,
       ListClaimsToPush, Crash, Restart, AddFinalizer, ensureServiceClaimIsInitialized,
       processClaim, reportNoMatch, processResolvedServiceClaim, markPending,
       pushToClusterEnvironments, markResolved, processClaimMarkedForDeletion,
       removeFinalizer
  <1> QED BY <1>1, <1>2, <1>3, <1>4, <1>5, <1>6

(* The RegisteredService controller never frees a Claimed service that has *)
(* no health check: its write is rejected when it decided from a version   *)
(* older than the claim.                                                   *)
THEOREM ClaimedNotFreed == Spec => OnlyClaimControllerFrees
  <1>1. ClaimInv /\ [Next]_vars
          => [\A s \in Services \ HealthChecked :
                svc[s] = "Claimed" /\ svc'[s] \notin {"Claimed", "absent"}
                  => w.pc \in {"rollback", "release"} /\ w.svc = s]_vars
    BY ServiceMoves
  <1> QED BY <1>1, ClaimInvHolds, PTL DEF Spec, OnlyClaimControllerFrees

(* No service is claimed that was not Available when it was written, but   *)
(* for a claim that renews its own.                                        *)
THEOREM ClaimsAvailable == Spec => ClaimedFromAvailable
  <1>1. ClaimInv /\ [Next]_vars
          => [\A s \in Services :
                svc[s] # "Claimed" /\ svc'[s] = "Claimed"
                  => /\ w.pc = "claimService" /\ w.svc = s
                     /\ svc[s] = "Available" \/ w.resolved]_vars
    BY ServiceMoves
  <1> QED BY <1>1, ClaimInvHolds, PTL DEF Spec, ClaimedFromAvailable
-----------------------------------------------------------------------------
(* ServiceBindings: what the claim controller leaves in the application    *)
(* namespaces, when nothing else writes there.                             *)

(* The steps at which a claim has its finalizer and no write is behind it. *)
Chosen == {"initialize", "choose", "noMatch", "again", "markPending"}

(* Nothing is bound for a claim before its finalizer is in the API server, *)
(* and the worker that binds it is the one that removes the finalizer.     *)
FinalizerKept ==
  /\ EnvPushes \/ \A c \in Claims : env[c] = NoPush
  /\ \A c \in Claims : claim[c].phase = "absent" => ~claim[c].fin
  /\ w.pc \in Chosen => w.obj.fin
  /\ w.pc \in Claiming => claim[w.c].fin

(* A binding is written before the status that speaks of it ...            *)
Bound ==
  /\ w.pc = "markResolved" /\ w.c \in Hosted => binding[w.c] = w.svc
  /\ ResolvedIsBound
  /\ \A c \in Claims : claim[c].phase = "live" /\ claim[c].state = "Resolved"
                        => claim[c].rs \in Services

(* ... and removed before the finalizer.                                   *)
Unbound ==
  /\ \A c \in Claims : ~claim[c].fin => binding[c] = NoService
  /\ w.pc = "removeFinalizer" \/ (w.pc = "release" /\ ~w.err)
       => binding[w.c] = NoService

BindInv ==
  /\ FinalizerKept
  /\ ~EnvPushes => Bound /\ Unbound

(* Steps that change neither claims nor bindings, nor what the worker does. *)
LEMMA BindFrame ==
  ASSUME BindInv, UNCHANGED <<claim, binding>>, EnvPushes \/ env' = env,
         w'.pc = w.pc, w'.c = w.c, w'.obj = w.obj, w'.svc = w.svc, w'.err = w.err
  PROVE  BindInv'
  BY DEF BindInv, FinalizerKept, Bound, Unbound, ResolvedIsBound

(* A worker that gives up, or is restarted, leaves bindings as they are.   *)
LEMMA BindIdle ==
  ASSUME BindInv, UNCHANGED <<claim, binding>>, w' = Idle,
         env' = env \/ \A c \in Claims : env'[c] = NoPush
  PROVE  BindInv'
  <1>1. w'.pc = "idle" BY DEF Idle
  <1> QED BY <1>1 DEF BindInv, FinalizerKept, Bound, Unbound, ResolvedIsBound, Chosen, Claiming

(* A write of the worker's claim: what it says is bound is bound, and it   *)
(* gives up the finalizer only when nothing is.                            *)
LEMMA BindWrite ==
  ASSUME ClaimInv, BindInv, w.pc # "idle", NEW o,
         claim' = [claim EXCEPT ![w.c] = o], UNCHANGED <<binding, env>>,
         o.phase = "absent" => ~o.fin,
         ~o.fin /\ ~EnvPushes => binding[w.c] = NoService,
         o.phase = "live" /\ o.state = "Resolved" /\ ~EnvPushes
           => (w.c \in Hosted => binding[w.c] = o.rs) /\ o.rs \in Services,
         \/ w' = Idle
         \/ /\ w'.c = w.c /\ w'.obj = o
            /\ w'.pc \in Chosen \cup Claiming => o.fin
            /\ w'.pc \notin {"markResolved", "release", "removeFinalizer"}
  PROVE  BindInv'
  <1>1. w.c \in Claims /\ claim \in [Claims -> ClaimObj]
    BY DEF ClaimInv, WorkersBusy, TypeOK
  <1>2. claim'[w.c] = o /\ \A d \in Claims \ {w.c} : claim'[d] = claim[d]
    BY <1>1
  <1>3. /\ w'.pc \in Chosen => w'.obj.fin
        /\ w'.pc \in Claiming => claim'[w'.c].fin
        /\ w'.pc \notin {"markResolved", "release", "removeFinalizer"}
    BY <1>2 DEF Idle, Chosen, Claiming
  <1>4. FinalizerKept'
    BY <1>2, <1>3 DEF BindInv, FinalizerKept
  <1>5. (~EnvPushes => Bound)'
    BY <1>2, <1>3 DEF BindInv, Bound, ResolvedIsBound
  <1>6. (~EnvPushes => Unbound)'
    BY <1>2, <1>3 DEF BindInv, Unbound
  <1> QED BY <1>4, <1>5, <1>6 DEF BindInv

(* Users create a claim without a finalizer, and lose at once only a claim *)
(* that has none.                                                          *)
LEMMA UserClaimBind ==
  ASSUME ClaimInv, BindInv, NEW c \in Claims,
         CreateClaim(c) \/ DeleteClaim(c) \/ EditClaim(c)
  PROVE  BindInv'
  <1>1. /\ claim \in [Claims -> ClaimObj] /\ claim[c] \in ClaimObj /\ TypeInv
        /\ UNCHANGED <<env, binding>> /\ OutdateClaimCopy(c) /\ w \in Worker
    BY DEF ClaimInv, TypeOK, TypeInv, CreateClaim, DeleteClaim, EditClaim
  <1>2. /\ w'.pc = w.pc /\ w'.c = w.c /\ w'.obj = w.obj /\ w'.svc = w.svc
        /\ w'.err = w.err
    BY <1>1 DEF OutdateClaimCopy, Worker
  <1>3. /\ \A d \in Claims \ {c} : claim'[d] = claim[d]
        /\ claim'[c].phase = "absent" => ~claim'[c].fin
        /\ claim'[c].phase = "live" /\ claim'[c].state = "Resolved"
             => claim[c].phase = "live" /\ claim'[c] = claim[c]
        /\ claim'[c].fin <=> claim[c].fin
    <2>1. ASSUME NEW o, claim' = [claim EXCEPT ![c] = o]
          PROVE  claim'[c] = o /\ \A d \in Claims \ {c} : claim'[d] = claim[d]
      BY <1>1, <2>1
    <2>2. CASE CreateClaim(c)
      <3> DEFINE o == [NoObj EXCEPT !.phase = "live"]
      <3>1. o.phase = "live" /\ o.state = "" /\ o.fin = FALSE BY DEF NoObj
      <3>2. claim' = [claim EXCEPT ![c] = o] BY <2>2 DEF CreateClaim, StoreClaim
      <3>3. ~claim[c].fin BY <2>2 DEF CreateClaim, BindInv, FinalizerKept
      <3> HIDE DEF o
      <3> QED BY <2>1, <3>1, <3>2, <3>3
    <2>3. CASE DeleteClaim(c)
      <3> DEFINE o == IF claim[c].fin THEN [claim[c] EXCEPT !.phase = "terminating"]
                                      ELSE NoObj
      <3>1. /\ o.phase # "live" /\ (o.fin <=> claim[c].fin)
            /\ o.phase = "absent" => ~o.fin
        BY <1>1 DEF NoObj, ClaimObj
      <3>2. claim' = [claim EXCEPT ![c] = o] BY <2>3 DEF DeleteClaim, StoreClaim
      <3> HIDE DEF o
      <3> QED BY <2>1, <3>1, <3>2
    <2>4. CASE EditClaim(c)
      BY <2>1, <2>4 DEF EditClaim, StoreClaim, BindInv, FinalizerKept
    <2> QED BY <2>2, <2>3, <2>4
  <1>4. w.pc # "idle" => w.c \in Claims BY DEF ClaimInv, WorkersBusy
  <1>5. FinalizerKept'
    BY <1>1, <1>2, <1>3, <1>4 DEF BindInv, FinalizerKept, Claiming
  <1>6. (~EnvPushes => Bound)'
    BY <1>1, <1>2, <1>3 DEF BindInv, Bound, ResolvedIsBound
  <1>7. (~EnvPushes => Unbound)'
    BY <1>1, <1>2, <1>3 DEF BindInv, Unbound
  <1> QED BY <1>5, <1>6, <1>7 DEF BindInv

(* Services, caches and the RegisteredService controller leave claims and  *)
(* bindings alone.                                                         *)
LEMMA OthersBind ==
  ASSUME ClaimInv, BindInv,
         \/ \E c \in Claims : SyncClaim(c)
         \/ \E s \in Services : \/ CreateService(s) \/ DeleteService(s) \/ EditService(s)
                                \/ SyncService(s) \/ ReconcileService(s)
         \/ UpdateService
         \/ ListClaimsToPush
  PROVE  BindInv'
  <1>1. w \in Worker BY DEF ClaimInv, TypeOK
  <1>2. UNCHANGED <<claim, binding>> /\ (EnvPushes \/ env' = env)
    BY DEF SyncClaim, CreateService, DeleteService, EditService, SyncService,
       ReconcileService, UpdateService, ListClaimsToPush
  <1>3. w' = w \/ w' = [w EXCEPT !.sfresh = FALSE]
    BY DEF SyncClaim, CreateService, DeleteService, EditService, SyncService,
       ReconcileService, UpdateService, ListClaimsToPush, OutdateServiceCopy
  <1>4. /\ w'.pc = w.pc /\ w'.c = w.c /\ w'.obj = w.obj /\ w'.svc = w.svc
        /\ w'.err = w.err
    BY <1>1, <1>3 DEF Worker
  <1> QED BY <1>2, <1>4, BindFrame

(* Restarts, and the pushes of the ClusterEnvironment controller, if it    *)
(* pushes at all.                                                          *)
LEMMA EnvironmentBind ==
  ASSUME ClaimInv, BindInv,
         Crash \/ \E c \in Claims : PushUnresolved(c) \/ PushClaim(c)
  PROVE  BindInv'
  <1>1. CASE Restart
    <2>1. \A c \in Claims : env'[c] = NoPush BY <1>1 DEF Restart
    <2> QED BY <1>1, <2>1, BindIdle DEF Restart
  <1>2. ASSUME NEW c \in Claims, PushClaim(c) PROVE BindInv'
    <2>1. EnvPushes /\ UNCHANGED <<claim, w>>
      BY <1>2, ConstantsAssumption DEF PushClaim, BindInv, FinalizerKept
    <2> QED BY <2>1 DEF BindInv, FinalizerKept
  <1> QED BY <1>1, <1>2 DEF Crash, PushUnresolved

(* The worker takes up a claim: past the finalizer only with one.          *)
LEMMA ReconcileBind ==
  ASSUME ClaimInv, BindInv, NEW c \in Claims, Reconcile(c)
  PROVE  BindInv'
  <1>1. UNCHANGED <<claim, binding, env>> BY DEF Reconcile
  <1>2. CASE w' = w BY <1>1, <1>2, BindFrame
  <1>3. CASE w' # w
    <2>1. /\ w' = [Idle EXCEPT !.pc = Dispatch(cCache[c]), !.c = c, !.obj = cCache[c],
                               !.fresh = c \notin stale]
          /\ cCache[c].phase # "absent"
      BY <1>3 DEF Reconcile
    <2>2. w'.pc = Dispatch(cCache[c]) /\ w'.c = c /\ w'.obj = cCache[c]
      BY <2>1 DEF Idle
    <2>3. /\ w'.pc \in Chosen => w'.obj.fin
          /\ w'.pc \notin Claiming \cup {"release", "removeFinalizer"}
      BY <2>2 DEF Dispatch, Chosen, Claiming
    <2> QED BY <1>1, <2>3 DEF BindInv, FinalizerKept, Bound, Unbound, ResolvedIsBound, Claiming
  <1> QED BY <1>2, <1>3

(* What the worker's writes of its claim need: a version that is current.  *)
LEMMA WriteClaimBind ==
  ASSUME ClaimInv, BindInv, w.pc # "idle", NEW o, NEW next, NEW status \in BOOLEAN,
         WriteClaim(o, next, status), UNCHANGED <<binding, env>>,
         w.fresh => /\ o.phase = "absent" => ~o.fin
                    /\ ~o.fin /\ ~EnvPushes => binding[w.c] = NoService
                    /\ o.phase = "live" /\ o.state = "Resolved" /\ ~EnvPushes
                         => (w.c \in Hosted => binding[w.c] = o.rs) /\ o.rs \in Services,
         next # Idle => /\ next.c = w.c /\ next.obj = o
                        /\ next.pc \in Chosen \cup Claiming => o.fin
                        /\ next.pc \notin {"markResolved", "release", "removeFinalizer"}
  PROVE  BindInv'
  <1>1. CASE w.fresh
    <2>1. claim' = [claim EXCEPT ![w.c] = o] /\ (w' = next \/ w' = Idle)
      BY <1>1 DEF WriteClaim, StoreClaim, Requeue
    <2> QED BY <1>1, <2>1, BindWrite
  <1>2. CASE ~w.fresh
    <2>1. w' = Idle /\ claim' = claim
      BY <1>2 DEF WriteClaim, Requeue
    <2> QED BY <2>1, BindIdle
  <1> QED BY <1>1, <1>2

(* The worker's writes of its claim.                                       *)
LEMMA ClaimWritesBind ==
  ASSUME ClaimInv, BindInv,
         \/ AddFinalizer \/ ensureServiceClaimIsInitialized
         \/ markPending \/ markResolved
  PROVE  BindInv'
  <1>1. /\ w.pc # "idle" /\ w \in Worker /\ w.obj \in ClaimObj /\ w.c \in Claims
        /\ w.obj.phase # "absent" /\ UNCHANGED <<binding, env>>
        /\ w.fresh => w.obj = claim[w.c]
    BY DEF ClaimInv, TypeOK, Worker, WorkersBusy, WorkerKnows, CopiesCurrent, AddFinalizer,
       ensureServiceClaimIsInitialized, markPending, markResolved
  <1>2. CASE AddFinalizer
    <2> DEFINE o == [w.obj EXCEPT !.fin = TRUE]
               next == [w EXCEPT !.pc = Dispatch(o), !.obj = o]
    <2>1. /\ o.fin /\ o.phase = w.obj.phase /\ o.state = w.obj.state /\ o.rs = w.obj.rs
      BY <1>1 DEF ClaimObj
    <2>2. next.c = w.c /\ next.obj = o /\ next.pc = Dispatch(o) BY <1>1 DEF Worker
    <2>3. WriteClaim(o, next, FALSE) BY <1>2 DEF AddFinalizer
    <2> HIDE DEF o, next
    <2>4. next.pc \notin {"markResolved", "release", "removeFinalizer"}
      BY <2>2 DEF Dispatch
    <2>5. w.fresh /\ o.phase = "live" /\ o.state = "Resolved" /\ ~EnvPushes
            => (w.c \in Hosted => binding[w.c] = o.rs) /\ o.rs \in Services
      BY <1>1, <2>1 DEF BindInv, Bound, ResolvedIsBound
    <2> QED BY <1>1, <2>1, <2>2, <2>3, <2>4, <2>5, WriteClaimBind
  <1>3. CASE ensureServiceClaimIsInitialized
    <2> DEFINE o == [w.obj EXCEPT !.id = TRUE, !.state = "Pending"]
               next == [w EXCEPT !.pc = Dispatch(o), !.obj = o]
    <2>0. w.obj.fin
      BY <1>3 DEF ensureServiceClaimIsInitialized, BindInv, FinalizerKept, Chosen
    <2>1. o.fin /\ o.phase = w.obj.phase /\ o.state = "Pending"
      BY <1>1, <2>0 DEF ClaimObj
    <2>2. next.c = w.c /\ next.obj = o /\ next.pc = Dispatch(o) BY <1>1 DEF Worker
    <2>3. WriteClaim(o, next, FALSE) BY <1>3 DEF ensureServiceClaimIsInitialized
    <2> HIDE DEF o, next
    <2>4. next.pc \notin {"markResolved", "release", "removeFinalizer"}
      BY <2>2 DEF Dispatch
    <2> QED BY <1>1, <2>1, <2>2, <2>3, <2>4, WriteClaimBind
  <1>4. CASE markPending
    <2> DEFINE o == [w.obj EXCEPT !.state = "Pending", !.rs = w.svc]
               next == [w EXCEPT !.pc = "claimService", !.obj = o]
    <2>0. w.obj.fin
      BY <1>4 DEF markPending, BindInv, FinalizerKept, Chosen
    <2>1. o.fin /\ o.phase = w.obj.phase /\ o.state = "Pending"
      BY <1>1, <2>0 DEF ClaimObj
    <2>2. next.c = w.c /\ next.obj = o /\ next.pc = "claimService" BY <1>1 DEF Worker
    <2>3. WriteClaim(o, next, TRUE) BY <1>4 DEF markPending
    <2> HIDE DEF o, next
    <2> QED BY <1>1, <2>1, <2>2, <2>3, WriteClaimBind
  <1>5. CASE markResolved
    <2> DEFINE o == [w.obj EXCEPT !.state = "Resolved", !.rs = w.svc]
    <2>0. /\ w.pc = "markResolved" /\ w.svc \in Services /\ claim[w.c].fin
      BY <1>5 DEF markResolved, BindInv, FinalizerKept, Claiming, ClaimInv, WorkersBusy
    <2>1. /\ w.fresh => o.fin
          /\ o.phase # "absent" /\ o.rs = w.svc
      BY <1>1, <2>0 DEF ClaimObj
    <2>2. ~EnvPushes /\ w.c \in Hosted => binding[w.c] = w.svc
      BY <2>0 DEF BindInv, Bound
    <2>3. WriteClaim(o, Idle, TRUE) BY <1>5 DEF markResolved
    <2> HIDE DEF o
    <2> QED BY <1>1, <2>0, <2>1, <2>2, <2>3, WriteClaimBind
  <1> QED BY <1>2, <1>3, <1>4, <1>5

(* The other writes that end a reconciliation: a Pending claim, and a      *)
(* claim that goes.                                                        *)
LEMMA LastWritesBind ==
  ASSUME ClaimInv, BindInv, reportNoMatch \/ removeFinalizer
  PROVE  BindInv'
  <1>1. /\ w.pc # "idle" /\ w.obj \in ClaimObj /\ w.c \in Claims
        /\ w.obj.phase # "absent" /\ UNCHANGED <<binding, env>> /\ w' = Idle
    BY DEF ClaimInv, TypeOK, Worker, WorkersBusy, WorkerKnows, reportNoMatch,
       removeFinalizer, Requeue, Done
  <1>2. CASE claim' = claim BY <1>1, <1>2, BindIdle
  <1>3. CASE reportNoMatch /\ claim' # claim
    <2> DEFINE o == [w.obj EXCEPT !.state = "Pending"]
    <2>0. w.obj.fin
      BY <1>3 DEF reportNoMatch, BindInv, FinalizerKept, Chosen
    <2>1. o.fin /\ o.phase # "absent" /\ o.state = "Pending" BY <1>1, <2>0 DEF ClaimObj
    <2>2. claim' = [claim EXCEPT ![w.c] = o] BY <1>3 DEF reportNoMatch
    <2> HIDE DEF o
    <2> QED BY <1>1, <2>1, <2>2, BindWrite
  <1>4. CASE removeFinalizer /\ claim' # claim
    <2>1. claim' = [claim EXCEPT ![w.c] = NoObj] /\ w.pc = "removeFinalizer"
      BY <1>4 DEF removeFinalizer, StoreClaim
    <2>2. ~EnvPushes => binding[w.c] = NoService BY <2>1 DEF BindInv, Unbound
    <2>3. NoObj.phase = "absent" /\ ~NoObj.fin BY DEF NoObj
    <2> QED BY <1>1, <2>1, <2>2, <2>3, BindWrite
  <1> QED BY <1>2, <1>3, <1>4

(* The worker's steps that write no claim: a service is pushed only while  *)
(* the claim is not Resolved, and unbound only while it is not live.       *)
LEMMA LocalBind ==
  ASSUME ClaimInv, BindInv,
         \/ processClaim \/ processResolvedServiceClaim
         \/ claimService \/ pushToClusterEnvironments \/ rollback
         \/ processClaimMarkedForDeletion \/ releaseService
  PROVE  BindInv'
  <1>1. /\ w.pc # "idle" /\ w \in Worker /\ w.c \in Claims /\ UNCHANGED <<claim, env>>
        /\ binding \in [Claims -> SvcOrNone]
    BY DEF ClaimInv, TypeOK, WorkersBusy, processClaim, processResolvedServiceClaim,
       claimService, pushToClusterEnvironments, rollback, processClaimMarkedForDeletion,
       releaseService
  <1>2. CASE w' = Idle /\ binding' = binding BY <1>1, <1>2, BindIdle
  <1>3. CASE \/ processClaim \/ processResolvedServiceClaim
    <2>1. binding' = binding /\ w.pc \in {"choose", "again"}
      BY <1>3 DEF processClaim, processResolvedServiceClaim
    <2>2. w.obj.fin BY <2>1 DEF BindInv, FinalizerKept, Chosen
    <2>3. w' # Idle => w'.pc \in {"markPending", "noMatch"} /\ w'.obj = w.obj
      BY <1>1, <1>3 DEF processClaim, processResolvedServiceClaim, CopyOf, Worker,
         Goto, Requeue
    <2>4. CASE w' # Idle
      BY <1>1, <2>1, <2>2, <2>3, <2>4 DEF BindInv, FinalizerKept, Bound, Unbound,
         ResolvedIsBound, Claiming
    <2> QED BY <1>2, <2>1, <2>4
  <1>4. CASE claimService
    <2>1. binding' = binding /\ w.pc = "claimService"
      BY <1>4 DEF claimService
    <2>2. claim[w.c].fin BY <2>1 DEF BindInv, FinalizerKept, Claiming
    <2>3. w' # Idle => w'.pc = "push" /\ w'.c = w.c
      BY <1>1, <1>4 DEF claimService, Worker, Requeue
    <2>4. CASE w' # Idle
      BY <1>1, <2>1, <2>2, <2>3, <2>4 DEF BindInv, FinalizerKept, Bound, Unbound,
         ResolvedIsBound, Chosen
    <2> QED BY <1>2, <2>1, <2>4
  <1>5. CASE pushToClusterEnvironments
    <2>1. w.pc = "push" /\ claim[w.c].state # "Resolved" /\ claim[w.c].fin
      BY <1>5 DEF pushToClusterEnvironments, BindInv, FinalizerKept, Claiming,
         ClaimInv, WorkerKnows
    <2>2. /\ w'.pc \in {"markResolved", "rollback"} /\ w'.c = w.c /\ w'.svc = w.svc
          /\ \/ binding' = [binding EXCEPT ![w.c] = w.svc]
             \/ binding' = binding /\ (w'.pc = "rollback" \/ w.c \notin Hosted)
      BY <1>1, <1>5 DEF pushToClusterEnvironments, Pushed, Worker
    <2>3. /\ \A d \in Claims \ {w.c} : binding'[d] = binding[d]
          /\ w'.pc = "markResolved" /\ w.c \in Hosted => binding'[w.c] = w.svc
      BY <1>1, <2>2
    <2>4. FinalizerKept'
      BY <1>1, <2>1, <2>2 DEF BindInv, FinalizerKept, Chosen
    <2>5. (~EnvPushes => Bound)'
      BY <1>1, <2>1, <2>2, <2>3 DEF BindInv, Bound, ResolvedIsBound
    <2>6. (~EnvPushes => Unbound)'
      BY <1>1, <2>1, <2>2, <2>3 DEF BindInv, Unbound
    <2> QED BY <2>4, <2>5, <2>6 DEF BindInv
  <1>6. CASE rollback
    BY <1>2, <1>6 DEF rollback, Done, Requeue
  <1>7. CASE processClaimMarkedForDeletion
    <2>1. /\ w.pc = "unbind"
          /\ claim[w.c].phase # "live" \/ claim[w.c].state # "Resolved"
      BY <1>7 DEF processClaimMarkedForDeletion, ClaimInv, WorkerKnows, Deleting
    <2>2. PICK err \in BOOLEAN :
            /\ binding' = [binding EXCEPT ![w.c] = NoService] \/ (err /\ binding' = binding)
            /\ \/ \E s \in ReleaseCandidates(w.c) :
                    w' = [CopyOf(s) EXCEPT !.pc = "release", !.err = err]
               \/ ~err /\ w' = [w EXCEPT !.pc = "removeFinalizer"]
               \/ w' = Idle
      BY <1>7 DEF processClaimMarkedForDeletion
    <2>3. /\ \A d \in Claims \ {w.c} : binding'[d] = binding[d]
          /\ ~err => binding'[w.c] = NoService
          /\ binding'[w.c] = NoService \/ binding'[w.c] = binding[w.c]
      BY <1>1, <2>2
    <2>4. /\ w'.pc \in {"idle", "release", "removeFinalizer"}
          /\ w'.pc = "removeFinalizer" \/ (w'.pc = "release" /\ ~w'.err)
               => w'.c = w.c /\ ~err
      <3>1. CASE w' = Idle BY <3>1 DEF Idle
      <3>2. CASE ~err /\ w' = [w EXCEPT !.pc = "removeFinalizer"]
        BY <1>1, <3>2 DEF Worker
      <3>3. ASSUME NEW s \in Services, w' = [CopyOf(s) EXCEPT !.pc = "release", !.err = err]
            PROVE  w'.pc = "release" /\ w'.c = w.c /\ w'.err = err
        BY <1>1, <3>3, CopyMeans DEF Worker
      <3> QED BY <2>2, <3>1, <3>2, <3>3 DEF ReleaseCandidates
    <2>5. FinalizerKept'
      BY <1>1, <2>4 DEF BindInv, FinalizerKept, Chosen, Claiming
    <2>6. (~EnvPushes => Bound)'
      BY <1>1, <2>1, <2>3, <2>4 DEF BindInv, Bound, ResolvedIsBound
    <2>7. (~EnvPushes => Unbound)'
      BY <1>1, <2>3, <2>4 DEF BindInv, Unbound
    <2> QED BY <2>5, <2>6, <2>7 DEF BindInv
  <1>8. CASE releaseService
    <2>1. binding' = binding /\ w.pc = "release"
      BY <1>8 DEF releaseService
    <2>2. w' # Idle => w'.pc = "removeFinalizer" /\ w'.c = w.c /\ ~w.err
      BY <1>1, <1>8 DEF releaseService, Worker, Requeue
    <2>3. CASE w' # Idle
      BY <1>1, <2>1, <2>2, <2>3 DEF BindInv, FinalizerKept, Bound, Unbound,
         ResolvedIsBound, Chosen, Claiming
    <2> QED BY <1>2, <2>1, <2>3
  <1> QED BY <1>3, <1>4, <1>5, <1>6, <1>7, <1>8

(* Every step keeps BindInv.                                               *)
LEMMA BindInvStep == ClaimInv /\ BindInv /\ [Next]_vars => BindInv'
  <1> SUFFICES ASSUME ClaimInv, BindInv, [Next]_vars PROVE BindInv'
    OBVIOUS
  <1>1. CASE UNCHANGED vars
    BY <1>1, BindFrame DEF vars
  <1>2. CASE \E c \in Claims : CreateClaim(c) \/ DeleteClaim(c) \/ EditClaim(c)
    BY <1>2, UserClaimBind
  <1>3. CASE \/ \E c \in Claims : SyncClaim(c)
             \/ \E s \in Services : \/ CreateService(s) \/ DeleteService(s) \/ EditService(s)
                                    \/ SyncService(s) \/ ReconcileService(s)
             \/ UpdateService \/ ListClaimsToPush
    BY <1>3, OthersBind
  <1>4. CASE Crash \/ \E c \in Claims : PushUnresolved(c) \/ PushClaim(c)
    BY <1>4, EnvironmentBind
  <1>5. CASE \E c \in Claims : Reconcile(c)
    BY <1>5, ReconcileBind
  <1>6. CASE ClaimWorker
    BY <1>6, ClaimWritesBind, LastWritesBind, LocalBind DEF ClaimWorker
  <1> QED BY <1>1, <1>2, <1>3, <1>4, <1>5, <1>6 DEF Next

(* What the claim controller leaves behind, beside ClaimInv.               *)
THEOREM BindInvHolds == Spec => []BindInv
  <1>1. ASSUME Init PROVE BindInv
    <2>1. w.pc = "idle" BY <1>1 DEF Init, Idle
    <2>2. \A c \in Claims : /\ claim[c].phase = "absent" /\ ~claim[c].fin
                            /\ env[c] = NoPush /\ binding[c] = NoService
      BY <1>1 DEF Init, NoObj
    <2> QED BY <2>1, <2>2 DEF BindInv, FinalizerKept, Bound, Unbound, ResolvedIsBound,
            Chosen, Claiming
  <1> QED BY <1>1, BindInvStep, ClaimInvHolds, PTL DEF Spec

(* While only the claim controller pushes, no claim that is gone has left  *)
(* a ServiceBinding behind, whatever fails, wherever a restart falls and   *)
(* whatever copies the controller works from: nothing is pushed before the *)
(* finalizer is stored, and the finalizer outlives every error of the      *)
(* unbinding.                                                              *)
THEOREM GoneIsUnbound ==
  ASSUME ~EnvPushes
  PROVE  Spec => []NoOrphanBinding
  <1>1. BindInv => NoOrphanBinding
    BY DEF BindInv, FinalizerKept, Unbound, NoOrphanBinding
  <1> QED BY <1>1, BindInvHolds, PTL

(* While only the claim controller pushes, a Resolved claim that has an    *)
(* application namespace is bound there to the service its status names,   *)
(* for any claims and services: pushToClusterEnvironments comes before     *)
(* updateServiceClaimStatus in every reconciliation, and a claim that is   *)
(* pushed anew has been made Pending before.  A claim that has no such     *)
(* namespace is marked Resolved without a binding, and is no part of this. *)
THEOREM ResolvedClaimBound ==
  ASSUME ~EnvPushes
  PROVE  Spec => []ResolvedIsBound
  <1>1. BindInv => ResolvedIsBound
    BY DEF BindInv, Bound
  <1> QED BY <1>1, BindInvHolds, PTL
=============================================================================
