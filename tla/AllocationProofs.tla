-------------------------- MODULE AllocationProofs --------------------------
(***************************************************************************)
(* The claim life cycle implements Allocation, for any sets of claims and  *)
(* services: under ClaimInv every step of Next is a step of the            *)
(* allocation, or leaves it as it is.                                      *)
(***************************************************************************)
EXTENDS ClaimAllocation, ClaimProofs

AllocStep == Alloc!Next \/ UNCHANGED Alloc!vars

HoldingSteps == {"push", "markResolved"}

(* A step that leaves the services alone and takes from one claim, if from *)
(* any, all that it uses.                                                  *)
LEMMA DropStep ==
  ASSUME NEW c \in Claims, UNCHANGED <<svc, stray>>,
         \A d \in Claims \ {c}, s \in Services : Holds(d, s)' <=> Holds(d, s),
         \/ \A s \in Services : Holds(c, s)' <=> Holds(c, s)
         \/ \A s \in Services : ~Holds(c, s)'
  PROVE  AllocStep
  <1>1. Claimed' = Claimed BY DEF Claimed
  <1>2. CASE \A s \in Services : Holds(c, s)' <=> Holds(c, s)
    <2>1. Users' = Users BY <1>2 DEF Users
    <2> QED BY <1>1, <2>1 DEF AllocStep, Alloc!vars
  <1>3. CASE \A s \in Services : ~Holds(c, s)'
    <2>1. \A s \in Services : {d \in Claims : Holds(d, s)'} = Users[s] \ {c}
      BY <1>3 DEF Users
    <2>2. Users' = [s \in Services |-> Users[s] \ {c}]
      BY <2>1 DEF Users
    <2> QED BY <1>1, <2>2 DEF AllocStep, Alloc!Next, Alloc!Drop
  <1> QED BY <1>2, <1>3

(* A step after which everybody uses what they used. *)
LEMMA NothingMoves ==
  ASSUME UNCHANGED <<svc, stray>>,
         \A d \in Claims, s \in Services : Holds(d, s)' <=> Holds(d, s)
  PROVE  AllocStep
  <1>1. Claimed' = Claimed /\ Users' = Users BY DEF Claimed, Users
  <1> QED BY <1>1 DEF AllocStep, Alloc!vars

(* A write of a service that does not claim it, with history kept. *)
LEMMA FreeStep ==
  ASSUME svc \in [Services -> SvcState], NEW s \in Services, NEW state,
         svc' = [svc EXCEPT ![s] = state],
         state = "Claimed" => svc[s] = "Claimed",
         stray' = IF svc[s] = "Claimed" /\ state # "Claimed"
                     /\ \E d \in Claims : Holds(d, s)
                  THEN stray \cup {s} ELSE stray,
         \A d \in Claims, r \in Services : Holds(d, r)' <=> Holds(d, r)
  PROVE  AllocStep
  <1>1. Users' = Users BY DEF Users
  <1>2. Users[s] = {} <=> ~\E d \in Claims : Holds(d, s) BY DEF Users
  <1>3. CASE svc[s] = "Claimed" /\ state # "Claimed"
    <2>1. Claimed' = Claimed \ {s} /\ s \in Claimed BY <1>3 DEF Claimed
    <2> QED BY <1>1, <1>2, <1>3, <2>1 DEF AllocStep, Alloc!Next, Alloc!Free
  <1>4. CASE ~(svc[s] = "Claimed" /\ state # "Claimed")
    <2>1. Claimed' = Claimed BY <1>4 DEF Claimed
    <2> QED BY <1>1, <1>4, <2>1 DEF AllocStep, Alloc!vars
  <1> QED BY <1>3, <1>4

(* A claim that the worker is claiming a service for uses none other. *)
LEMMA OneWayToHold ==
  ASSUME ClaimInv, w.pc \in HoldingSteps \cup {"claimService", "rollback"}
  PROVE  w.c \in Claims /\ claim[w.c].state # "Resolved"
  BY DEF ClaimInv, WorkerKnows, WorkersBusy, HoldingSteps, Claiming

(* A step of the worker that writes nothing in the control plane. *)
LEMMA WorkerLeaves ==
  ASSUME ClaimInv, UNCHANGED <<claim, svc, stray>>,
         w'.pc \in HoldingSteps => w.pc \in HoldingSteps /\ w'.c = w.c /\ w'.svc = w.svc
  PROVE  AllocStep
  <1>1. CASE w.pc \notin HoldingSteps
    BY <1>1, NothingMoves DEF Holds, HoldingSteps
  <1>2. CASE w.pc \in HoldingSteps
    <2>1. PICK c \in Claims : c = w.c /\ claim[c].state # "Resolved" BY <1>2, OneWayToHold
    <2>2. \A d \in Claims \ {c}, s \in Services : Holds(d, s)' <=> Holds(d, s)
      BY <1>2, <2>1 DEF Holds, HoldingSteps
    <2>3. CASE w'.pc \in HoldingSteps
      BY <1>2, <2>3, NothingMoves DEF Holds, HoldingSteps
    <2>4. CASE w'.pc \notin HoldingSteps
      <3>1. \A s \in Services : ~Holds(c, s)' BY <2>1, <2>4 DEF Holds, HoldingSteps
      <3> QED BY <2>1, <2>2, <3>1, DropStep
    <2> QED BY <2>3, <2>4
  <1> QED BY <1>1, <1>2

(* Users' writes of claims: a deletion takes from the claim what it uses,  *)
(* unless that is only what the worker is claiming for it.                 *)
LEMMA UserClaimAlloc ==
  ASSUME ClaimInv, NEW c \in Claims, CreateClaim(c) \/ DeleteClaim(c) \/ EditClaim(c)
  PROVE  AllocStep
  <1>1. /\ UNCHANGED <<svc, stray>> /\ claim \in [Claims -> ClaimObj]
        /\ claim[c] \in ClaimObj /\ claim[c].phase \in {"absent", "live"}
        /\ w'.pc = w.pc /\ w'.c = w.c /\ w'.svc = w.svc
    BY OutdateClaimWork DEF ClaimInv, TypeInv, TypeOK, CreateClaim, DeleteClaim, EditClaim
  <1>2. \E o : /\ claim' = [claim EXCEPT ![c] = o]
               /\ \/ claim[c].phase = "absent" /\ o.state = ""
                  \/ o.phase # "live"
                  \/ o = claim[c]
    <2>1. CASE CreateClaim(c)
      <3>1. [NoObj EXCEPT !.phase = "live"].state = "" BY DEF NoObj
      <3> QED BY <2>1, <3>1 DEF CreateClaim, StoreClaim
    <2>2. CASE DeleteClaim(c)
      <3>1. NoObj.phase # "live" /\ [claim[c] EXCEPT !.phase = "terminating"].phase # "live"
        BY <1>1 DEF NoObj, ClaimObj
      <3> QED BY <2>2, <3>1 DEF DeleteClaim, StoreClaim
    <2>3. CASE EditClaim(c) BY <2>3 DEF EditClaim, StoreClaim
    <2> QED BY <2>1, <2>2, <2>3
  <1>3. PICK o : /\ claim' = [claim EXCEPT ![c] = o]
                 /\ \/ claim[c].phase = "absent" /\ o.state = ""
                    \/ o.phase # "live"
                    \/ o = claim[c]
    BY <1>2
  <1>4. claim'[c] = o /\ \A d \in Claims \ {c} : claim'[d] = claim[d]
    BY <1>1, <1>3
  <1>5. \A d \in Claims \ {c}, s \in Services : Holds(d, s)' <=> Holds(d, s)
    BY <1>1, <1>4 DEF Holds
  <1>6. CASE (claim[c].phase = "absent" /\ o.state = "") \/ o = claim[c]
    <2>1. \A s \in Services : Holds(c, s)' <=> Holds(c, s)
      BY <1>1, <1>4, <1>6 DEF Holds
    <2> QED BY <1>1, <1>5, <2>1, DropStep
  <1>7. CASE o.phase # "live"
    <2>1. CASE w.pc \in HoldingSteps /\ w.c = c
      BY <1>1, <1>4, <1>5, <1>7, <2>1, OneWayToHold, DropStep DEF Holds, HoldingSteps
    <2>2. CASE ~(w.pc \in HoldingSteps /\ w.c = c)
      BY <1>1, <1>4, <1>5, <1>7, <2>2, DropStep DEF Holds, HoldingSteps
    <2> QED BY <2>1, <2>2
  <1> QED BY <1>3, <1>6, <1>7

(* Users' and the RegisteredService controller's writes of services.       *)
LEMMA ServiceAlloc ==
  ASSUME ClaimInv,
         \/ UpdateService
         \/ \E s \in Services : CreateService(s) \/ DeleteService(s) \/ EditService(s)
  PROVE  AllocStep
  <1>1. svc \in [Services -> SvcState] /\ UNCHANGED claim /\ TypeInv
    BY DEF ClaimInv, TypeInv, TypeOK, UpdateService, CreateService, DeleteService, EditService
  <1>2. Claims \ {NoClaim} = Claims BY ConstantsAssumption
  <1>3. ASSUME NEW s \in Services, NEW state, NEW edit, NEW b \in BOOLEAN,
               StoreService(s, state, NoClaim, edit), OutdateServiceCopy(s, b),
               state = "Claimed" => svc[s] = "Claimed"
        PROVE  AllocStep
    <2>1. w'.pc = w.pc /\ w'.c = w.c /\ w'.svc = w.svc
      BY <1>1, <1>3, OutdateServiceWork
    <2>2. \A d \in Claims, r \in Services : Holds(d, r)' <=> Holds(d, r)
      BY <1>1, <2>1 DEF Holds
    <2> QED BY <1>1, <1>2, <1>3, <2>2, FreeStep DEF StoreService
  <1>4. ASSUME NEW s \in Services, CreateService(s) \/ DeleteService(s) \/ EditService(s)
        PROVE  AllocStep
    BY <1>3, <1>4 DEF CreateService, DeleteService, EditService
  <1>5. CASE UpdateService
    <2>1. CASE UNCHANGED <<svc, version, stray, w>>
      BY <1>1, <2>1, NothingMoves DEF Holds
    <2>2. CASE /\ v.fresh /\ StoreService(v.s, v.state, NoClaim, FALSE)
               /\ OutdateServiceCopy(v.s, v.state # svc[v.s])
      <3>1. v.s \in Services /\ (v.state = "Claimed" => svc[v.s] = "Claimed")
        BY <2>2 DEF ClaimInv, CopiesCurrent
      <3> QED BY <1>3, <2>2, <3>1
    <2> QED BY <1>5, <2>1, <2>2 DEF UpdateService
  <1> QED BY <1>4, <1>5

(* Caches, restarts, and the pushes of the environment pass.               *)
LEMMA OtherAlloc ==
  ASSUME ClaimInv,
         \/ \E c \in Claims : SyncClaim(c) \/ PushUnresolved(c) \/ PushClaim(c)
         \/ \E s \in Services : SyncService(s) \/ ReconcileService(s)
         \/ Crash \/ ListClaimsToPush \/ UNCHANGED vars
  PROVE  AllocStep
  <1>1. UNCHANGED <<claim, svc, stray>> /\ w' \in {w, Idle}
    BY DEF SyncClaim, PushUnresolved, PushClaim, SyncService, ReconcileService, Crash,
       Restart, ListClaimsToPush, vars
  <1> QED BY <1>1, WorkerLeaves DEF Idle, HoldingSteps

(* The worker's steps that only read or write to other clusters.           *)
LEMMA LocalAlloc ==
  ASSUME ClaimInv,
         \/ \E c \in Claims : Reconcile(c)
         \/ processClaim \/ processResolvedServiceClaim
         \/ pushToClusterEnvironments \/ processClaimMarkedForDeletion
  PROVE  AllocStep
  <1>1. w \in Worker /\ w.obj \in ClaimObj /\ cCache \in [Claims -> ClaimObj]
    BY DEF ClaimInv, TypeOK, Worker
  <1>2. CASE pushToClusterEnvironments
    <2>1. /\ UNCHANGED <<claim, svc, stray>> /\ w.pc = "push"
          /\ w'.c = w.c /\ w'.svc = w.svc
      BY <1>1, <1>2 DEF pushToClusterEnvironments, Worker
    <2> QED BY <2>1, WorkerLeaves DEF HoldingSteps
  <1>3. ASSUME NEW c \in Claims, Reconcile(c) PROVE AllocStep
    <2>1. UNCHANGED <<claim, svc, stray>> /\ w.pc = "idle" BY <1>3 DEF Reconcile
    <2>2. CASE w' = w BY <2>1, <2>2, WorkerLeaves DEF HoldingSteps
    <2>3. CASE w' = [Idle EXCEPT !.pc = Dispatch(cCache[c]), !.c = c, !.obj = cCache[c],
                                 !.fresh = c \notin stale]
      <3>1. w'.pc = Dispatch(cCache[c]) BY <2>3 DEF Idle
      <3> QED BY <1>1, <2>1, <3>1, DispatchMeans, WorkerLeaves DEF HoldingSteps, Claiming
    <2> QED BY <1>3, <2>2, <2>3 DEF Reconcile
  <1>4. CASE processClaim \/ processResolvedServiceClaim \/ processClaimMarkedForDeletion
    <2>1. UNCHANGED <<claim, svc, stray>>
      BY <1>4 DEF processClaim, processResolvedServiceClaim, processClaimMarkedForDeletion
    <2>2. w'.pc \notin HoldingSteps
      <3> DEFINE f(s) == s \notin stale
      <3>1. \A s \in Services, b \in BOOLEAN :
              /\ [CopyOf(s) EXCEPT !.pc = "markPending"].pc = "markPending"
              /\ [CopyOf(s) EXCEPT !.pc = "markPending", !.resolved = TRUE].pc = "markPending"
              /\ [CopyOf(s) EXCEPT !.pc = "release", !.err = b].pc = "release"
        BY <1>1, CopyMeans DEF Worker
      <3>2. Idle.pc = "idle" BY DEF Idle
      <3>3. CASE processClaim
        BY <1>1, <3>1, <3>2, <3>3 DEF processClaim, Available, Goto, Requeue, HoldingSteps, Worker
      <3>4. CASE processResolvedServiceClaim
        <4>1. w.obj.rs # NoService => w.obj.rs \in Services BY <1>1 DEF ClaimObj, SvcOrNone
        <4> QED BY <1>1, <3>1, <3>2, <3>4, <4>1
              DEF processResolvedServiceClaim, Requeue, HoldingSteps
      <3>5. CASE processClaimMarkedForDeletion
        <4>1. [w EXCEPT !.pc = "removeFinalizer"].pc = "removeFinalizer"
          BY <1>1 DEF Worker
        <4>2. \/ \E b \in BOOLEAN, s \in Services :
                    w' = [CopyOf(s) EXCEPT !.pc = "release", !.err = b]
              \/ w' = [w EXCEPT !.pc = "removeFinalizer"]
              \/ w' = Idle
          BY <3>5 DEF processClaimMarkedForDeletion, ReleaseCandidates
        <4> QED BY <3>1, <3>2, <4>1, <4>2 DEF HoldingSteps
      <3> QED BY <1>4, <3>3, <3>4, <3>5
    <2> QED BY <2>1, <2>2, WorkerLeaves
  <1> QED BY <1>2, <1>3, <1>4

(* The worker's writes of its claim. *)
LEMMA ClaimWriteAlloc ==
  ASSUME ClaimInv,
         \/ AddFinalizer \/ ensureServiceClaimIsInitialized \/ markPending
         \/ reportNoMatch \/ markResolved \/ removeFinalizer
  PROVE  AllocStep
  <1>1. /\ w \in Worker /\ w.obj \in ClaimObj /\ w.c \in Claims /\ w.pc # "idle"
        /\ claim \in [Claims -> ClaimObj] /\ UNCHANGED <<svc, stray>>
        /\ w.fresh => w.obj = claim[w.c]
    BY DEF ClaimInv, TypeOK, Worker, WorkersBusy, CopiesCurrent, AddFinalizer, markPending,
       ensureServiceClaimIsInitialized, reportNoMatch, markResolved, removeFinalizer
  <1>2. CASE UNCHANGED claim /\ w' = Idle
    BY <1>1, <1>2, WorkerLeaves DEF Idle, HoldingSteps
  <1>3. ASSUME NEW o, w.fresh, claim' = [claim EXCEPT ![w.c] = o],
               w'.pc \notin HoldingSteps,
               \/ o.phase # "live" \/ o.state # "Resolved"
               \/ \A s \in Services : Holds(w.c, s) <=> o.rs = s
        PROVE  AllocStep
    <2>0. PICK c \in Claims : c = w.c BY <1>1
    <2>1. claim'[c] = o /\ \A d \in Claims \ {c} : claim'[d] = claim[d]
      BY <1>1, <1>3, <2>0
    <2>2. \A d \in Claims \ {c}, s \in Services : Holds(d, s)' <=> Holds(d, s)
      BY <1>1, <1>3, <2>0, <2>1 DEF Holds, HoldingSteps
    <2>3. CASE o.phase # "live" \/ o.state # "Resolved"
      <3>1. \A s \in Services : ~Holds(c, s)'
        BY <1>1, <1>3, <2>0, <2>1, <2>3 DEF Holds, HoldingSteps
      <3> QED BY <1>1, <2>2, <3>1, DropStep
    <2>4. CASE o.phase = "live" /\ o.state = "Resolved"
      <3>1. \A s \in Services : Holds(c, s)' <=> Holds(c, s)
        BY <1>1, <1>3, <2>0, <2>1, <2>4 DEF Holds, HoldingSteps
      <3> QED BY <1>1, <2>2, <3>1, DropStep
    <2> QED BY <2>3, <2>4
  <1>4. ASSUME NEW o \in ClaimObj, NEW next, NEW status \in BOOLEAN,
               WriteClaim(o, next, status), next.pc \notin HoldingSteps,
               w.fresh => \/ o.phase # "live" \/ o.state # "Resolved"
                          \/ \A s \in Services : Holds(w.c, s) <=> o.rs = s
        PROVE  AllocStep
    <2>1. Idle.pc \notin HoldingSteps BY DEF Idle, HoldingSteps
    <2> QED BY <1>2, <1>3, <1>4, <2>1 DEF WriteClaim, StoreClaim, Requeue
  <1>5. CASE AddFinalizer
    <2> DEFINE o == [w.obj EXCEPT !.fin = TRUE]
               next == [w EXCEPT !.pc = Dispatch(o), !.obj = o]
    <2>1. o \in ClaimObj /\ o.phase = w.obj.phase /\ o.state = w.obj.state /\ o.rs = w.obj.rs
      BY <1>1 DEF ClaimObj
    <2>2. next.pc \notin HoldingSteps
      BY <1>1, <2>1, DispatchMeans DEF Worker, HoldingSteps, Claiming
    <2>3. w.fresh => \/ o.phase # "live" \/ o.state # "Resolved"
                     \/ \A s \in Services : Holds(w.c, s) <=> o.rs = s
      BY <1>1, <1>5, <2>1 DEF Holds, AddFinalizer
    <2> QED BY <1>4, <1>5, <2>1, <2>2, <2>3 DEF AddFinalizer
  <1>6. CASE ensureServiceClaimIsInitialized
    <2> DEFINE o == [w.obj EXCEPT !.id = TRUE, !.state = "Pending"]
               next == [w EXCEPT !.pc = Dispatch(o), !.obj = o]
    <2>1. o \in ClaimObj /\ o.state # "Resolved" BY <1>1 DEF ClaimObj
    <2>2. next.pc \notin HoldingSteps
      BY <1>1, <2>1, DispatchMeans DEF Worker, HoldingSteps, Claiming
    <2> QED BY <1>4, <1>6, <2>1, <2>2 DEF ensureServiceClaimIsInitialized
  <1>7. CASE markPending
    <2> DEFINE o == [w.obj EXCEPT !.state = "Pending", !.rs = w.svc]
               next == [w EXCEPT !.pc = "claimService", !.obj = o]
    <2>1. o \in ClaimObj /\ o.state # "Resolved" BY <1>1 DEF ClaimObj, Worker
    <2>2. next.pc \notin HoldingSteps BY <1>1 DEF Worker, HoldingSteps
    <2> QED BY <1>4, <1>7, <2>1, <2>2 DEF markPending
  <1>8. CASE markResolved
    <2> DEFINE o == [w.obj EXCEPT !.state = "Resolved", !.rs = w.svc]
    <2>1. o \in ClaimObj /\ o.rs = w.svc BY <1>1 DEF ClaimObj, Worker
    <2>2. Idle.pc \notin HoldingSteps BY DEF Idle, HoldingSteps
    <2>3. \A s \in Services : Holds(w.c, s) <=> o.rs = s
      BY <1>8, <2>1, OneWayToHold DEF Holds, markResolved, HoldingSteps
    <2> QED BY <1>4, <1>8, <2>1, <2>2, <2>3 DEF markResolved
  <1>9. CASE reportNoMatch
    <2> DEFINE o == [w.obj EXCEPT !.state = "Pending"]
    <2>1. o.state # "Resolved" BY <1>1 DEF ClaimObj
    <2>2. w' = Idle /\ w'.pc \notin HoldingSteps
      BY <1>9 DEF reportNoMatch, Requeue, Idle, HoldingSteps
    <2> QED BY <1>2, <1>3, <1>9, <2>1, <2>2 DEF reportNoMatch
  <1>10. CASE removeFinalizer
    <2>1. NoObj.phase # "live" BY DEF NoObj
    <2>2. w' = Idle /\ w'.pc \notin HoldingSteps
      <3>1. w' = Idle BY <1>10 DEF removeFinalizer, Requeue, Done
      <3> QED BY <3>1 DEF Idle, HoldingSteps
    <2> QED BY <1>2, <1>3, <1>10, <2>1, <2>2 DEF removeFinalizer, StoreClaim
  <1> QED BY <1>5, <1>6, <1>7, <1>8, <1>9, <1>10

(* Marking a service Claimed gives it to the worker's claim.               *)
LEMMA GrantAlloc ==
  ASSUME ClaimInv, claimService
  PROVE  AllocStep
  <1>1. /\ w \in Worker /\ w.svc \in Services /\ w.pc = "claimService" /\ UNCHANGED claim
        /\ w.c \in Claims /\ claim[w.c].state # "Resolved"
    BY OneWayToHold DEF ClaimInv, TypeOK, WorkersBusy, claimService, Claiming
  <1>2. CASE Requeue /\ UNCHANGED <<svc, version, stray, v>>
    BY <1>1, <1>2, WorkerLeaves DEF Requeue, Idle, HoldingSteps
  <1>3. CASE /\ changeServiceState("Claimed", w.c)
             /\ w' = [w EXCEPT !.pc = "push", !.sfresh = (svc[w.svc] = "Claimed")]
    <2>1. w'.c = w.c /\ w'.svc = w.svc /\ w'.pc = "push" BY <1>1, <1>3 DEF Worker
    <2>2. /\ w.sfresh /\ svc'[w.svc] = "Claimed" /\ stray' = stray
          /\ \A r \in Services \ {w.svc} : svc'[r] = svc[r]
      BY <1>1, <1>3, ChangeStateMeans DEF SvcState
    <2>3. \A r \in Services : ~Holds(w.c, r) BY <1>1 DEF Holds
    <2>4. w.svc \in stray \/ \A d \in Claims : ~Holds(d, w.svc)
      <3>1. CASE w.resolved
        BY <1>1, <2>3, <3>1 DEF ClaimInv, WorkerKnows
      <3>2. CASE ~w.resolved
        <4>1. svc[w.svc] = "Available"
          BY <1>1, <2>2, <3>2 DEF ClaimInv, WorkerKnows
        <4> QED BY <1>1, <4>1 DEF ClaimInv, HeldIsClaimed
      <3> QED BY <3>1, <3>2
    <2>5. \A d \in Claims, s \in Services :
            Holds(d, s)' <=> Holds(d, s) \/ (d = w.c /\ s = w.svc)
      BY <1>1, <2>1 DEF Holds
    <2>6. Claimed' = Claimed \cup {w.svc} BY <1>1, <2>2 DEF Claimed
    <2>7. \A s \in Services : {d \in Claims : Holds(d, s)'}
                                = IF s = w.svc THEN Users[s] \cup {w.c} ELSE Users[s]
      BY <1>1, <2>5 DEF Users
    <2>8. Users' = [Users EXCEPT ![w.svc] = @ \cup {w.c}]
      BY <1>1, <2>7 DEF Users
    <2>9. \A r \in Services : w.c \notin Users[r] BY <2>3 DEF Users
    <2>10. w.svc \in stray \/ Users[w.svc] = {} BY <1>1, <2>4 DEF Users
    <2>11. Alloc!Grant(w.c, w.svc)
      BY <2>2, <2>6, <2>8, <2>9, <2>10 DEF Alloc!Grant
    <2> QED BY <1>1, <2>11 DEF AllocStep, Alloc!Next
  <1> QED BY <1>2, <1>3 DEF claimService

(* Giving a service back frees it, whoever else may use it.                *)
LEMMA GiveBackAlloc ==
  ASSUME ClaimInv, rollback \/ releaseService
  PROVE  AllocStep
  <1>1. /\ w \in Worker /\ w.c \in Claims /\ w.svc \in Services
        /\ svc \in [Services -> SvcState]
        /\ w.pc \in {"rollback", "release"} /\ UNCHANGED claim
        /\ claim[w.c].phase # "live" \/ claim[w.c].state # "Resolved"
    BY DEF ClaimInv, TypeOK, WorkersBusy, WorkerKnows, rollback, releaseService,
       Claiming, Deleting
  <1>2. w'.pc \notin HoldingSteps
    <2>1. \/ w' = Idle
          \/ w' = [w EXCEPT !.pc = "removeFinalizer", !.sfresh = FALSE]
      BY DEF rollback, releaseService, Requeue, Done
    <2>2. [w EXCEPT !.pc = "removeFinalizer", !.sfresh = FALSE].pc = "removeFinalizer"
      BY <1>1 DEF Worker
    <2>3. Idle.pc = "idle" BY DEF Idle
    <2> QED BY <2>1, <2>2, <2>3 DEF HoldingSteps
  <1>3. CASE UNCHANGED <<svc, version, stray, v>>
    BY <1>1, <1>2, <1>3, WorkerLeaves
  <1>4. CASE changeServiceState("Available", w.c)
    <2>1. ~Holds(w.c, w.svc) BY <1>1 DEF Holds
    <2>2. \A d \in Claims, r \in Services : Holds(d, r)' <=> Holds(d, r)
      BY <1>1, <1>2 DEF Holds, HoldingSteps
    <2>3. (\E d \in Claims \ {w.c} : Holds(d, w.svc)) <=> (\E d \in Claims : Holds(d, w.svc))
      BY <1>1, <2>1
    <2> QED BY <1>1, <1>4, <2>2, <2>3, FreeStep DEF changeServiceState, StoreService
  <1> QED BY <1>3, <1>4 DEF rollback, releaseService

(* Every step is one of the allocation. *)
LEMMA StepAllocates == ClaimInv /\ [Next]_vars => AllocStep
  <1> SUFFICES ASSUME ClaimInv, [Next]_vars PROVE AllocStep
    OBVIOUS
  <1>1. CASE UNCHANGED vars BY <1>1, OtherAlloc
  <1>2. CASE \E c \in Claims : CreateClaim(c) \/ DeleteClaim(c) \/ EditClaim(c)
    BY <1>2, UserClaimAlloc
  <1>3. CASE \/ UpdateService
             \/ \E s \in Services : CreateService(s) \/ DeleteService(s) \/ EditService(s)
    BY <1>3, ServiceAlloc
  <1>4. CASE \/ \E c \in Claims : SyncClaim(c) \/ PushUnresolved(c) \/ PushClaim(c)
             \/ \E s \in Services : SyncService(s) \/ ReconcileService(s)
             \/ Crash \/ ListClaimsToPush
    BY <1>4, OtherAlloc
  <1>5. CASE ClaimWorker
    BY <1>5, LocalAlloc, ClaimWriteAlloc, GrantAlloc, GiveBackAlloc DEF ClaimWorker
  <1>6. CASE \E c \in Claims : Reconcile(c) BY <1>6, LocalAlloc
  <1> QED BY <1>1, <1>2, <1>3, <1>4, <1>5, <1>6 DEF Next

(* For any claims and services, the controllers implement the allocation:  *)
(* the specification that says who may be given a service, and when.       *)
THEOREM ClaimsAllocate == Spec => ImplementsAllocation
  <1>1. Init => Alloc!Init
    <2> SUFFICES ASSUME Init PROVE Alloc!Init
      OBVIOUS
    <2>1. \A c \in Claims, s \in Services : ~Holds(c, s)
      BY DEF Init, Holds, NoObj, Idle
    <2>2. Users = [s \in Services |-> {}] BY <2>1 DEF Users
    <2>3. Claimed = {} BY DEF Init, Claimed
    <2> QED BY <2>2, <2>3 DEF Init, Alloc!Init
  <1>2. ClaimInv /\ [Next]_vars => [Alloc!Next]_(Alloc!vars)
    BY StepAllocates DEF AllocStep
  <1> QED BY <1>1, <1>2, ClaimInvHolds, PTL DEF Spec, ImplementsAllocation, Alloc!Spec

(* What the allocation promises. *)
AllotInv == Alloc!TypeOK /\ Alloc!Allotted

(* A grant keeps the users of a service apart. *)
LEMMA GrantAllots ==
  ASSUME AllotInv, NEW c \in Claims, NEW s \in Services, Alloc!Grant(c, s)
  PROVE  AllotInv'
  <1>1. /\ Users'[s] = Users[s] \cup {c}
        /\ \A r \in Services \ {s} : Users'[r] = Users[r]
        /\ UNCHANGED stray /\ Claimed' = Claimed \cup {s}
    BY DEF AllotInv, Alloc!TypeOK, Alloc!Grant
  <1>2. Alloc!TypeOK' BY DEF AllotInv, Alloc!TypeOK, Alloc!Grant
  <1>3. s \in stray \/ Users[s] = {} BY DEF Alloc!Grant
  <1>4. \A r \in Services : c \notin Users[r] BY DEF Alloc!Grant
  <1>5. (\A r \in Services \ stray : \A d, e \in Users[r] : d = e)'
    BY <1>1, <1>3 DEF AllotInv, Alloc!Allotted
  <1>6. (\A r \in Services \ stray : Users[r] # {} => r \in Claimed)'
    BY <1>1 DEF AllotInv, Alloc!Allotted
  <1>7. (\A r, t \in Services : r # t => Users[r] \cap Users[t] = {})'
    BY <1>1, <1>4 DEF AllotInv, Alloc!Allotted
  <1> QED BY <1>2, <1>5, <1>6, <1>7 DEF AllotInv, Alloc!Allotted

(* Claims share a service, or use one that is not marked as taken, only    *)
(* after it was freed while in use, and no claim ever uses two services.   *)
(* With ClaimsAllocate this is a statement about the controllers.          *)
THEOREM AllocationAllots == Alloc!Spec => [](Alloc!TypeOK /\ Alloc!Allotted)
  <1>1. Alloc!Init => AllotInv BY DEF Alloc!Init, AllotInv, Alloc!TypeOK, Alloc!Allotted
  <1>2. AllotInv /\ [Alloc!Next]_(Alloc!vars) => AllotInv'
    <2> SUFFICES ASSUME AllotInv, [Alloc!Next]_(Alloc!vars) PROVE AllotInv'
      OBVIOUS
    <2>1. ASSUME NEW c \in Claims, Alloc!Drop(c) PROVE AllotInv'
      <3>1. \A s \in Services : Users'[s] = Users[s] \ {c} BY <2>1 DEF Alloc!Drop
      <3> QED BY <2>1, <3>1 DEF Alloc!Drop, AllotInv, Alloc!TypeOK, Alloc!Allotted
    <2>2. ASSUME NEW s \in Claimed, Alloc!Free(s) PROVE AllotInv'
      BY <2>2 DEF Alloc!Free, AllotInv, Alloc!TypeOK, Alloc!Allotted
    <2>3. CASE UNCHANGED Alloc!vars BY <2>3 DEF Alloc!vars, AllotInv, Alloc!TypeOK, Alloc!Allotted
    <2> QED BY <2>1, <2>2, <2>3, GrantAllots DEF Alloc!Next
  <1>3. AllotInv <=> Alloc!TypeOK /\ Alloc!Allotted BY DEF AllotInv
  <1> QED BY <1>1, <1>2, <1>3, PTL DEF Alloc!Spec

(* So claims share a service only if it was freed while in use, a service  *)
(* in use is Claimed with the same proviso, and no claim ever uses two     *)
(* services.                                                               *)
THEOREM ClaimsAllotted == Spec => []Alloc!Allotted
  BY AllocationAllots, ClaimsAllocate, PTL DEF ImplementsAllocation
=============================================================================
