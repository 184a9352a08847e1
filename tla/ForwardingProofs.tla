-------------------------- MODULE ForwardingProofs --------------------------
(* Forwarding: TypeOK, for any ClusterEnvironments, items and flows, and   *)
(* GoneIsReleased; and DeletedWithItem where items have their own names.   *)
EXTENDS Forwarding, TLAPS

(* TypeOK in two parts: what items, copies and the agent are ...           *)
AgentType ==
  /\ flow \in Flows
  /\ item \in [Items -> Phase] /\ made \in [Items -> 0 .. MaxMade]
  /\ invalid \subseteq Items
  /\ copy \in [Names -> Copy \cup {NoCopy}]
  /\ secret \in [Names -> {"none", "old", "current"}]
  /\ dep \in Deployment /\ catalog \in {"absent", "pushed", "owned"}
  /\ up \in BOOLEAN /\ calm \in BOOLEAN
  /\ cache \in [item : [Items -> Phase], dep : Deployment,
                catalog : {"absent", "pushed", "owned"}, current : SUBSET Items]
  /\ stale \cup queue \subseteq Items \cup {Agent, Catalog}
  /\ a \in ClaimSteps /\ d \in {Idle, [pc |-> "unfinalize"]}

(* ... and what informers are, one of which runs while it is waited for.   *)
InformerType ==
  /\ todo \subseteq Clusters
  /\ r \in {Idle} \cup [pc : {"wait"}, k : Clusters]
  /\ DOMAIN inf = Clusters /\ h \in [Clusters -> Event \cup {NoEvent}]
  /\ \A k \in Clusters : inf[k] \in Informer(k) \cup {NoInformer}
  /\ \A k \in Clusters : h[k] # NoEvent => inf[k] # NoInformer /\ inf[k].synced
  /\ r.pc = "wait" => inf[r.k] # NoInformer

FwdType == AgentType /\ InformerType

(* A claim with the agent's finalizer, and a Deployment that is to go.     *)
Finalized == {"live", "terminating"}
Ending == {"terminating", "gone"}

(* Nothing is pulled where the agent pushes. *)
PullOff ==
  strategy = "push" => /\ todo = {} /\ r = Idle
                       /\ \A k \in Clusters : inf[k] = NoInformer /\ h[k] = NoEvent

(* How far the agent may rely on its cache.  A claim that it shows live,   *)
(* with the Deployment, has still got the finalizer: only the agent takes  *)
(* it away, and it does so only from what is current.  A claim that it     *)
(* shows as terminating, and that has been created again since, has not    *)
(* got it yet.                                                             *)
CacheKnows ==
  /\ cache.dep \in Ending => dep \in Ending
  /\ up => \A i \in Items :
       /\ cache.item[i] = "live" /\ cache.dep \notin Ending => item[i] \in Finalized
       /\ cache.item[i] = "terminating" => item[i] # "live"
       /\ i \notin stale => cache.item[i] = item[i]

(* What the worker may rely on between its steps: the claim whose copy it  *)
(* is going to write has the finalizer, and the one whose copy it is going *)
(* to delete is to go, or is not the one it has read.                      *)
WorkerKnows ==
  /\ ~up => a = Idle
  /\ a.pc = "write" => item[a.i] \in Finalized
  /\ a.pc = "finalizer" /\ a.fresh => item[a.i] = "new" /\ cache.item[a.i] = "new"
  /\ a.pc \in {"delete", "unfinalize"} =>
       /\ item[a.i] # "live" \/ dep \in Ending
       /\ a.fresh => /\ cache.item[a.i] = item[a.i]
                     /\ cache.item[a.i] = "terminating" \/ cache.dep \in Ending

Copied(n) == copy[n] # NoCopy /\ copy[n].phase = "live"

(* Copies have the names of their items; and one that is not being deleted *)
(* is the copy of a claim which has the finalizer.                         *)
CopiesHeld ==
  /\ \A n \in Names : copy[n] # NoCopy => NameOf[copy[n].item] = n
  /\ strategy = "push" =>
       /\ \A n \in Names : Copied(n) => item[copy[n].item] \in Finalized
       /\ a.pc = "unfinalize" => ~Copied(NameOf[a.i])

FwdInv == FwdType /\ PullOff /\ CacheKnows /\ WorkerKnows /\ CopiesHeld

USE ForwardingAssumption
-----------------------------------------------------------------------------
(* Steps of the agent leave the informers alone, and the reverse. *)
LEMMA InformerTypeFrame ==
  ASSUME InformerType, UNCHANGED control
  PROVE  InformerType'
  BY DEF InformerType, control

LEMMA AgentTypeFrame ==
  ASSUME AgentType, UNCHANGED <<flow, item, made, invalid, stale, a, agent, calm>>,
         copy' \in [Names -> Copy \cup {NoCopy}],
         secret' \in [Names -> {"none", "old", "current"}]
  PROVE  AgentType'
  BY DEF AgentType, agent

(* A worker that is busy is busy with an item. *)
LEMMA Busy ==
  ASSUME AgentType
  PROVE  /\ a.pc # "idle" => /\ a.i \in Items /\ a.fresh \in BOOLEAN /\ a.current \in BOOLEAN
                             /\ NameOf[a.i] \in Names
                             /\ a.pc \in {"finalizer", "write", "delete", "unfinalize"}
         /\ a.pc = "idle" => a = Idle
         /\ Idle.pc = "idle" /\ Idle \in ClaimSteps
  BY DEF AgentType, ClaimSteps, Idle

(* Its next step, and what it knows of the item once that is written.      *)
LEMMA NextStep ==
  ASSUME NEW s \in ClaimSteps, s.pc # "idle",
         NEW pc \in {"finalizer", "write", "delete", "unfinalize"}
  PROVE  /\ [s EXCEPT !.pc = pc] \in ClaimSteps
         /\ [s EXCEPT !.pc = pc].pc = pc
         /\ [s EXCEPT !.pc = pc].i = s.i
         /\ [s EXCEPT !.pc = pc].fresh = s.fresh
  BY DEF ClaimSteps, Idle

LEMMA Outdated ==
  ASSUME NEW s \in ClaimSteps, s.pc # "idle", NEW t,
         \/ t = [s EXCEPT !.fresh = FALSE]
         \/ t = [s EXCEPT !.fresh = FALSE, !.current = FALSE]
  PROVE  t \in ClaimSteps /\ t.pc = s.pc /\ t.i = s.i /\ ~t.fresh
  <1>1. s \in [pc : {"finalizer", "write", "delete", "unfinalize"}, i : Items,
               fresh : BOOLEAN, current : BOOLEAN]
    BY DEF ClaimSteps, Idle
  <1>2. CASE t = [s EXCEPT !.fresh = FALSE]
    BY <1>1, <1>2 DEF ClaimSteps
  <1>3. CASE t = [s EXCEPT !.fresh = FALSE, !.current = FALSE]
    BY <1>1, <1>3 DEF ClaimSteps
  <1> QED BY <1>2, <1>3

(* Copies and events of an edited item. *)
LEMMA EditedCopy ==
  ASSUME NEW c \in Copy
  PROVE  /\ [c EXCEPT !.current = FALSE] \in Copy
         /\ [c EXCEPT !.current = FALSE].item = c.item
         /\ [c EXCEPT !.current = FALSE].phase = c.phase
  BY DEF Copy

LEMMA EditedEvent ==
  ASSUME NEW e \in Event PROVE [e EXCEPT !.current = FALSE] \in Event
  BY DEF Event

(* What someone else writes of an item outdates what the worker has read.  *)
LEMMA StoreItemType ==
  ASSUME AgentType, NEW i \in Items, NEW phase \in Phase, StoreItem(i, phase)
  PROVE  /\ item' \in [Items -> Phase]
         /\ stale' \subseteq Items \cup {Agent, Catalog}
         /\ a' \in ClaimSteps
         /\ item' = [item EXCEPT ![i] = phase]
         /\ a'.pc = a.pc
         /\ a.pc = "idle" => a' = a
         /\ a.pc # "idle" => /\ a'.i = a.i
                             /\ a'.fresh => a.fresh /\ a.i # i
         /\ stale \subseteq stale' /\ up => i \in stale'
  <1>1. item' \in [Items -> Phase] /\ item' = [item EXCEPT ![i] = phase]
    BY DEF StoreItem, AgentType
  <1>2. stale' \subseteq Items \cup {Agent, Catalog}
    BY DEF StoreItem, AgentType
  <1>3. stale \subseteq stale' /\ up => i \in stale'
    BY DEF StoreItem
  <1>4. CASE a.pc # "idle" /\ a.i = i
    <2>1. a' = [a EXCEPT !.fresh = FALSE] BY <1>4 DEF StoreItem
    <2>2. a' \in ClaimSteps /\ a'.pc = a.pc /\ a'.i = a.i /\ ~a'.fresh
      BY <1>4, <2>1, Outdated DEF AgentType
    <2> QED BY <1>1, <1>2, <1>3, <1>4, <2>2
  <1>5. CASE ~(a.pc # "idle" /\ a.i = i)
    BY <1>1, <1>2, <1>3, <1>5 DEF StoreItem, AgentType
  <1> QED BY <1>4, <1>5

LEMMA UsersType ==
  ASSUME FwdType, NEW i \in Items, Users(i)
  PROVE  FwdType'
  <1> USE DEF FwdType
  <1>1. CASE CreateItem(i)
    <2>1. /\ item' \in [Items -> Phase]
          /\ stale' \subseteq Items \cup {Agent, Catalog} /\ a' \in ClaimSteps
      BY <1>1, StoreItemType DEF CreateItem, Phase
    <2>2. made' \in [Items -> 0 .. MaxMade] BY <1>1 DEF CreateItem, AgentType
    <2>3. InformerType' BY <1>1, InformerTypeFrame DEF CreateItem, Users, control
    <2> QED BY <1>1, <2>1, <2>2, <2>3 DEF CreateItem, Users, AgentType
  <1>2. CASE EditItem(i)
    <2>1. stale' \subseteq Items \cup {Agent, Catalog} BY <1>2 DEF EditItem, AgentType
    <2>2. a' \in ClaimSteps BY <1>2, Outdated DEF EditItem, AgentType
    <2>3. cache' \in [item : [Items -> Phase], dep : Deployment,
                      catalog : {"absent", "pushed", "owned"}, current : SUBSET Items]
      BY <1>2 DEF EditItem, AgentType
    <2>4. copy' \in [Names -> Copy \cup {NoCopy}] BY <1>2, EditedCopy DEF EditItem, AgentType
    <2>5. secret' \in [Names -> {"none", "old", "current"}] BY <1>2 DEF EditItem, AgentType
    <2>6. AgentType' BY <1>2, <2>1, <2>2, <2>3, <2>4, <2>5 DEF EditItem, Users, AgentType
    <2> DEFINE k == ClusterOf[i]
    <2>7. k \in Clusters /\ i \in ItemsOf(k) BY DEF ItemsOf
    <2>8. /\ DOMAIN inf' = Clusters
          /\ \A x \in Clusters : inf'[x] \in Informer(x) \cup {NoInformer}
          /\ \A x \in Clusters : inf[x] # NoInformer
               => inf'[x] # NoInformer /\ inf'[x].synced = inf[x].synced
      <3>1. CASE inf[k] = NoInformer BY <1>2, <3>1 DEF EditItem, InformerType
      <3>2. CASE inf[k] # NoInformer
        <4>1. inf' = [inf EXCEPT ![k].seen[i].current = FALSE] BY <1>2, <3>2 DEF EditItem
        <4>2. inf[k] \in Informer(k) BY <2>7, <3>2 DEF InformerType
        <4>3. inf'[k] = [inf[k] EXCEPT !.seen[i].current = FALSE]
          BY <2>7, <4>1 DEF InformerType
        <4> HIDE DEF k
        <4>4. inf'[k] \in Informer(k) /\ inf'[k].synced = inf[k].synced
          <5>1. inf[k].seen \in [ItemsOf(k) -> Seen] /\ inf[k].synced \in BOOLEAN
            BY <4>2 DEF Informer
          <5>2. [inf[k].seen EXCEPT ![i].current = FALSE] \in [ItemsOf(k) -> Seen]
            BY <2>7, <5>1 DEF Seen
          <5>3. inf'[k] = [inf[k] EXCEPT !.seen = [inf[k].seen EXCEPT ![i].current = FALSE]]
            BY <4>3
          <5> QED BY <4>2, <5>2, <5>3 DEF Informer
        <4>5. \A x \in Clusters \ {k} : inf'[x] = inf[x] BY <2>7, <4>1 DEF InformerType
        <4>6. DOMAIN inf' = Clusters BY <4>1 DEF InformerType
        <4>7. inf'[k] # NoInformer BY <2>7, <4>4, NoneAssumption
        <4> QED BY <2>7, <4>4, <4>5, <4>6, <4>7 DEF InformerType
      <3> QED BY <3>1, <3>2
    <2>9. /\ h' \in [Clusters -> Event \cup {NoEvent}]
          /\ \A x \in Clusters : h'[x] # NoEvent => h[x] # NoEvent
      <3>1. CASE h[k] # NoEvent /\ h[k].item = i
        <4>1. h' = [h EXCEPT ![k] = [h[k] EXCEPT !.current = FALSE]]
          BY <1>2, <3>1 DEF EditItem
        <4>2. [h[k] EXCEPT !.current = FALSE] \in Event
          BY <2>7, <3>1, EditedEvent DEF InformerType
        <4> QED BY <2>7, <3>1, <4>1, <4>2 DEF InformerType
      <3>2. CASE ~(h[k] # NoEvent /\ h[k].item = i)
        BY <1>2, <3>2 DEF EditItem, InformerType
      <3> QED BY <3>1, <3>2
    <2>10. UNCHANGED <<todo, r>> BY DEF Users
    <2>11. r.pc = "wait" => r.k \in Clusters BY DEF InformerType, Idle
    <2>12. InformerType' BY <2>8, <2>9, <2>10, <2>11 DEF InformerType
    <2> QED BY <2>6, <2>12
  <1>3. CASE DeleteItem(i)
    <2>1. /\ item' \in [Items -> Phase]
          /\ stale' \subseteq Items \cup {Agent, Catalog} /\ a' \in ClaimSteps
      BY <1>3, StoreItemType DEF DeleteItem, Phase
    <2>2. invalid' \subseteq Items BY <1>3 DEF DeleteItem, AgentType
    <2>3. InformerType' BY <1>3, InformerTypeFrame DEF DeleteItem, Users, control
    <2> QED BY <1>3, <2>1, <2>2, <2>3 DEF DeleteItem, Users, AgentType
  <1> QED BY <1>1, <1>2, <1>3 DEF Users

LEMMA AroundType ==
  ASSUME FwdType,
         \/ DeleteAgent \/ PushCatalog \/ Calm \/ DeletePod \/ CrashAgent \/ Collect
         \/ \E n \in Names : ControlPlane(n)
         \/ \E n \in Items \cup {Agent, Catalog} : Sync(n)
  PROVE  FwdType'
  <1> USE DEF FwdType
  <1>1. CASE DeleteAgent
    BY <1>1, InformerTypeFrame DEF DeleteAgent, AgentType, Deployment
  <1>2. CASE PushCatalog
    BY <1>2, InformerTypeFrame DEF PushCatalog, AgentType
  <1>3. CASE Calm
    BY <1>3, InformerTypeFrame DEF Calm, agent, AgentType
  <1>4. CASE DeletePod
    BY <1>4, InformerTypeFrame, Busy DEF DeletePod, Stop, AgentType
  <1>5. CASE CrashAgent
    BY <1>5, InformerTypeFrame, Busy DEF CrashAgent, AgentType
  <1>6. CASE Collect
    BY <1>6, InformerTypeFrame DEF Collect, AgentType
  <1>7. ASSUME NEW n \in Names, ControlPlane(n) PROVE FwdType'
    <2>1. copy' \in [Names -> Copy \cup {NoCopy}] BY <1>7 DEF ControlPlane, AgentType
    <2> QED BY <1>7, <2>1, InformerTypeFrame, AgentTypeFrame DEF ControlPlane, AgentType
  <1>8. ASSUME NEW n \in Items \cup {Agent, Catalog}, Sync(n) PROVE FwdType'
    <2>1. cache' \in [item : [Items -> Phase], dep : Deployment,
                      catalog : {"absent", "pushed", "owned"}, current : SUBSET Items]
      BY <1>8 DEF Sync, AgentType, Agent, Catalog
    <2> QED BY <1>8, <2>1, InformerTypeFrame DEF Sync, AgentType
  <1> QED BY <1>1, <1>2, <1>3, <1>4, <1>5, <1>6, <1>7, <1>8

(* The worker's write of an item. *)
LEMMA UpdateItemType ==
  ASSUME FwdType, NEW phase \in Phase, NEW pc \in {"idle", "write"}, a.pc # "idle",
         UpdateItem(phase, pc), invalid' \subseteq Items
  PROVE  FwdType'
  <1> USE DEF FwdType
  <1>1. InformerType' BY InformerTypeFrame DEF UpdateItem
  <1>2. a.i \in Items BY Busy
  <1>3. /\ item' \in [Items -> Phase]
        /\ stale' \cup queue' \subseteq Items \cup {Agent, Catalog}
    BY <1>2 DEF UpdateItem, Requeue, AgentType
  <1>4. a \in ClaimSteps /\ Idle \in ClaimSteps BY Busy DEF AgentType
  <1>5. [a EXCEPT !.pc = "write"] \in ClaimSteps BY <1>4, NextStep
  <1>6. a' \in ClaimSteps BY <1>4, <1>5 DEF UpdateItem, Requeue
  <1> QED BY <1>1, <1>3, <1>6 DEF UpdateItem, AgentType

LEMMA ClaimWorkerType ==
  ASSUME FwdType, ClaimWorker
  PROVE  FwdType'
  <1> USE DEF FwdType
  <1>1. CASE AddFinalizer
    <2>1. "live" \in Phase BY DEF Phase
    <2>2. invalid' \subseteq Items BY <1>1 DEF AddFinalizer, AgentType
    <2> QED BY <1>1, <2>1, <2>2, UpdateItemType DEF AddFinalizer
  <1>2. CASE WriteCopy
    <2> DEFINE n == NameOf[a.i]
               new == [item |-> a.i, phase |-> "live", current |-> a.current]
    <2>1. a.i \in Items /\ n \in Names /\ a.current \in BOOLEAN BY <1>2, Busy DEF WriteCopy
    <2>2. new \in Copy BY <2>1 DEF Copy
    <2>3. copy[n] # NoCopy => [new EXCEPT !.phase = copy[n].phase] \in Copy
      BY <2>1, <2>2 DEF Copy, AgentType
    <2>4. \/ copy' = copy
          \/ copy' = [copy EXCEPT ![n] = IF copy[n] = NoCopy THEN new
                                         ELSE [new EXCEPT !.phase = copy[n].phase]]
      BY <1>2, <2>1 DEF WriteCopy, AgentType
    <2> HIDE DEF n, new
    <2>5. copy' \in [Names -> Copy \cup {NoCopy}] BY <2>1, <2>2, <2>3, <2>4 DEF AgentType
    <2>6. /\ invalid' \subseteq Items
          /\ stale' \cup queue' \subseteq Items \cup {Agent, Catalog}
      BY <1>2, <2>1 DEF WriteCopy, Requeue, AgentType
    <2>8. a' \in ClaimSteps BY <1>2, Busy DEF WriteCopy, Requeue
    <2>7. InformerType' BY <1>2, InformerTypeFrame DEF WriteCopy
    <2> QED BY <1>2, <2>5, <2>6, <2>7, <2>8 DEF WriteCopy, AgentType
  <1>3. CASE deleteExternalResources
    <2>1. a.i \in Items /\ NameOf[a.i] \in Names BY <1>3, Busy DEF deleteExternalResources
    <2>2. copy' \in [Names -> Copy \cup {NoCopy}]
      BY <1>3, <2>1 DEF deleteExternalResources, AgentType, Copy
    <2>3. queue' \subseteq Items \cup {Agent, Catalog}
      BY <1>3, <2>1 DEF deleteExternalResources, Requeue, AgentType
    <2>5. a \in ClaimSteps /\ Idle \in ClaimSteps BY Busy DEF AgentType
    <2>6. a.pc # "idle" BY <1>3 DEF deleteExternalResources
    <2>7. [a EXCEPT !.pc = "unfinalize"] \in ClaimSteps BY <2>5, <2>6, NextStep
    <2>8. a' \in ClaimSteps BY <1>3, <2>5, <2>7 DEF deleteExternalResources, Requeue
    <2>4. InformerType' BY <1>3, InformerTypeFrame DEF deleteExternalResources
    <2> QED BY <1>3, <2>2, <2>3, <2>4, <2>8 DEF deleteExternalResources, AgentType
  <1>4. CASE RemoveFinalizer
    <2>1. (IF item[a.i] = "terminating" THEN "absent" ELSE "new") \in Phase BY DEF Phase
    <2>2. invalid' \subseteq Items BY <1>4 DEF RemoveFinalizer, AgentType
    <2> QED BY <1>4, <2>1, <2>2, UpdateItemType DEF RemoveFinalizer
  <1> QED BY <1>1, <1>2, <1>3, <1>4 DEF ClaimWorker

(* The other work of the agent. *)
LEMMA AgentWorkType ==
  ASSUME FwdType,
         \/ \E i \in Items : Reconcile(i)
         \/ ReconcileCatalog \/ ReconcileAgent \/ RemoveAgentFinalizer
  PROVE  FwdType'
  <1> USE DEF FwdType
  <1>1. ASSUME Stop PROVE FwdType'
    BY <1>1, InformerTypeFrame, Busy DEF Stop, AgentType
  <1>2. ASSUME NEW i \in Items, Reconcile(i) PROVE FwdType'
    <2>1. CASE Stop BY <1>1, <2>1
    <2>2. CASE ~Stop
      <3>1. UNCHANGED <<flow, item, made, invalid, copy, secret, dep, catalog, up, cache,
                        stale, d, control, calm>> /\ queue' = queue \ {i}
        BY <1>2, <2>2 DEF Reconcile
      <3>2. \A pc \in {"finalizer", "write", "delete", "unfinalize"} :
              [pc |-> pc, i |-> i, fresh |-> i \notin stale, current |-> i \in cache.current]
                \in ClaimSteps
        BY DEF ClaimSteps
      <3>3. cache.item[i] \in Phase BY DEF AgentType
      <3>4. a' \in ClaimSteps
        BY <1>2, <2>2, <3>2, <3>3 DEF Reconcile, AgentType, Phase
      <3> QED BY <3>1, <3>4, InformerTypeFrame DEF AgentType
    <2> QED BY <2>1, <2>2
  <1>3. CASE ReconcileCatalog
    BY <1>3, InformerTypeFrame DEF ReconcileCatalog, AgentType
  <1>4. CASE ReconcileAgent
    <2>1. CASE Stop BY <1>1, <2>1
    <2>2. CASE ~Stop
      BY <1>4, <2>2, InformerTypeFrame DEF ReconcileAgent, AgentType, Deployment
    <2> QED BY <2>1, <2>2
  <1>5. CASE RemoveAgentFinalizer
    BY <1>5, InformerTypeFrame DEF RemoveAgentFinalizer, AgentType, Deployment
  <1> QED BY <1>2, <1>3, <1>4, <1>5
-----------------------------------------------------------------------------
(* Steps of the ClusterEnvironment controller. *)

(* A new informer, and one whose list has been handled. *)
LEMMA Informers ==
  ASSUME AgentType, NEW k \in Clusters
  PROVE  /\ NewInformer(k) \in Informer(k)
         /\ NoInformer \notin Informer(k)
         /\ \A i \in ItemsOf(k) : [phase |-> item[i], current |-> TRUE] \in Seen
  <1>1. ItemsOf(k) \subseteq Items BY DEF ItemsOf
  <1>2. \A i \in ItemsOf(k) : [phase |-> item[i], current |-> TRUE] \in Seen
    BY <1>1 DEF AgentType, Seen
  <1> QED BY <1>2, NoneAssumption DEF NewInformer, Informer

LEMMA ControllerType ==
  ASSUME FwdType,
         \/ CrashManager \/ MarkSynced
         \/ \E k \in Clusters : Enqueue(k) \/ RunInformers(k)
  PROVE  FwdType'
  <1> USE DEF FwdType
  <1>1. AgentType'
    BY AgentTypeFrame DEF CrashManager, MarkSynced, Enqueue, RunInformers, AgentType
  <1>2. Idle.pc = "idle" BY DEF Idle
  <1>3. CASE CrashManager
    BY <1>1, <1>2, <1>3 DEF CrashManager, InformerType
  <1>4. CASE MarkSynced
    <2> DEFINE k == r.k
    <2>1. k \in Clusters /\ inf[k] \in Informer(k)
      BY <1>4 DEF MarkSynced, InformerType, Idle
    <2>2. PICK late \in SUBSET ItemsOf(k) :
            inf' = [inf EXCEPT ![k] =
                      [synced |-> TRUE,
                       seen |-> [i \in ItemsOf(k) |->
                                   IF i \in late THEN [phase |-> "absent", current |-> TRUE]
                                                 ELSE inf[k].seen[i]]]]
      BY <1>4 DEF MarkSynced
    <2> HIDE DEF k
    <2>3. inf'[k] \in Informer(k) /\ inf'[k].synced
      BY <2>1, <2>2 DEF InformerType, Informer, Seen, Phase
    <2>4. inf'[k] # NoInformer BY <2>1, <2>3, NoneAssumption
    <2>5. /\ DOMAIN inf' = Clusters /\ r' = Idle /\ UNCHANGED <<todo, h>>
          /\ \A x \in Clusters \ {k} : inf'[x] = inf[x]
      BY <1>4, <2>1, <2>2 DEF MarkSynced, InformerType
    <2> QED BY <1>1, <1>2, <2>1, <2>3, <2>4, <2>5 DEF InformerType
  <1>5. ASSUME NEW k \in Clusters, Enqueue(k) PROVE FwdType'
    BY <1>1, <1>5 DEF Enqueue, InformerType
  <1>6. ASSUME NEW k \in Clusters, RunInformers(k) PROVE FwdType'
    <2>1. CASE UNCHANGED <<inf, h, r, todo>> BY <1>1, <2>1 DEF InformerType
    <2>2. CASE /\ inf' = [StopInformers EXCEPT ![k] = NewInformer(k)]
               /\ h' = [x \in Clusters |-> NoEvent]
               /\ r' = [pc |-> "wait", k |-> k]
               /\ todo' = todo \ {k}
      <3>1. /\ DOMAIN inf' = Clusters /\ inf'[k] = NewInformer(k)
            /\ \A x \in Clusters \ {k} : inf'[x] = NoInformer
        BY <2>2 DEF StopInformers
      <3>2. inf'[k] \in Informer(k) /\ inf'[k] # NoInformer BY <3>1, Informers
      <3> QED BY <1>1, <2>2, <3>1, <3>2 DEF InformerType
    <2>3. CASE /\ inf' = StopInformers
               /\ h' = [x \in Clusters |-> NoEvent]
               /\ UNCHANGED <<r, todo>>
      <3>1. DOMAIN inf' = Clusters /\ \A x \in Clusters : inf'[x] = NoInformer
        BY <2>3 DEF StopInformers
      <3>2. r'.pc # "wait"
        BY <1>6, <2>3 DEF RunInformers
      <3> QED BY <1>1, <2>3, <3>1, <3>2 DEF InformerType
    <2> QED BY <1>6, <2>1, <2>2, <2>3 DEF RunInformers
  <1> QED BY <1>3, <1>4, <1>5, <1>6

(* Steps of the handlers. *)
LEMMA NotifyType ==
  ASSUME FwdType, NEW k \in Clusters, NEW i \in ItemsOf(k), Notify(k, i) \/ Resync(k, i)
  PROVE  FwdType'
  <1> USE DEF FwdType
  <1>1. AgentType' BY AgentTypeFrame DEF Notify, Resync, AgentType
  <1>2. i \in Items /\ inf[k] \in Informer(k)
    BY DEF ItemsOf, Notify, Resync, InformerType
  <1>3. UNCHANGED <<r, todo>> BY DEF Notify, Resync
  <1>4. r.pc = "wait" => r.k \in Clusters BY DEF InformerType, Idle
  <1>5. /\ DOMAIN inf' = Clusters
        /\ \A x \in Clusters : inf'[x] \in Informer(x) \cup {NoInformer}
        /\ \A x \in Clusters : inf[x] # NoInformer
             => inf'[x] # NoInformer /\ inf'[x].synced = inf[x].synced
    <2>1. CASE inf' = inf BY <2>1 DEF InformerType
    <2>2. CASE inf' = [inf EXCEPT ![k].seen[i] = [phase |-> item[i], current |-> TRUE]]
      <3>1. inf'[k] = [inf[k] EXCEPT !.seen = [inf[k].seen EXCEPT ![i] =
                                                 [phase |-> item[i], current |-> TRUE]]]
        BY <2>2 DEF InformerType
      <3>2. [phase |-> item[i], current |-> TRUE] \in Seen BY Informers
      <3>3. inf'[k] \in Informer(k) /\ inf'[k].synced = inf[k].synced
        <4>1. inf[k].seen \in [ItemsOf(k) -> Seen] BY <1>2 DEF Informer
        <4>2. [inf[k].seen EXCEPT ![i] = [phase |-> item[i], current |-> TRUE]]
                \in [ItemsOf(k) -> Seen]
          BY <3>2, <4>1
        <4> QED BY <1>2, <3>1, <4>2 DEF Informer
      <3>4. inf'[k] # NoInformer BY <3>3, NoneAssumption
      <3>5. DOMAIN inf' = Clusters /\ \A x \in Clusters \ {k} : inf'[x] = inf[x]
        BY <2>2 DEF InformerType
      <3> QED BY <3>3, <3>4, <3>5 DEF InformerType
    <2> QED BY <2>1, <2>2 DEF Notify, Resync
  <1>6. /\ h' \in [Clusters -> Event \cup {NoEvent}]
        /\ \A x \in Clusters : h'[x] # NoEvent => h[x] # NoEvent \/ (x = k /\ inf[x].synced)
    <2>1. CASE h' = h BY <2>1 DEF InformerType
    <2>2. ASSUME NEW step \in {"write", "delete"}, NEW current \in BOOLEAN, inf[k].synced,
                 h' = [h EXCEPT ![k] = [item |-> i, step |-> step, current |-> current]]
          PROVE  /\ h' \in [Clusters -> Event \cup {NoEvent}]
                 /\ \A x \in Clusters :
                      h'[x] # NoEvent => h[x] # NoEvent \/ (x = k /\ inf[x].synced)
      <3>1. [item |-> i, step |-> step, current |-> current] \in Event
        BY <1>2 DEF Event
      <3> QED BY <2>2, <3>1 DEF InformerType
    <2>3. CASE Notify(k, i)
      <3>1. \A p, q : Handled(p, q) \subseteq {"write", "delete"} BY DEF Handled
      <3> QED BY <2>1, <2>2, <2>3, <3>1 DEF Notify
    <2>4. CASE Resync(k, i)
      <3>1. inf[k].seen[i].current \in BOOLEAN BY <1>2 DEF Informer, Seen
      <3> QED BY <2>2, <2>4, <3>1 DEF Resync
    <2> QED BY <2>3, <2>4
  <1>7. inf[k] # NoInformer BY DEF Notify, Resync
  <1>8. InformerType' BY <1>3, <1>4, <1>5, <1>6, <1>7 DEF InformerType
  <1> QED BY <1>1, <1>8

LEMMA HandleType ==
  ASSUME FwdType, NEW k \in Clusters, Handle(k)
  PROVE  FwdType'
  <1> USE DEF FwdType
  <1> DEFINE i == h[k].item
             n == NameOf[i]
  <1>1. /\ h[k] \in Event /\ h[k] # NoEvent /\ i \in Items /\ n \in Names
        /\ h[k].current \in BOOLEAN
    BY DEF Handle, InformerType, Event
  <1> HIDE DEF i, n
  <1>2. /\ copy' \in [Names -> Copy \cup {NoCopy}]
        /\ secret' \in [Names -> {"none", "old", "current"}]
    <2>1. CASE createUpdate(k)
      <3> DEFINE phase == IF copy[n] = NoCopy THEN "live" ELSE copy[n].phase
                 new == [item |-> i, phase |-> phase, current |-> h[k].current]
      <3>1. new \in Copy BY <1>1 DEF AgentType, Copy
      <3>2. \/ copy' = copy
            \/ copy' = [copy EXCEPT ![n] = new]
        BY <2>1 DEF createUpdate, i, n
      <3>3. secret' = secret \/ secret' = [secret EXCEPT ![n] = IF Exists(i) THEN "current" ELSE @]
        BY <2>1 DEF createUpdate, i, n
      <3> HIDE DEF new
      <3> QED BY <1>1, <3>1, <3>2, <3>3 DEF AgentType
    <2>2. CASE deleteCopy(k)
      <3>1. \/ copy' = copy
            \/ copy[n] # NoCopy /\ copy' = [copy EXCEPT ![n] = NoCopy]
            \/ copy[n] # NoCopy /\ copy' = [copy EXCEPT ![n] = [copy[n] EXCEPT !.phase = "terminating"]]
        BY <1>1, <2>2 DEF deleteCopy, n, i, AgentType
      <3>2. copy[n] # NoCopy => [copy[n] EXCEPT !.phase = "terminating"] \in Copy
        BY <1>1 DEF AgentType, Copy
      <3>3. secret' = secret \/ secret' = [secret EXCEPT ![n] = "none"]
        BY <2>2 DEF deleteCopy, n, i
      <3> QED BY <1>1, <3>1, <3>2, <3>3 DEF AgentType
    <2> QED BY <2>1, <2>2 DEF Handle, AgentType
  <1>3. AgentType' BY <1>2, AgentTypeFrame DEF Handle
  <1>4. \E e \in Event \cup {NoEvent} : h' = [h EXCEPT ![k] = e]
    <2>1. \A step \in {"secret", "delete secret"} :
            [h[k] EXCEPT !.step = step, !.current = TRUE] \in Event
      BY <1>1 DEF Event
    <2>2. HandlerDone(k) \/ HandlerNext(k, "secret") \/ HandlerNext(k, "delete secret")
      BY DEF Handle, createUpdate, deleteCopy
    <2>3. \A step : HandlerNext(k, step)
                      => h' = [h EXCEPT ![k] = [h[k] EXCEPT !.step = step, !.current = TRUE]]
      BY DEF HandlerNext, InformerType
    <2> QED BY <2>1, <2>2, <2>3 DEF HandlerDone
  <1>5. InformerType' BY <1>1, <1>4 DEF Handle, InformerType
  <1> QED BY <1>3, <1>5
-----------------------------------------------------------------------------
LEMMA FwdTypeInit == Init => FwdType
  <1> SUFFICES ASSUME Init PROVE FwdType
    OBVIOUS
  <1>1. InformerType BY DEF Init, InformerType, Idle
  <1>2. up \in BOOLEAN BY DEF Init
  <1>3. /\ a \in ClaimSteps /\ d \in {Idle, [pc |-> "unfinalize"]}
        /\ stale \cup queue \subseteq Items \cup {Agent, Catalog}
    BY DEF Init, ClaimSteps
  <1>4. cache \in [item : [Items -> Phase], dep : Deployment,
                   catalog : {"absent", "pushed", "owned"}, current : SUBSET Items]
    BY DEF Init, Phase, Deployment
  <1>5. /\ item \in [Items -> Phase] /\ made \in [Items -> 0 .. MaxMade]
        /\ copy \in [Names -> Copy \cup {NoCopy}]
        /\ secret \in [Names -> {"none", "old", "current"}]
    BY DEF Init, Phase
  <1>6. /\ flow \in Flows /\ invalid \subseteq Items /\ calm \in BOOLEAN
        /\ dep \in Deployment /\ catalog \in {"absent", "pushed", "owned"}
    BY DEF Init, Deployment
  <1>7. AgentType
    BY <1>2, <1>3, <1>4, <1>5, <1>6 DEF AgentType
  <1> QED BY <1>1, <1>7 DEF FwdType

LEMMA FwdTypeStep == FwdType /\ [Next]_vars => FwdType'
  <1> SUFFICES ASSUME FwdType, [Next]_vars PROVE FwdType'
    OBVIOUS
  <1>1. CASE UNCHANGED vars
    BY <1>1 DEF vars, FwdType, AgentType, InformerType
  <1>2. CASE Next
    BY <1>2, UsersType, AroundType, ClaimWorkerType, AgentWorkType, ControllerType,
       NotifyType, HandleType DEF Next
  <1> QED BY <1>1, <1>2

(* All variables keep their types, and no handler is busy whose informer   *)
(* has been stopped: whatever is restarted, and whenever.                  *)
THEOREM ForwardingType == Spec => []TypeOK
  <1>1. FwdType => TypeOK BY DEF FwdType, AgentType, InformerType, TypeOK
  <1> QED BY <1>1, FwdTypeInit, FwdTypeStep, PTL DEF Spec
-----------------------------------------------------------------------------
(* Steps that leave the items, the cache and the worker alone; whoever     *)
(* deletes the Deployment only confirms what has been read of it.          *)
LEMMA KnowsFrame ==
  ASSUME CacheKnows, WorkerKnows, UNCHANGED <<item, cache, up, a>>, stale \subseteq stale',
         dep \in Ending => dep' \in Ending
  PROVE  CacheKnows' /\ WorkerKnows'
  BY DEF CacheKnows, WorkerKnows

(* Steps that add no copy, and leave the phases of the copies alone or     *)
(* delete some.                                                            *)
LEMMA CopiesFrame ==
  ASSUME CopiesHeld, UNCHANGED <<flow, item>>,
         a'.pc = "unfinalize" => a.pc = "unfinalize" /\ a'.i = a.i,
         \A n \in Names : copy'[n] # NoCopy =>
           /\ copy[n] # NoCopy /\ copy'[n].item = copy[n].item
           /\ copy'[n].phase = "live" => copy[n].phase = "live",
         AgentType
  PROVE  CopiesHeld'
  <1>1. a.pc = "unfinalize" => NameOf[a.i] \in Names BY Busy
  <1>2. strategy' = strategy BY DEF strategy
  <1>3. (\A n \in Names : copy[n] # NoCopy => NameOf[copy[n].item] = n)' BY DEF CopiesHeld
  <1>4. ASSUME strategy = "push"
        PROVE  (\A n \in Names : Copied(n) => item[copy[n].item] \in Finalized)'
    BY <1>4 DEF CopiesHeld, Copied
  <1>5. ASSUME strategy = "push", a'.pc = "unfinalize" PROVE ~Copied(NameOf[a.i])'
    BY <1>1, <1>5 DEF CopiesHeld, Copied
  <1> QED BY <1>2, <1>3, <1>4, <1>5 DEF CopiesHeld

(* What happens around the agent, and what it does about its Deployment    *)
(* and its catalogs.                                                       *)
LEMMA AroundInv ==
  ASSUME FwdInv,
         \/ DeleteAgent \/ PushCatalog \/ Calm \/ DeletePod \/ CrashAgent \/ Collect
         \/ \E n \in Names : ControlPlane(n)
         \/ \E n \in Items \cup {Agent, Catalog} : Sync(n)
         \/ ReconcileCatalog \/ ReconcileAgent \/ RemoveAgentFinalizer
  PROVE  CacheKnows' /\ WorkerKnows' /\ CopiesHeld'
  <1> USE DEF FwdInv, FwdType
  <1>1. CASE DeleteAgent \/ PushCatalog \/ Calm \/ Collect \/ ReconcileCatalog
               \/ RemoveAgentFinalizer
    <2>1. UNCHANGED <<flow, item, cache, up, a, copy>> /\ stale \subseteq stale'
      BY <1>1 DEF DeleteAgent, PushCatalog, Calm, Collect, ReconcileCatalog,
                  RemoveAgentFinalizer, agent
    <2>2. dep \in Ending => dep' \in Ending
      BY <1>1 DEF DeleteAgent, PushCatalog, Calm, Collect, ReconcileCatalog,
                  RemoveAgentFinalizer, agent, Ending
    <2> QED BY <2>1, <2>2, KnowsFrame, CopiesFrame
  <1>2. ASSUME Stop PROVE CacheKnows' /\ WorkerKnows' /\ CopiesHeld'
    <2>1. /\ UNCHANGED <<flow, item, cache, dep, copy>> /\ ~up' /\ a' = Idle
          /\ a'.pc = "idle"
      BY <1>2 DEF Stop, Idle
    <2> QED BY <2>1, CopiesFrame DEF CacheKnows, WorkerKnows
  <1>3. CASE CrashAgent
    <2>1. /\ UNCHANGED <<flow, item, up, dep, copy>> /\ a' = Idle /\ a'.pc = "idle"
          /\ cache'.item = item /\ cache'.dep = dep
      BY <1>3 DEF CrashAgent, Idle
    <2>2. CacheKnows' /\ WorkerKnows' BY <2>1 DEF CacheKnows, WorkerKnows, Finalized
    <2> QED BY <2>1, <2>2, CopiesFrame
  <1>4. ASSUME NEW n \in Names, ControlPlane(n)
        PROVE  CacheKnows' /\ WorkerKnows' /\ CopiesHeld'
    <2>1. UNCHANGED <<flow, item, cache, up, a, dep, stale>>
      BY <1>4 DEF ControlPlane, agent
    <2>2. \A m \in Names : copy'[m] # NoCopy => copy'[m] = copy[m]
      BY <1>4 DEF ControlPlane, AgentType
    <2> QED BY <2>1, <2>2, KnowsFrame, CopiesFrame
  <1>5. ASSUME NEW n \in Items \cup {Agent, Catalog}, Sync(n)
        PROVE  CacheKnows' /\ WorkerKnows' /\ CopiesHeld'
    <2>1. UNCHANGED <<flow, item, up, a, dep, copy>> /\ stale' = stale \ {n} /\ up
      BY <1>5 DEF Sync
    <2>2. CopiesHeld' BY <2>1, CopiesFrame
    <2>3. a.pc # "idle" => a.i \in Items BY Busy
    <2>4. CASE n = Agent
      <3>1. cache'.dep = dep /\ cache'.item = cache.item
        BY <1>5, <2>4 DEF Sync, AgentType, Agent, Catalog
      <3>2. Agent \notin Items BY DEF Agent
      <3> QED BY <2>1, <2>2, <2>3, <2>4, <3>1, <3>2 DEF CacheKnows, WorkerKnows
    <2>5. CASE n = Catalog
      <3>1. cache'.dep = cache.dep /\ cache'.item = cache.item
        BY <1>5, <2>5 DEF Sync, AgentType, Agent, Catalog
      <3>2. Catalog \notin Items BY DEF Catalog
      <3> QED BY <2>1, <2>2, <2>3, <2>5, <3>1, <3>2 DEF CacheKnows, WorkerKnows
    <2>6. CASE n \in Items
      <3>1. n # Agent /\ n # Catalog BY <2>6 DEF Agent, Catalog
      <3>2. cache'.dep = cache.dep /\ cache'.item = [cache.item EXCEPT ![n] = item[n]]
        BY <1>5, <2>6, <3>1 DEF Sync, AgentType
      <3>3. cache.item \in [Items -> Phase] BY DEF AgentType
      <3>4. \A i \in Items : cache'.item[i] = IF i = n THEN item[n] ELSE cache.item[i]
        BY <2>6, <3>2, <3>3
      <3>5. CacheKnows' BY <2>1, <3>2, <3>4 DEF CacheKnows, Finalized
      <3>6. WorkerKnows' BY <2>1, <2>3, <3>2, <3>4 DEF WorkerKnows
      <3> QED BY <2>2, <3>5, <3>6
    <2> QED BY <2>4, <2>5, <2>6
  <1>6. CASE ReconcileAgent
    <2>1. CASE Stop BY <1>2, <2>1
    <2>2. CASE ~Stop
      <3>1. UNCHANGED <<flow, item, cache, up, a, copy>> /\ stale \subseteq stale'
        BY <1>6, <2>2 DEF ReconcileAgent
      <3>2. dep \in Ending => dep' \in Ending
        BY <1>6, <2>2 DEF ReconcileAgent, Ending
      <3> QED BY <3>1, <3>2, KnowsFrame, CopiesFrame
    <2> QED BY <2>1, <2>2
  <1> QED BY <1>1, <1>2, <1>3, <1>4, <1>5, <1>6 DEF DeletePod

(* Users. *)
LEMMA UsersInv ==
  ASSUME FwdInv, NEW i \in Items, Users(i)
  PROVE  CacheKnows' /\ WorkerKnows' /\ CopiesHeld'
  <1> USE DEF FwdInv, FwdType
  <1>1. ASSUME NEW phase \in Phase, StoreItem(i, phase), copy' = copy, cache' = cache,
               item[i] \notin Finalized \/ phase \in Finalized,
               phase # "live"
        PROVE  CacheKnows' /\ WorkerKnows' /\ CopiesHeld'
    <2>1. UNCHANGED <<flow, dep, up>> BY DEF Users
    <2>2. /\ item' = [item EXCEPT ![i] = phase]
          /\ a'.pc = a.pc
          /\ a.pc = "idle" => a' = a
          /\ a.pc # "idle" => /\ a'.i = a.i
                              /\ a'.fresh => a.fresh /\ a.i # i
          /\ stale \subseteq stale' /\ up => i \in stale'
      BY <1>1, StoreItemType
    <2>3. item'[i] = phase /\ \A j \in Items \ {i} : item'[j] = item[j]
      BY <2>2 DEF AgentType
    <2>4. \A j \in Items : /\ item[j] \in Finalized => item'[j] \in Finalized
                           /\ item'[j] = "live" => item[j] = "live"
      BY <1>1, <2>3
    <2>5. a.pc # "idle" => a.i \in Items /\ NameOf[a.i] \in Names BY Busy
    <2>6. stale \subseteq stale' BY <1>1 DEF StoreItem
    <2>7. CacheKnows' BY <1>1, <2>1, <2>2, <2>3, <2>4, <2>6 DEF CacheKnows
    <2>8. WorkerKnows'
      BY <1>1, <2>1, <2>2, <2>3, <2>4, <2>5, Busy DEF WorkerKnows
    <2>9. CopiesHeld'
      <3>1. \A n \in Names : /\ copy[n] # NoCopy => copy[n].item \in Items
                             /\ Copied(n)' <=> Copied(n)
        BY <1>1 DEF AgentType, Copy, Copied
      <3> QED BY <1>1, <2>1, <2>2, <2>4, <2>5, <3>1 DEF CopiesHeld, strategy
    <2> QED BY <2>7, <2>8, <2>9
  <1>2. CASE CreateItem(i)
    <2>1. /\ StoreItem(i, "new") /\ copy' = copy /\ cache' = cache /\ "new" \in Phase
          /\ item[i] \notin Finalized
      BY <1>2 DEF CreateItem, Exists, Finalized, Phase
    <2> QED BY <1>1, <2>1
  <1>3. CASE EditItem(i)
    <2>1. /\ UNCHANGED <<flow, item, dep, up>> /\ stale \subseteq stale'
          /\ cache'.dep = cache.dep /\ cache'.item = cache.item
      BY <1>3 DEF Users, EditItem, AgentType
    <2>2. \A n \in Names : copy'[n] # NoCopy => /\ copy[n] # NoCopy
                                                 /\ copy'[n].item = copy[n].item
                                                 /\ copy'[n].phase = copy[n].phase
      BY <1>3, EditedCopy DEF EditItem, AgentType
    <2>3. \/ a' = a
          \/ a.pc # "idle" /\ a'.pc = a.pc /\ a'.i = a.i /\ ~a'.fresh
      BY <1>3, Outdated DEF EditItem, AgentType
    <2>4. CacheKnows' BY <2>1 DEF CacheKnows
    <2>5. WorkerKnows' BY <2>1, <2>3, Busy DEF WorkerKnows
    <2>6. CopiesHeld' BY <2>1, <2>2, <2>3, CopiesFrame
    <2> QED BY <2>4, <2>5, <2>6
  <1>4. CASE DeleteItem(i)
    <2> DEFINE phase == IF item[i] = "live" THEN "terminating" ELSE "absent"
    <2>1. /\ StoreItem(i, phase) /\ copy' = copy /\ cache' = cache /\ phase \in Phase
          /\ item[i] \notin Finalized \/ phase \in Finalized
          /\ phase # "live"
      BY <1>4 DEF DeleteItem, Finalized, Phase
    <2> QED BY <1>1, <2>1
  <1> QED BY <1>2, <1>3, <1>4 DEF Users

(* The claim worker. *)
LEMMA ReconcileInv ==
  ASSUME FwdInv, NEW i \in Items, Reconcile(i), ~Stop
  PROVE  CacheKnows' /\ WorkerKnows' /\ CopiesHeld'
  <1> USE DEF FwdInv, FwdType
  <1> DEFINE ends == "terminating" \in {cache.item[i], cache.dep}
             start(pc) == [pc |-> pc, i |-> i, fresh |-> i \notin stale,
                           current |-> i \in cache.current]
  <1>1. /\ UNCHANGED <<flow, item, copy, dep, up, cache, stale>> /\ up /\ a.pc = "idle"
        /\ cache.item[i] = "absent" \/ cache.dep # "gone"
    BY DEF Reconcile
  <1>2. cache.item[i] \in Phase BY DEF AgentType
  <1>3. \/ a' = a
        \/ a' = start("finalizer") /\ cache.item[i] = "new"
        \/ /\ a' = start("write") /\ cache.item[i] = "live" /\ cache.dep \notin Ending
        \/ /\ a' = start("delete") /\ cache.item[i] \in Finalized
           /\ cache.item[i] = "terminating" \/ cache.dep \in Ending
    <2>1. a' = CASE cache.item[i] = "absent" -> a
                 [] cache.item[i] = "new" /\ ends -> a
                 [] cache.item[i] = "new" /\ ~ends -> start("finalizer")
                 [] cache.item[i] \in {"live", "terminating"} /\ ends -> start("delete")
                 [] cache.item[i] = "live" /\ ~ends -> start("write")
      BY DEF Reconcile
    <2> HIDE DEF start
    <2>2. CASE cache.item[i] = "absent"
      BY <2>1, <2>2
    <2>3. CASE cache.item[i] = "new" BY <2>1, <2>3
    <2>4. CASE cache.item[i] = "live" BY <1>1, <2>1, <2>4 DEF Ending, Finalized
    <2>5. CASE cache.item[i] = "terminating" BY <2>1, <2>5 DEF Finalized
    <2> QED BY <1>2, <2>2, <2>3, <2>4, <2>5 DEF Phase
  <1>4. CacheKnows' BY <1>1 DEF CacheKnows
  <1>5. WorkerKnows'
    <2>1. CASE a' = a BY <1>1, <2>1 DEF WorkerKnows
    <2>2. CASE a' = start("finalizer") /\ cache.item[i] = "new"
      BY <1>1, <2>2 DEF WorkerKnows, CacheKnows
    <2>3. CASE a' = start("write") /\ cache.item[i] = "live" /\ cache.dep \notin Ending
      BY <1>1, <2>3 DEF WorkerKnows, CacheKnows
    <2>4. CASE /\ a' = start("delete") /\ cache.item[i] \in Finalized
               /\ cache.item[i] = "terminating" \/ cache.dep \in Ending
      BY <1>1, <2>4 DEF WorkerKnows, CacheKnows
    <2> QED BY <1>3, <2>1, <2>2, <2>3, <2>4
  <1>6. a'.pc = "unfinalize" => a' = a BY <1>3
  <1>7. CopiesHeld' BY <1>1, <1>6, CopiesFrame
  <1> QED BY <1>4, <1>5, <1>7

(* A write that is rejected leaves the worker idle. *)
LEMMA RequeueInv ==
  ASSUME FwdInv, Requeue, UNCHANGED <<flow, item, copy, dep, up, cache>>, stale \subseteq stale'
  PROVE  CacheKnows' /\ WorkerKnows' /\ CopiesHeld'
  <1> USE DEF FwdInv, FwdType
  <1>1. a' = Idle /\ a'.pc = "idle" BY DEF Requeue, Idle
  <1> QED BY <1>1, CopiesFrame DEF CacheKnows, WorkerKnows

LEMMA ClaimWorkerInv ==
  ASSUME FwdInv, ClaimWorker
  PROVE  CacheKnows' /\ WorkerKnows' /\ CopiesHeld'
  <1> USE DEF FwdInv, FwdType
  <1> DEFINE n == NameOf[a.i]
  <1>1. a.i \in Items /\ n \in Names /\ a \in ClaimSteps /\ a.pc # "idle" /\ up
    BY Busy DEF ClaimWorker, AddFinalizer, WriteCopy, deleteExternalResources,
                RemoveFinalizer, WorkerKnows, AgentType
  <1>2. UNCHANGED <<flow, dep, up, cache>> /\ stale \subseteq stale'
    BY DEF ClaimWorker, AddFinalizer, WriteCopy, deleteExternalResources,
           RemoveFinalizer, UpdateItem, Requeue
  <1>3. strategy' = strategy BY <1>2 DEF strategy
  <1>4. \A m \in Names : copy[m] # NoCopy => copy[m].item \in Items BY DEF AgentType, Copy
  <1>5. ASSUME NEW phase \in Phase, item' = [item EXCEPT ![a.i] = phase]
        PROVE  item'[a.i] = phase /\ \A j \in Items \ {a.i} : item'[j] = item[j]
    BY <1>1, <1>5 DEF AgentType
  <1>6. CASE AddFinalizer
    <2>1. CASE ~a.fresh
      BY <1>2, <1>6, <2>1, RequeueInv DEF AddFinalizer, UpdateItem
    <2>2. CASE a.fresh
      <3>1. /\ item' = [item EXCEPT ![a.i] = "live"] /\ a.i \in stale'
            /\ a' = [a EXCEPT !.pc = "write"] /\ copy' = copy
        BY <1>6, <2>2 DEF AddFinalizer, UpdateItem
      <3>2. item'[a.i] = "live" /\ \A j \in Items \ {a.i} : item'[j] = item[j]
        BY <1>5, <3>1 DEF Phase
      <3>3. a'.pc = "write" /\ a'.i = a.i BY <1>1, <3>1, NextStep
      <3>4. cache.item[a.i] = "new" BY <1>6, <2>2 DEF AddFinalizer, WorkerKnows
      <3>5. CacheKnows' BY <1>1, <1>2, <3>1, <3>2, <3>4 DEF CacheKnows, Finalized
      <3>6. WorkerKnows' BY <1>1, <1>2, <3>2, <3>3 DEF WorkerKnows, Finalized
      <3>7. CopiesHeld'
        BY <1>3, <1>4, <3>1, <3>2, <3>3 DEF CopiesHeld, Copied, Finalized
      <3> QED BY <3>5, <3>6, <3>7
    <2> QED BY <2>1, <2>2
  <1>7. CASE WriteCopy
    <2>1. item' = item BY <1>7 DEF WriteCopy
    <2>2. a' = Idle /\ a'.pc = "idle" BY <1>7 DEF WriteCopy, Requeue, Idle
    <2>3. CacheKnows' /\ WorkerKnows' BY <1>2, <2>1, <2>2 DEF CacheKnows, WorkerKnows
    <2>4. CASE copy' = copy BY <1>2, <2>1, <2>2, <2>3, <2>4, CopiesFrame
    <2>5. CASE copy' # copy
      <3> DEFINE new == [item |-> a.i, phase |-> "live", current |-> a.current]
      <3>1. copy' = [copy EXCEPT ![n] = IF copy[n] = NoCopy THEN new
                                        ELSE [new EXCEPT !.phase = copy[n].phase]]
        BY <1>1, <1>7, <2>5 DEF WriteCopy, AgentType
      <3>2. copy'[n].item = a.i /\ \A m \in Names \ {n} : copy'[m] = copy[m]
        BY <1>1, <3>1 DEF AgentType
      <3>3. item[a.i] \in Finalized BY <1>7 DEF WriteCopy, WorkerKnows
      <3> QED BY <1>3, <2>1, <2>2, <2>3, <3>2, <3>3 DEF CopiesHeld, Copied
    <2> QED BY <2>4, <2>5
  <1>8. CASE deleteExternalResources
    <2>1. item' = item /\ stale' = stale BY <1>8 DEF deleteExternalResources
    <2>2. CASE Requeue /\ copy' = copy BY <1>2, <2>1, <2>2, RequeueInv
    <2>3. CASE ~(Requeue /\ copy' = copy)
      <3>1. /\ copy[n] # NoCopy
            /\ copy' = [copy EXCEPT ![n].phase = "terminating"]
            /\ a' = [a EXCEPT !.pc = "unfinalize"]
        BY <1>8, <2>3 DEF deleteExternalResources
      <3>2. a'.pc = "unfinalize" /\ a'.i = a.i /\ a'.fresh = a.fresh
        BY <1>1, <3>1, NextStep
      <3>3. /\ copy'[n].phase = "terminating" /\ copy'[n].item = copy[n].item
            /\ \A m \in Names \ {n} : copy'[m] = copy[m]
        BY <1>1, <3>1 DEF AgentType, Copy
      <3>4. CacheKnows' BY <1>2, <2>1 DEF CacheKnows
      <3>5. WorkerKnows'
        BY <1>1, <1>2, <1>8, <2>1, <3>2 DEF WorkerKnows, deleteExternalResources
      <3>6. CopiesHeld'
        BY <1>1, <1>3, <2>1, <3>1, <3>2, <3>3 DEF CopiesHeld, Copied
      <3> QED BY <3>4, <3>5, <3>6
    <2> QED BY <2>2, <2>3
  <1>9. CASE RemoveFinalizer
    <2>1. CASE ~a.fresh
      BY <1>2, <1>9, <2>1, RequeueInv DEF RemoveFinalizer, UpdateItem
    <2>2. CASE a.fresh
      <3> DEFINE phase == IF item[a.i] = "terminating" THEN "absent" ELSE "new"
      <3>1. /\ item' = [item EXCEPT ![a.i] = phase] /\ a.i \in stale'
            /\ a' = Idle /\ copy' = copy /\ a.pc = "unfinalize"
        BY <1>9, <2>2 DEF RemoveFinalizer, UpdateItem
      <3>2. /\ item'[a.i] = phase /\ phase \in {"absent", "new"}
            /\ \A j \in Items \ {a.i} : item'[j] = item[j]
        BY <1>5, <3>1 DEF Phase
      <3> HIDE DEF phase
      <3>3. a'.pc = "idle" BY <3>1 DEF Idle
      <3>4. cache.item[a.i] = "terminating" \/ cache.dep \in Ending
        BY <2>2, <3>1 DEF WorkerKnows
      <3>5. CacheKnows' BY <1>1, <1>2, <3>1, <3>2, <3>4 DEF CacheKnows
      <3>6. WorkerKnows' BY <1>1, <1>2, <3>1, <3>3 DEF WorkerKnows
      <3>7. CopiesHeld'
        BY <1>3, <1>4, <3>1, <3>2, <3>3 DEF CopiesHeld, Copied
      <3> QED BY <3>5, <3>6, <3>7
    <2> QED BY <2>1, <2>2
  <1> QED BY <1>6, <1>7, <1>8, <1>9 DEF ClaimWorker

(* The ClusterEnvironment controller and the handlers. *)
LEMMA PullInv ==
  ASSUME FwdInv,
         \/ CrashManager \/ MarkSynced
         \/ \E k \in Clusters :
              \/ Enqueue(k) \/ RunInformers(k) \/ Handle(k)
              \/ \E i \in ItemsOf(k) : Notify(k, i) \/ Resync(k, i)
  PROVE  CacheKnows' /\ WorkerKnows' /\ CopiesHeld'
  <1> USE DEF FwdInv, FwdType
  <1>1. UNCHANGED <<flow, item, stale, a, cache, up, dep>>
    BY DEF CrashManager, MarkSynced, Enqueue, RunInformers, Handle, Notify, Resync, agent
  <1>2. CacheKnows' /\ WorkerKnows' BY <1>1, KnowsFrame
  <1>3. CASE copy' = copy BY <1>1, <1>2, <1>3, CopiesFrame
  <1>4. CASE copy' # copy
    <2>1. PICK k \in Clusters : Handle(k)
      BY <1>4 DEF CrashManager, MarkSynced, Enqueue, RunInformers, Notify, Resync
    <2> DEFINE i == h[k].item
               n == NameOf[i]
    <2>2. i \in Items /\ n \in Names BY <2>1 DEF Handle, InformerType, Event
    <2>3. strategy # "push" BY <2>1 DEF PullOff, Handle
    <2>4. /\ \A m \in Names \ {n} : copy'[m] = copy[m]
          /\ copy'[n] # NoCopy => copy'[n].item = i \/ (copy[n] # NoCopy /\ copy'[n].item = copy[n].item)
      <3>1. CASE createUpdate(k)
        BY <1>4, <2>2, <3>1 DEF createUpdate, AgentType
      <3>2. CASE deleteCopy(k)
        <4>1. copy[n] # NoCopy
                /\ \/ copy' = [copy EXCEPT ![n] = NoCopy]
                   \/ copy' = [copy EXCEPT ![n] = [copy[n] EXCEPT !.phase = "terminating"]]
          BY <1>4, <2>2, <3>2 DEF deleteCopy, AgentType
        <4>2. copy[n] # NoCopy
                => [copy[n] EXCEPT !.phase = "terminating"].item = copy[n].item
          BY <2>2 DEF AgentType, Copy
        <4> QED BY <2>2, <4>1, <4>2 DEF AgentType
      <3> QED BY <1>4, <2>1, <3>1, <3>2 DEF Handle
    <2>5. strategy' = strategy BY <1>1 DEF strategy
    <2> HIDE DEF n
    <2>6. n = NameOf[i] BY DEF n
    <2> QED BY <1>2, <2>3, <2>4, <2>5, <2>6 DEF CopiesHeld
  <1> QED BY <1>3, <1>4

(* A behaviour is about one flow. *)
LEMMA FlowStays ==
  ASSUME [Next]_vars PROVE flow' = flow /\ strategy' = strategy /\ kind' = kind
  <1>1. flow' = flow
    BY DEF Next, Users, Reconcile, Stop, DeleteAgent, PushCatalog, Calm, DeletePod, CrashAgent,
           Collect, ControlPlane, Sync, ClaimWorker, AddFinalizer, WriteCopy,
           deleteExternalResources, RemoveFinalizer, UpdateItem, ReconcileCatalog,
           ReconcileAgent, RemoveAgentFinalizer, CrashManager, MarkSynced, Enqueue,
           RunInformers, Handle, Notify, Resync, vars
  <1> QED BY <1>1 DEF strategy, kind

(* Where the agent pushes, the ClusterEnvironment controller has nothing   *)
(* to do.                                                                  *)
LEMMA PullOffStep ==
  ASSUME FwdInv, Next
  PROVE  PullOff'
  <1> USE DEF FwdInv, FwdType
  <1>1. strategy' = strategy BY FlowStays
  <1> SUFFICES ASSUME strategy = "push" PROVE PullOff'
    BY <1>1 DEF PullOff
  <1>2. /\ todo = {} /\ r.pc = "idle"
        /\ \A k \in Clusters : inf[k] = NoInformer /\ h[k] = NoEvent
    BY DEF PullOff, Idle
  <1>3. UNCHANGED control
    <2>1. ~CrashManager /\ ~MarkSynced BY <1>2 DEF CrashManager, MarkSynced
    <2>2. ASSUME NEW k \in Clusters
          PROVE  /\ ~Enqueue(k) /\ ~RunInformers(k) /\ ~Handle(k)
                 /\ \A i \in ItemsOf(k) : ~Notify(k, i) /\ ~Resync(k, i)
      BY <1>2 DEF Enqueue, RunInformers, Handle, Notify, Resync
    <2>3. ASSUME NEW i \in Items, Users(i) PROVE UNCHANGED control
      <3>1. ClusterOf[i] \in Clusters OBVIOUS
      <3>2. UNCHANGED <<inf, h>>
        BY <1>2, <2>3, <3>1 DEF Users, CreateItem, EditItem, DeleteItem
      <3> QED BY <2>3, <3>2 DEF Users, control
    <2> QED BY <2>1, <2>2, <2>3
      DEF Next, Reconcile, Stop, DeleteAgent, PushCatalog, Calm, DeletePod, CrashAgent,
          Collect, ControlPlane, Sync, ClaimWorker, AddFinalizer, WriteCopy,
          deleteExternalResources, RemoveFinalizer, UpdateItem, ReconcileCatalog,
          ReconcileAgent, RemoveAgentFinalizer
  <1> QED BY <1>1, <1>3 DEF PullOff, control
-----------------------------------------------------------------------------
LEMMA FwdInvInit == Init => FwdInv
  <1> SUFFICES ASSUME Init PROVE FwdInv
    OBVIOUS
  <1>1. a.pc = "idle" /\ cache.item = item /\ cache.dep = dep /\ dep = "new"
    BY DEF Init, Idle
  <1>2. PullOff BY DEF Init, PullOff
  <1>3. CacheKnows BY <1>1 DEF CacheKnows, Finalized, Ending
  <1>4. WorkerKnows BY <1>1 DEF WorkerKnows, Init
  <1>5. CopiesHeld BY <1>1 DEF CopiesHeld, Copied, Init
  <1> QED BY <1>2, <1>3, <1>4, <1>5, FwdTypeInit DEF FwdInv

LEMMA FwdInvStep == FwdInv /\ [Next]_vars => FwdInv'
  <1> SUFFICES ASSUME FwdInv, [Next]_vars PROVE FwdInv'
    OBVIOUS
  <1>1. FwdType' BY FwdTypeStep DEF FwdInv
  <1>2. CASE UNCHANGED vars
    <2>1. PullOff' BY <1>2 DEF vars, FwdInv, PullOff, strategy
    <2>2. CacheKnows' /\ WorkerKnows' BY <1>2, KnowsFrame DEF vars, FwdInv
    <2>3. CopiesHeld' BY <1>2, CopiesFrame DEF vars, FwdInv, FwdType
    <2> QED BY <1>1, <2>1, <2>2, <2>3 DEF FwdInv
  <1>3. CASE Next
    <2>1. PullOff' BY <1>3, PullOffStep
    <2>2. ASSUME NEW i \in Items, Reconcile(i)
          PROVE  CacheKnows' /\ WorkerKnows' /\ CopiesHeld'
      <3>1. CASE Stop
        <4>1. /\ UNCHANGED <<flow, item, cache, dep, copy>> /\ ~up' /\ a' = Idle
              /\ a'.pc = "idle"
          BY <3>1 DEF Stop, Idle
        <4> QED BY <4>1, CopiesFrame DEF CacheKnows, WorkerKnows, FwdInv, FwdType
      <3>2. CASE ~Stop BY <2>2, <3>2, ReconcileInv
      <3> QED BY <3>1, <3>2
    <2>3. CacheKnows' /\ WorkerKnows' /\ CopiesHeld'
      BY <1>3, <2>2, UsersInv, AroundInv, ClaimWorkerInv, PullInv DEF Next
    <2> QED BY <1>1, <2>1, <2>3 DEF FwdInv
  <1> QED BY <1>2, <1>3

LEMMA FwdInvHolds == Spec => []FwdInv
  BY FwdInvInit, FwdInvStep, PTL DEF Spec

(* A claim that is gone has left no copy that stays, for any claims and    *)
(* names, however often claims are created again and the agent restarted:  *)
(* a copy that is not being deleted is the copy of a claim with the        *)
(* finalizer.                                                              *)
THEOREM GoneReleased == Spec => []GoneIsReleased
  <1>1. FwdInv => GoneIsReleased
    <2> SUFFICES ASSUME FwdInv, strategy = "push", NEW i \in Items, ~Exists(i),
                        copy[NameOf[i]] # NoCopy, copy[NameOf[i]].item = i
                 PROVE  copy[NameOf[i]].phase = "terminating"
      BY DEF GoneIsReleased
    <2>1. NameOf[i] \in Names OBVIOUS
    <2>2. copy[NameOf[i]] \in Copy BY <2>1 DEF FwdInv, FwdType, AgentType
    <2>3. ~Copied(NameOf[i]) BY <2>1 DEF FwdInv, CopiesHeld, Exists, Finalized
    <2> QED BY <2>2, <2>3 DEF Copied, Copy
  <1> QED BY <1>1, FwdInvHolds, PTL

(* Where items are pulled, only catalogs have an agent, which finds no     *)
(* claims: no worker of an agent is ever busy with an item.                *)
NoAgent ==
  /\ a = Idle
  /\ kind # "catalog" => ~up
  /\ kind = "catalog" => \A i \in Items : item[i] = "absent" /\ cache.item[i] = "absent"

(* What exists, and what an informer has seen, has been created; and the   *)
(* copy a handler is going to delete is that of an item which has been     *)
(* created and is gone.                                                    *)
HandlerKnows ==
  /\ \A i \in Items : item[i] # "absent" => made[i] > 0
  /\ \A k \in Clusters : inf[k] # NoInformer =>
       \A i \in ItemsOf(k) : inf[k].seen[i].phase # "absent" => made[i] > 0
  /\ \A k \in Clusters : h[k] # NoEvent /\ h[k].step = "delete" =>
       item[h[k].item] = "absent" /\ made[h[k].item] > 0

PullKnows == strategy = "pull" => NoAgent /\ HandlerKnows

LEMMA NoAgentStep ==
  ASSUME FwdInv, NoAgent, Next
  PROVE  NoAgent'
  <1> USE DEF FwdInv, FwdType
  <1>1. a = Idle /\ a.pc = "idle" BY DEF NoAgent, Idle
  <1>2. kind' = kind BY FlowStays
  <1>3. ASSUME NEW i \in Items, Users(i) PROVE NoAgent'
    <2>1. a' = a /\ UNCHANGED up
      BY <1>1, <1>3 DEF Users, CreateItem, EditItem, DeleteItem, StoreItem
    <2>2. CASE kind = "catalog"
      <3>1. ~CreateItem(i) /\ ~EditItem(i) /\ ~DeleteItem(i)
        BY <2>2 DEF CreateItem, EditItem, DeleteItem, Exists, NoAgent
      <3> QED BY <1>3, <3>1 DEF Users
    <2> QED BY <1>1, <1>2, <2>1, <2>2 DEF NoAgent
  <1>4. ASSUME UNCHANGED <<item, a, up>>, cache' = cache PROVE NoAgent'
    BY <1>2, <1>4 DEF NoAgent
  <1>5. CASE Stop BY <1>2, <1>5 DEF Stop, NoAgent
  <1>6. ASSUME NEW i \in Items, Reconcile(i) PROVE NoAgent'
    <2>1. kind = "catalog" /\ cache.item[i] = "absent" BY <1>6 DEF Reconcile, NoAgent
    <2>2. a' = a /\ UNCHANGED <<item, up, cache>> BY <1>6, <2>1 DEF Reconcile
    <2> QED BY <1>4, <2>2
  <1>7. ASSUME up, UNCHANGED <<item, up>>, a' = Idle,
               \A i \in Items : cache'.item[i] \in {item[i], cache.item[i]}
        PROVE  NoAgent'
    BY <1>2, <1>7 DEF NoAgent
  <1>8. ASSUME NEW n \in Items \cup {Agent, Catalog}, Sync(n) PROVE NoAgent'
    <2>1. \A i \in Items : cache'.item[i] \in {item[i], cache.item[i]}
      <3>1. CASE n = Agent BY <1>8, <3>1 DEF Sync, AgentType
      <3>2. CASE n = Catalog BY <1>8, <3>2 DEF Sync, AgentType, Agent, Catalog
      <3>3. CASE n \in Items /\ n \notin {Agent, Catalog}
        <4>1. cache' = [cache EXCEPT !.item[n] = item[n], !.current = @ \cup {n}]
          BY <1>8, <3>3 DEF Sync
        <4>2. cache'.item = [cache.item EXCEPT ![n] = item[n]]
          BY <4>1 DEF AgentType
        <4> QED BY <3>3, <4>2 DEF AgentType
      <3> QED BY <3>1, <3>2, <3>3
    <2> QED BY <1>1, <1>7, <1>8, <2>1 DEF Sync
  <1>9. CASE CrashAgent
    <2>1. \A i \in Items : cache'.item[i] \in {item[i], cache.item[i]} BY <1>9 DEF CrashAgent
    <2> QED BY <1>7, <1>9, <2>1 DEF CrashAgent
  <1>10. ~ClaimWorker
    BY <1>1 DEF ClaimWorker, AddFinalizer, WriteCopy, deleteExternalResources, RemoveFinalizer
  <1> QED BY <1>3, <1>4, <1>5, <1>6, <1>8, <1>9, <1>10
    DEF Next, DeleteAgent, PushCatalog, Calm, DeletePod, Collect, ControlPlane,
        ReconcileCatalog, ReconcileAgent, RemoveAgentFinalizer, CrashManager, MarkSynced,
        Enqueue, RunInformers, Handle, Notify, Resync, agent

(* Users create an item once, so that the one whose copy is to be deleted  *)
(* stays away.                                                             *)
LEMMA UsersHandled ==
  ASSUME MaxMade \in {0, 1}, FwdInv, NoAgent, HandlerKnows, NEW i \in Items, Users(i)
  PROVE  HandlerKnows'
  <1> USE DEF FwdInv, FwdType
  <1>1. a.pc = "idle" BY DEF NoAgent, Idle
  <1>2. made \in [Items -> 0 .. MaxMade] /\ item \in [Items -> Phase] BY DEF AgentType
  <1>3. \A k \in Clusters : h[k] # NoEvent => h[k] \in Event /\ h[k].item \in Items
    BY DEF InformerType, Event
  <1>4. CASE CreateItem(i)
    <2>1. /\ made[i] = 0 /\ made' = [made EXCEPT ![i] = 1] /\ UNCHANGED <<inf, h>>
          /\ item' = [item EXCEPT ![i] = "new"]
      <3>1. made[i] < MaxMade /\ made[i] \in 0 .. MaxMade BY <1>2, <1>4 DEF CreateItem
      <3>2. made[i] = 0 BY <3>1
      <3> QED BY <1>4, <3>2 DEF CreateItem, StoreItem
    <2>2. \A j \in Items : made'[j] = IF j = i THEN 1 ELSE made[j] BY <1>2, <2>1
    <2>3. \A k \in Clusters : \A j \in ItemsOf(k) : j \in Items BY DEF ItemsOf
    <2>4. \A k \in Clusters : h[k] # NoEvent /\ h[k].step = "delete" => h[k].item # i
      BY <2>1 DEF HandlerKnows
    <2> QED BY <1>2, <1>3, <2>1, <2>2, <2>3, <2>4 DEF HandlerKnows
  <1>5. CASE EditItem(i)
    <2> DEFINE k == ClusterOf[i]
    <2>1. k \in Clusters /\ UNCHANGED <<item, made>> /\ i \in ItemsOf(k)
      BY <1>5 DEF EditItem, ItemsOf
    <2>2. /\ inf' = IF inf[k] = NoInformer THEN inf
                    ELSE [inf EXCEPT ![k].seen[i].current = FALSE]
          /\ h' = IF h[k] # NoEvent /\ h[k].item = i
                  THEN [h EXCEPT ![k].current = FALSE] ELSE h
      BY <1>5 DEF EditItem
    <2> HIDE DEF k
    <2>3. \A x \in Clusters : inf'[x] # NoInformer =>
            /\ inf[x] # NoInformer
            /\ \A j \in ItemsOf(x) : inf'[x].seen[j].phase = inf[x].seen[j].phase
      <3>1. CASE inf[k] = NoInformer BY <2>2, <3>1
      <3>2. CASE inf[k] # NoInformer
        <4>1. inf[k] \in Informer(k) BY <2>1, <3>2 DEF InformerType
        <4>2. inf[k].seen \in [ItemsOf(k) -> Seen] BY <4>1 DEF Informer
        <4>3. /\ inf'[k].seen = [inf[k].seen EXCEPT ![i] = [inf[k].seen[i] EXCEPT !.current = FALSE]]
              /\ \A x \in Clusters \ {k} : inf'[x] = inf[x]
          BY <2>1, <2>2, <3>2, <4>1 DEF InformerType, Informer
        <4>4. [inf[k].seen[i] EXCEPT !.current = FALSE].phase = inf[k].seen[i].phase
          BY <2>1, <4>2 DEF Seen
        <4> QED BY <2>1, <3>2, <4>2, <4>3, <4>4
      <3> QED BY <3>1, <3>2
    <2>4. \A x \in Clusters : h'[x] # NoEvent =>
            h[x] # NoEvent /\ h'[x].step = h[x].step /\ h'[x].item = h[x].item
      <3>1. CASE h[k] # NoEvent /\ h[k].item = i
        <4>1. h'[k] = [h[k] EXCEPT !.current = FALSE] /\ \A x \in Clusters \ {k} : h'[x] = h[x]
          BY <2>1, <2>2, <3>1 DEF InformerType
        <4>2. h'[k].step = h[k].step /\ h'[k].item = h[k].item
          BY <1>3, <2>1, <3>1, <4>1 DEF Event
        <4> QED BY <3>1, <4>1, <4>2
      <3>2. CASE ~(h[k] # NoEvent /\ h[k].item = i) BY <2>2, <3>2
      <3> QED BY <3>1, <3>2
    <2> QED BY <2>1, <2>3, <2>4 DEF HandlerKnows
  <1>6. CASE DeleteItem(i)
    <2>1. /\ UNCHANGED <<made, inf, h>> /\ item[i] # "absent"
          /\ \A j \in Items \ {i} : item'[j] = item[j]
      BY <1>2, <1>6 DEF DeleteItem, StoreItem
    <2> QED BY <1>3, <2>1 DEF HandlerKnows
  <1> QED BY <1>4, <1>5, <1>6 DEF Users

(* What informers see has been created, and a deletion they tell of has    *)
(* happened.                                                               *)
LEMMA InformersHandled ==
  ASSUME FwdInv, HandlerKnows,
         \/ CrashManager \/ MarkSynced
         \/ \E k \in Clusters : RunInformers(k)
  PROVE  HandlerKnows'
  <1> USE DEF FwdInv, FwdType
  <1>1. UNCHANGED <<item, made>> BY DEF CrashManager, MarkSynced, RunInformers
  <1>2. CASE CrashManager BY <1>1, <1>2 DEF CrashManager, HandlerKnows
  <1>3. CASE MarkSynced
    <2> DEFINE k == r.k
    <2>1. k \in Clusters /\ inf[k] # NoInformer /\ UNCHANGED h
      BY <1>3 DEF MarkSynced, InformerType, Idle
    <2>2. PICK late \in SUBSET ItemsOf(k) :
            inf' = [inf EXCEPT ![k] =
                      [synced |-> TRUE,
                       seen |-> [i \in ItemsOf(k) |->
                                   IF i \in late THEN [phase |-> "absent", current |-> TRUE]
                                                 ELSE inf[k].seen[i]]]]
      BY <1>3 DEF MarkSynced
    <2> HIDE DEF k
    <2>3. /\ \A x \in Clusters \ {k} : inf'[x] = inf[x]
          /\ \A i \in ItemsOf(k) : inf'[k].seen[i].phase \in {"absent", inf[k].seen[i].phase}
      BY <2>1, <2>2 DEF InformerType
    <2> QED BY <1>1, <2>1, <2>3 DEF HandlerKnows
  <1>4. ASSUME NEW k \in Clusters, RunInformers(k) PROVE HandlerKnows'
    <2>1. CASE UNCHANGED <<inf, h>> BY <1>1, <2>1 DEF HandlerKnows
    <2>2. CASE /\ inf' = [StopInformers EXCEPT ![k] = NewInformer(k)]
               /\ h' = [x \in Clusters |-> NoEvent]
      <3>1. /\ \A x \in Clusters \ {k} : inf'[x] = NoInformer
            /\ \A i \in ItemsOf(k) : i \in Items /\ inf'[k].seen[i].phase = item[i]
        BY <2>2 DEF StopInformers, NewInformer, ItemsOf
      <3> QED BY <1>1, <2>2, <3>1 DEF HandlerKnows
    <2>3. CASE inf' = StopInformers /\ h' = [x \in Clusters |-> NoEvent]
      <3>1. \A x \in Clusters : inf'[x] = NoInformer
        BY <2>3 DEF StopInformers
      <3> QED BY <1>1, <2>3, <3>1 DEF HandlerKnows
    <2> QED BY <1>4, <2>1, <2>2, <2>3 DEF RunInformers
  <1> QED BY <1>2, <1>3, <1>4

LEMMA EventsHandled ==
  ASSUME FwdInv, HandlerKnows, NEW k \in Clusters,
         Handle(k) \/ \E i \in ItemsOf(k) : Notify(k, i) \/ Resync(k, i)
  PROVE  HandlerKnows'
  <1> USE DEF FwdInv, FwdType
  <1>1. UNCHANGED <<item, made>> BY DEF Handle, Notify, Resync
  <1>2. CASE Handle(k)
    <2>1. h[k] \in Event /\ inf' = inf BY <1>2 DEF Handle, InformerType
    <2>2. HandlerDone(k) \/ HandlerNext(k, "secret") \/ HandlerNext(k, "delete secret")
      BY <1>2 DEF Handle, createUpdate, deleteCopy
    <2>3. CASE HandlerDone(k) BY <1>1, <2>1, <2>3 DEF HandlerDone, InformerType, HandlerKnows
    <2>4. ASSUME NEW step \in {"secret", "delete secret"}, HandlerNext(k, step)
          PROVE  HandlerKnows'
      <3>1. /\ h'[k] = [h[k] EXCEPT !.step = step, !.current = TRUE]
            /\ \A x \in Clusters \ {k} : h'[x] = h[x]
        BY <2>4 DEF HandlerNext, InformerType
      <3>2. h'[k].step = step BY <2>1, <3>1 DEF Event
      <3> QED BY <1>1, <2>1, <2>4, <3>1, <3>2 DEF HandlerKnows
    <2> QED BY <2>2, <2>3, <2>4
  <1>3. ASSUME NEW i \in ItemsOf(k), Resync(k, i) PROVE HandlerKnows'
    <2>1. inf' = inf /\ h' = [h EXCEPT ![k] = [item |-> i, step |-> "write",
                                              current |-> inf[k].seen[i].current]]
      BY <1>3 DEF Resync
    <2> QED BY <1>1, <2>1 DEF HandlerKnows, InformerType
  <1>4. ASSUME NEW i \in ItemsOf(k), Notify(k, i) PROVE HandlerKnows'
    <2>1. i \in Items /\ inf[k] # NoInformer /\ inf[k] \in Informer(k)
      BY <1>4 DEF ItemsOf, Notify, InformerType
    <2>2. inf' = [inf EXCEPT ![k].seen[i] = [phase |-> item[i], current |-> TRUE]]
      BY <1>4 DEF Notify
    <2>3. /\ inf'[k].seen = [inf[k].seen EXCEPT ![i] = [phase |-> item[i], current |-> TRUE]]
          /\ \A x \in Clusters \ {k} : inf'[x] = inf[x]
      BY <2>1, <2>2 DEF InformerType, Informer
    <2>4. \A j \in ItemsOf(k) : inf'[k].seen[j].phase \in {inf[k].seen[j].phase, item[j]}
      BY <2>1, <2>3 DEF Informer
    <2>5. \A x \in Clusters : inf'[x] # NoInformer =>
            \A j \in ItemsOf(x) : inf'[x].seen[j].phase # "absent" => made[j] > 0
      <3>1. \A j \in ItemsOf(k) : j \in Items BY DEF ItemsOf
      <3>2. \A j \in ItemsOf(k) : inf'[k].seen[j].phase # "absent" => made[j] > 0
        BY <2>1, <2>4, <3>1 DEF HandlerKnows
      <3>3. \A x \in Clusters \ {k} : inf'[x] # NoInformer =>
              \A j \in ItemsOf(x) : inf'[x].seen[j].phase # "absent" => made[j] > 0
        BY <2>3 DEF HandlerKnows
      <3> QED BY <3>2, <3>3
    <2>6. \/ h' = h
          \/ \E s \in Handled(inf[k].seen[i].phase, item[i]) :
               h' = [h EXCEPT ![k] = [item |-> i, step |-> s, current |-> TRUE]]
      BY <1>4 DEF Notify
    <2>7. CASE h' = h BY <1>1, <2>5, <2>7 DEF HandlerKnows
    <2>8. ASSUME NEW s \in Handled(inf[k].seen[i].phase, item[i]),
                 h' = [h EXCEPT ![k] = [item |-> i, step |-> s, current |-> TRUE]]
          PROVE  HandlerKnows'
      <3>1. /\ h'[k].item = i /\ h'[k].step = s
            /\ \A x \in Clusters \ {k} : h'[x] = h[x]
        BY <2>8 DEF InformerType
      <3>2. s = "delete" => item[i] = "absent" /\ inf[k].seen[i].phase # "absent"
        BY <2>8 DEF Handled
      <3>3. s = "delete" => item[i] = "absent" /\ made[i] > 0
        BY <2>1, <3>2 DEF HandlerKnows
      <3> QED BY <1>1, <2>5, <3>1, <3>3 DEF HandlerKnows
    <2> QED BY <2>6, <2>7, <2>8
  <1> QED BY <1>2, <1>3, <1>4

LEMMA PullKnowsStep ==
  ASSUME MaxMade \in {0, 1}, FwdInv, PullKnows, [Next]_vars
  PROVE  PullKnows'
  <1> SUFFICES ASSUME strategy = "pull", NoAgent, HandlerKnows PROVE NoAgent' /\ HandlerKnows'
    BY FlowStays DEF PullKnows
  <1>1. CASE UNCHANGED vars
    <2>1. kind' = kind BY FlowStays
    <2> QED BY <1>1, <2>1 DEF vars, NoAgent, HandlerKnows
  <1>2. CASE Next
    <2>1. ~ClaimWorker
      BY DEF NoAgent, Idle, ClaimWorker, AddFinalizer, WriteCopy, deleteExternalResources,
             RemoveFinalizer
    <2>2. ASSUME UNCHANGED <<item, made, inf, h>> PROVE HandlerKnows'
      BY <2>2 DEF HandlerKnows
    <2> QED BY <1>2, <2>1, <2>2, NoAgentStep, UsersHandled, InformersHandled, EventsHandled
      DEF Next, Reconcile, Stop, DeleteAgent, PushCatalog, Calm, DeletePod, CrashAgent,
          Collect, ControlPlane, Sync, ReconcileCatalog, ReconcileAgent,
          RemoveAgentFinalizer, Enqueue, control
  <1> QED BY <1>1, <1>2

(* Where items have names of their own, a copy is deleted only when its    *)
(* claim or service is, or the agent is.  What an agent's worker has read  *)
(* may be out of date, however often its claims are created again, but it  *)
(* knows enough.  What an informer's handler has been told is true, over   *)
(* all restarts of informers, as long as an item is created once: it       *)
(* deletes by name, and does not look at the item again.                   *)
THEOREM DeletesWithItem ==
  ASSUME \A i, j \in Items : NameOf[i] = NameOf[j] => i = j,
         \/ \A f \in Flows : f[1] = "push"
         \/ MaxMade \in {0, 1}
  PROVE  Spec => DeletedWithItem
  <1> DEFINE Kept(n) == \/ copy'[n] # NoCopy /\ copy'[n].phase = "live"
                        \/ item[copy[n].item] \in {"absent", "terminating"}
                        \/ dep \in {"terminating", "gone"}
  <1>1. ASSUME FwdInv, PullKnows, Next, NEW n \in Names,
               copy[n] # NoCopy, copy[n].phase = "live"
        PROVE  Kept(n)
    <2>1. strategy \in {"push", "pull"}
      BY <1>1 DEF FwdInv, FwdType, AgentType, strategy
    <2>2. ASSUME NEW k \in Clusters, Handle(k) PROVE Kept(n)
      <3> DEFINE i == h[k].item
      <3>1. h[k] \in Event /\ i \in Items /\ NameOf[i] \in Names /\ h[k].current \in BOOLEAN
        BY <1>1, <2>2 DEF Handle, FwdInv, FwdType, InformerType, Event
      <3>2. h[k].step = "delete" => item[i] = "absent"
        BY <1>1, <2>1, <2>2 DEF FwdInv, PullOff, PullKnows, HandlerKnows, Handle
      <3>3. copy \in [Names -> Copy \cup {NoCopy}] /\ NameOf[copy[n].item] = n
            /\ copy[n].item \in Items
        BY <1>1 DEF FwdInv, FwdType, AgentType, CopiesHeld, Copy
      <3> HIDE DEF i
      <3>4. CASE createUpdate(k)
        <4> DEFINE phase == IF copy[NameOf[i]] = NoCopy THEN "live" ELSE copy[NameOf[i]].phase
                   new == [item |-> i, phase |-> phase, current |-> h[k].current]
        <4>1. copy' = copy \/ copy' = [copy EXCEPT ![NameOf[i]] = new]
          BY <3>4 DEF createUpdate, i
        <4>2. CASE copy'[n] = new /\ NameOf[i] = n
          <5>1. phase = "live" BY <1>1, <4>2
          <5>2. copy'[n] \in Copy /\ copy'[n].phase = "live" BY <3>1, <4>2, <5>1 DEF Copy
          <5> QED BY <5>2, NoneAssumption
        <4>3. CASE copy'[n] = copy[n] BY <1>1, <4>3
        <4> HIDE DEF new
        <4> QED BY <3>1, <3>3, <4>1, <4>2, <4>3
      <3>5. CASE deleteCopy(k)
        <4>1. CASE copy'[n] = copy[n] BY <1>1, <4>1
        <4>2. CASE h[k].step = "delete" /\ NameOf[i] = n
          <5>1. i = copy[n].item BY <3>1, <3>3, <4>2
          <5> QED BY <3>2, <4>2, <5>1
        <4>3. copy'[n] = copy[n] \/ (h[k].step = "delete" /\ NameOf[i] = n)
          <5>1. CASE NameOf[i] # n BY <3>1, <3>3, <3>5, <5>1 DEF deleteCopy, i
          <5>2. CASE NameOf[i] = n BY <3>5, <5>2 DEF deleteCopy, i
          <5> QED BY <5>1, <5>2
        <4> QED BY <4>1, <4>2, <4>3
      <3>6. CASE copy' = copy BY <1>1, <3>6
      <3> QED BY <2>2, <3>4, <3>5, <3>6 DEF Handle
    <2>3. /\ copy \in [Names -> Copy \cup {NoCopy}]
          /\ copy[n] \in Copy /\ copy[n].item \in Items /\ NameOf[copy[n].item] = n
          /\ a.pc # "idle" => item[copy[n].item] \in Finalized
      <3>1. strategy = "pull" => a.pc = "idle" BY <1>1 DEF PullKnows, NoAgent, Idle
      <3> QED BY <1>1, <2>1, <3>1 DEF FwdInv, FwdType, AgentType, Copy, CopiesHeld, Copied
    <2>4. CASE copy' = copy BY <1>1, <2>4
    <2>5. ASSUME NEW m \in Names, ControlPlane(m) PROVE Kept(n)
      BY <1>1, <2>3, <2>5 DEF ControlPlane
    <2>6. ASSUME NEW i \in Items, EditItem(i) PROVE Kept(n)
      BY <1>1, <2>3, <2>6, EditedCopy, NoneAssumption DEF EditItem
    <2>7. CASE WriteCopy
      <3> DEFINE m == NameOf[a.i]
                 new == [item |-> a.i, phase |-> "live", current |-> a.current]
      <3>1. a.i \in Items /\ m \in Names /\ a.current \in BOOLEAN
        BY <1>1, <2>7, Busy DEF WriteCopy, FwdInv, FwdType
      <3>2. \/ copy' = copy
            \/ copy' = [copy EXCEPT ![m] = IF copy[m] = NoCopy THEN new
                                           ELSE [new EXCEPT !.phase = copy[m].phase]]
        BY <2>3, <2>7, <3>1 DEF WriteCopy
      <3>3. CASE m # n BY <1>1, <2>3, <3>2, <3>3
      <3>4. CASE m = n /\ copy' # copy
        <4>1. copy'[n] = [new EXCEPT !.phase = "live"] BY <1>1, <2>3, <3>2, <3>4
        <4>2. copy'[n] \in Copy /\ copy'[n].phase = "live" BY <3>1, <4>1 DEF Copy
        <4> QED BY <4>2, NoneAssumption
      <3> QED BY <2>4, <3>3, <3>4
    <2>8. CASE deleteExternalResources
      <3>1. a.i \in Items /\ NameOf[a.i] \in Names
        BY <1>1, <2>8, Busy DEF deleteExternalResources, FwdInv, FwdType
      <3>2. copy' = copy \/ copy' = [copy EXCEPT ![NameOf[a.i]].phase = "terminating"]
        BY <2>8 DEF deleteExternalResources
      <3>3. CASE NameOf[a.i] # n BY <1>1, <2>3, <3>1, <3>2, <3>3
      <3>4. CASE NameOf[a.i] = n
        <4>1. a.i = copy[n].item BY <2>3, <3>1, <3>4
        <4>2. item[a.i] # "live" \/ dep \in Ending
          BY <1>1, <2>8 DEF FwdInv, WorkerKnows, deleteExternalResources
        <4>3. a.pc # "idle" BY <2>8 DEF deleteExternalResources
        <4> QED BY <2>3, <4>1, <4>2, <4>3 DEF Finalized, Ending
      <3> QED BY <3>3, <3>4
    <2> QED
      BY <1>1, <2>2, <2>4, <2>5, <2>6, <2>7, <2>8
      DEF Next, Users, CreateItem, DeleteItem, Reconcile, Stop, DeleteAgent, PushCatalog,
          Calm, DeletePod, CrashAgent, Collect, Sync, ClaimWorker, AddFinalizer,
          RemoveFinalizer, UpdateItem, ReconcileCatalog, ReconcileAgent,
          RemoveAgentFinalizer, CrashManager, MarkSynced, Enqueue, RunInformers, Notify,
          Resync
  <1>2. FwdInv /\ PullKnows /\ [Next]_vars
          => [\A n \in Names : copy[n] # NoCopy /\ copy[n].phase = "live" => Kept(n)]_vars
    BY <1>1
  <1>3. Init => PullKnows
    <2> SUFFICES ASSUME Init, strategy = "pull" PROVE NoAgent /\ HandlerKnows
      BY DEF PullKnows
    <2>1. kind # "catalog" => ~up BY DEF Init
    <2>2. a = Idle /\ \A i \in Items : item[i] = "absent" /\ cache.item[i] = "absent"
      BY DEF Init
    <2>3. \A k \in Clusters : inf[k] = NoInformer /\ h[k] = NoEvent BY DEF Init
    <2> QED BY <2>1, <2>2, <2>3 DEF NoAgent, HandlerKnows
  <1>4. FwdInv /\ PullKnows /\ [Next]_vars => PullKnows'
    <2>1. CASE MaxMade \in {0, 1} BY <2>1, PullKnowsStep
    <2>2. CASE \A f \in Flows : f[1] = "push"
      <3> SUFFICES ASSUME FwdInv, [Next]_vars PROVE PullKnows'
        OBVIOUS
      <3>1. strategy = "push" BY <2>2 DEF FwdInv, FwdType, AgentType, strategy
      <3> QED BY <3>1, FlowStays DEF PullKnows
    <2> QED BY <2>1, <2>2
  <1> QED BY <1>2, <1>3, <1>4, FwdInvHolds, PTL DEF Spec, DeletedWithItem
=============================================================================
