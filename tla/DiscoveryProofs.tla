--------------------------- MODULE DiscoveryProofs ---------------------------
(* The service agent: TypeOK and UnregisteredStay, for any classes and     *)
(* resources; and DeletedWithClass where names are used by one class.      *)
EXTENDS ServiceDiscovery, TLAPS

BusyStep ==
  [pc : {"list", "branch", "items", "status"}, c : Classes,
   fresh : BOOLEAN, current : BOOLEAN, finalizer : BOOLEAN, ends : BOOLEAN,
   items : SUBSET Event, todo : SUBSET Event, err : BOOLEAN]

Ending == {"terminating", "gone"}

(* TypeOK in three parts: what is stored, RegisteredServices under the     *)
(* names of their resources, ...                                           *)
StoreType ==
  /\ obj \in [Objects -> Phase]
  /\ class \in [Classes -> Class] /\ dep \in Deployment
  /\ pushes \in 0 .. MaxPushes
  /\ reg \in [Names -> Registered \cup {NoReg}]
  /\ \A n \in Names : reg[n] # NoReg => NameOf[reg[n].obj] = n
  /\ cache \in [class : [Classes -> Class], dep : Deployment, current : SUBSET Classes]
  /\ stale \subseteq Classes \cup {Agent} /\ queue \subseteq Classes \cup {Agent}
  /\ d \in {Idle, [pc |-> "wait"]}
  /\ up \in BOOLEAN /\ calm \in BOOLEAN

(* ... what the class worker has listed, which is of its class, ...        *)
WorkerType ==
  /\ w \in ClassSteps
  /\ w.pc # "idle" => /\ w.todo \subseteq w.items
                      /\ \A i \in w.items : ClassOf[i.obj] = w.c

(* ... and what the informers have, and their handlers are busy with.      *)
InformerType ==
  /\ DOMAIN inf = Classes /\ h \in [Classes -> Event \cup {NoEvent}]
  /\ \A c \in Classes : inf[c] \in Informer(c) \cup {NoInformer}
  /\ \A c \in Classes : h[c] # NoEvent => inf[c] # NoInformer /\ ClassOf[h[c].obj] = c

(* The cache is behind only in what is still to be delivered, and a        *)
(* Deployment it shows as going is.                                        *)
CacheKnows ==
  /\ cache.dep \in Ending => dep \in Ending
  /\ \A c \in Classes \ stale : cache.class[c] = class[c]

(* While the worker unregisters the resources of a class, the class or the *)
(* agent is being deleted, and the class has no informer.                  *)
WorkerKnows ==
  /\ w.pc \in {"list", "branch", "items"} /\ w.ends
       => class[w.c].phase = "terminating" \/ dep \in Ending
  /\ w.pc = "branch" => w.todo = w.items
  /\ w.pc = "items" /\ w.ends => inf[w.c] = NoInformer /\ h[w.c] = NoEvent

(* What it has gone through is unregistered. *)
Unregistered ==
  w.pc = "items" /\ w.ends /\ ~w.err =>
    \A i \in w.items \ w.todo :
      reg[NameOf[i.obj]] = NoReg \/ ClassOf[reg[NameOf[i.obj]].obj] # w.c

DiscInv ==
  /\ StoreType /\ WorkerType /\ InformerType
  /\ CacheKnows /\ WorkerKnows /\ Unregistered

USE DiscoveryAssumption
-----------------------------------------------------------------------------
(* The worker's record. *)

LEMMA Busy ==
  ASSUME WorkerType
  PROVE  /\ w.pc # "idle" => w \in BusyStep
         /\ w.pc = "idle" => w = Idle
         /\ Idle.pc = "idle" /\ Idle \in ClassSteps
         /\ BusyStep \subseteq ClassSteps /\ \A s \in BusyStep : s.pc # "idle"
  BY DEF WorkerType, ClassSteps, BusyStep, Idle

LEMMA Branched ==
  ASSUME NEW s \in BusyStep, NEW t,
         \/ t = [s EXCEPT !.pc = "items"]
         \/ t = [s EXCEPT !.pc = "items", !.finalizer = TRUE]
  PROVE  /\ t \in BusyStep /\ t.pc = "items" /\ t.c = s.c /\ t.ends = s.ends
         /\ t.items = s.items /\ t.todo = s.todo
  <1>1. CASE t = [s EXCEPT !.pc = "items"] BY <1>1 DEF BusyStep
  <1>2. CASE t = [s EXCEPT !.pc = "items", !.finalizer = TRUE] BY <1>2 DEF BusyStep
  <1> QED BY <1>1, <1>2

LEMMA Unfinalized ==
  ASSUME NEW s \in BusyStep, NEW t, t = [s EXCEPT !.pc = "status", !.items = {}]
  PROVE  /\ t \in BusyStep /\ t.pc = "status" /\ t.items = {} /\ t.todo = s.todo
  BY DEF BusyStep

(* It goes on as before, with what it has read perhaps out of date.        *)
Follows(t) ==
  \/ t = w
  \/ /\ w.pc # "idle" /\ t \in BusyStep /\ t.pc = w.pc /\ t.c = w.c /\ t.ends = w.ends
     /\ t.err = w.err /\ t.items = w.items /\ t.todo = w.todo

LEMMA Outdates ==
  ASSUME WorkerType, NEW t,
         \/ t = w
         \/ w.pc # "idle" /\ t = [w EXCEPT !.fresh = FALSE]
         \/ w.pc # "idle" /\ t = [w EXCEPT !.fresh = FALSE, !.current = FALSE]
  PROVE  Follows(t)
  <1>1. CASE w.pc # "idle" /\ t = [w EXCEPT !.fresh = FALSE]
    <2>1. w \in BusyStep BY <1>1, Busy
    <2> QED BY <1>1, <2>1 DEF Follows, BusyStep
  <1>2. CASE w.pc # "idle" /\ t = [w EXCEPT !.fresh = FALSE, !.current = FALSE]
    <2>1. w \in BusyStep BY <1>2, Busy
    <2> QED BY <1>2, <2>1 DEF Follows, BusyStep
  <1> QED BY <1>1, <1>2 DEF Follows

(* Nobody starts an informer of the class for which it has been stopped,   *)
(* nor revives a class or an agent, while the worker is busy.              *)
LEMMA WorkerFrame ==
  ASSUME WorkerType, WorkerKnows, Follows(w'),
         dep \in Ending => dep' \in Ending,
         \A c \in Classes : class[c].phase = "terminating" => class'[c].phase = "terminating",
         \A c \in Classes : inf[c] = NoInformer /\ h[c] = NoEvent
                              => inf'[c] = NoInformer /\ h'[c] = NoEvent
  PROVE  WorkerType' /\ WorkerKnows'
  <1>1. CASE w' = w
    <2>1. w.pc # "idle" => w.c \in Classes BY Busy DEF BusyStep
    <2> QED BY <1>1, <2>1 DEF WorkerType, WorkerKnows
  <1>2. CASE w' # w
    <2>1. /\ w' \in BusyStep /\ w'.pc = w.pc /\ w'.c = w.c /\ w'.ends = w.ends
          /\ w'.items = w.items /\ w'.todo = w.todo /\ w.pc # "idle"
      BY <1>2 DEF Follows
    <2>2. w' \in ClassSteps /\ w'.c \in Classes BY <2>1, Busy DEF BusyStep
    <2> QED BY <2>1, <2>2 DEF WorkerType, WorkerKnows
  <1> QED BY <1>1, <1>2

(* Who else writes a RegisteredService does so for another class. *)
LEMMA UnregisteredFrame ==
  ASSUME WorkerType, Unregistered, Follows(w'),
         \A n \in Names :
           \/ reg'[n] = NoReg
           \/ reg[n] # NoReg /\ reg'[n].obj = reg[n].obj
           \/ w.pc = "items" /\ w.ends => ClassOf[reg'[n].obj] # w.c
  PROVE  Unregistered'
  <1> SUFFICES ASSUME w'.pc = "items", w'.ends, ~w'.err, NEW i \in w'.items \ w'.todo
               PROVE  \/ reg'[NameOf[i.obj]] = NoReg
                      \/ ClassOf[reg'[NameOf[i.obj]].obj] # w'.c
    BY DEF Unregistered
  <1>1. /\ w.pc = "items" /\ w.ends /\ ~w.err /\ i \in w.items \ w.todo
        /\ w'.c = w.c
    BY DEF Follows
  <1>2. w.items \subseteq Event BY <1>1, Busy DEF BusyStep
  <1>3. NameOf[i.obj] \in Names BY <1>1, <1>2 DEF Event
  <1> QED BY <1>1, <1>3 DEF Unregistered

(* An idle worker knows nothing. *)
LEMMA IdleFrame ==
  ASSUME w' = Idle
  PROVE  WorkerType' /\ WorkerKnows' /\ Unregistered'
  BY DEF WorkerType, WorkerKnows, Unregistered, Idle, ClassSteps
-----------------------------------------------------------------------------
(* The agent's Deployment and classes. *)

LEMMA DeletedType ==
  ASSUME NEW o \in Class
  PROVE  /\ Deleted(o) \in Class
         /\ o.phase = "terminating" => Deleted(o).phase = "terminating"
  BY DEF Deleted, Class, NoClass

(* A write of classes by someone else than the worker. *)
LEMMA StoreClassesInv ==
  ASSUME DiscInv, NEW f \in [Classes -> Class], StoreClasses(f),
         \A c \in Classes : class[c].phase = "terminating" => f[c].phase = "terminating",
         UNCHANGED <<obj, dep, reg, cache, inf, h, up, calm>>,
         pushes' \in 0 .. MaxPushes, queue' \subseteq Classes \cup {Agent},
         d' \in {Idle, [pc |-> "wait"]}
  PROVE  DiscInv'
  <1> USE DEF DiscInv
  <1> DEFINE written == {c \in Classes : f[c] # class[c]}
  <1>1. class' = f /\ stale' = stale \cup written BY DEF StoreClasses
  <1>2. Follows(w') BY Outdates DEF StoreClasses
  <1>3. WorkerType' /\ WorkerKnows' BY <1>1, <1>2, WorkerFrame
  <1>4. Unregistered' BY <1>2, UnregisteredFrame
  <1>5. StoreType' BY <1>1 DEF StoreType
  <1>6. InformerType' BY DEF InformerType
  <1>7. CacheKnows' BY <1>1 DEF CacheKnows
  <1> QED BY <1>3, <1>4, <1>5, <1>6, <1>7

LEMMA ClassesInv ==
  ASSUME DiscInv, \/ \E c \in Classes : PushClass(c)
                  \/ Collect \/ removeServiceClasses
  PROVE  DiscInv'
  <1> USE DEF DiscInv
  <1>1. class \in [Classes -> Class] BY DEF StoreType
  <1>2. ASSUME NEW c \in Classes, PushClass(c) PROVE DiscInv'
    <2>1. UNCHANGED <<obj, dep, reg, cache, inf, h, up, calm, queue, d>>
      BY <1>2 DEF PushClass, agent
    <2>2. queue' \subseteq Classes \cup {Agent} /\ d' \in {Idle, [pc |-> "wait"]}
      BY <2>1 DEF StoreType
    <2>3. CASE /\ class[c].phase = "absent" /\ pushes < MaxPushes
               /\ pushes' = pushes + 1
               /\ StoreClasses([class EXCEPT ![c].phase = "new"])
      <3>1. [class EXCEPT ![c].phase = "new"] \in [Classes -> Class]
        BY <1>1 DEF Class
      <3>2. \A x \in Classes : class[x].phase = "terminating"
              => [class EXCEPT ![c].phase = "new"][x].phase = "terminating"
        BY <1>1, <2>3 DEF Class
      <3>3. pushes' \in 0 .. MaxPushes BY <2>3 DEF StoreType
      <3> QED BY <2>1, <2>2, <2>3, <3>1, <3>2, <3>3, StoreClassesInv
    <2>4. CASE StoreClasses([class EXCEPT ![c] = Deleted(class[c])]) /\ UNCHANGED pushes
      <3>1. [class EXCEPT ![c] = Deleted(class[c])] \in [Classes -> Class]
        BY <1>1, DeletedType
      <3>2. \A x \in Classes : class[x].phase = "terminating"
              => [class EXCEPT ![c] = Deleted(class[c])][x].phase = "terminating"
        BY <1>1, DeletedType
      <3>3. pushes' \in 0 .. MaxPushes BY <2>4 DEF StoreType
      <3> QED BY <2>1, <2>2, <2>4, <3>1, <3>2, <3>3, StoreClassesInv
    <2> QED BY <1>1, <1>2, <2>3, <2>4 DEF PushClass
  <1>3. CASE Collect
    <2>1. PICK c \in Classes : StoreClasses([class EXCEPT ![c] = Deleted(class[c])])
      BY <1>1, <1>3 DEF Collect
    <2>2. UNCHANGED <<obj, dep, reg, cache, inf, h, up, calm, queue, d, pushes>>
      BY <1>3 DEF Collect, agent, world
    <2>3. /\ queue' \subseteq Classes \cup {Agent} /\ d' \in {Idle, [pc |-> "wait"]}
          /\ pushes' \in 0 .. MaxPushes
      BY <2>2 DEF StoreType
    <2>4. [class EXCEPT ![c] = Deleted(class[c])] \in [Classes -> Class]
      BY <1>1, DeletedType
    <2>5. \A x \in Classes : class[x].phase = "terminating"
            => [class EXCEPT ![c] = Deleted(class[c])][x].phase = "terminating"
      BY <1>1, DeletedType
    <2> QED BY <2>1, <2>2, <2>3, <2>4, <2>5, StoreClassesInv
  <1>4. CASE removeServiceClasses
    <2> DEFINE f == [c \in Classes |-> Deleted(class[c])]
    <2>1. f \in [Classes -> Class] BY <1>1, DeletedType
    <2>2. \A x \in Classes : class[x].phase = "terminating" => f[x].phase = "terminating"
      BY <1>1, DeletedType
    <2>3. /\ UNCHANGED <<obj, dep, reg, cache, inf, h, up, calm, pushes>>
          /\ StoreClasses(f)
      BY <1>4 DEF removeServiceClasses, world
    <2>4. /\ queue' \subseteq Classes \cup {Agent} /\ d' \in {Idle, [pc |-> "wait"]}
          /\ pushes' \in 0 .. MaxPushes
      BY <1>4, <2>3 DEF StoreType, removeServiceClasses
    <2> HIDE DEF f
    <2> QED BY <2>1, <2>2, <2>3, <2>4, StoreClassesInv
  <1> QED BY <1>2, <1>3, <1>4

(* Steps that leave classes, RegisteredServices, worker and informers      *)
(* alone.                                                                  *)
LEMMA QuietInv ==
  ASSUME DiscInv, StoreType', CacheKnows', UNCHANGED <<class, reg, w, inf, h>>,
         dep \in Ending => dep' \in Ending
  PROVE  DiscInv'
  <1> USE DEF DiscInv
  <1>1. WorkerType' /\ WorkerKnows' BY WorkerFrame DEF Follows
  <1>2. Unregistered' BY UnregisteredFrame DEF Follows
  <1>3. InformerType' BY DEF InformerType
  <1> QED BY <1>1, <1>2, <1>3

LEMMA StopInv ==
  ASSUME DiscInv, Stop
  PROVE  DiscInv'
  <1> USE DEF DiscInv
  <1>1. StoreType' BY DEF StoreType, Stop, Stopped, world
  <1>2. InformerType' BY DEF InformerType, Stop, Stopped
  <1>3. CacheKnows' BY DEF CacheKnows, Stop
  <1> QED BY <1>1, <1>2, <1>3, IdleFrame DEF Stop, Stopped

LEMMA AgentInv ==
  ASSUME DiscInv,
         \/ DeleteAgent \/ Calm \/ DeletePod \/ Crash
         \/ \E n \in Classes \cup {Agent} : Sync(n)
         \/ ReconcileAgent \/ AddAgentFinalizer \/ RemoveAgentFinalizer
  PROVE  DiscInv'
  <1> USE DEF DiscInv
  <1>1. CASE DeleteAgent
    <2>1. StoreType' BY <1>1 DEF StoreType, DeleteAgent, agent, world, Deployment
    <2>2. CacheKnows' /\ (dep \in Ending => dep' \in Ending)
      BY <1>1 DEF CacheKnows, DeleteAgent, agent, Ending
    <2> QED BY <1>1, <2>1, <2>2, QuietInv DEF DeleteAgent, agent
  <1>2. CASE Calm
    <2>1. StoreType' BY <1>2 DEF StoreType, Calm, agent
    <2>2. CacheKnows' BY <1>2 DEF CacheKnows, Calm, agent
    <2> QED BY <1>2, <2>1, <2>2, QuietInv DEF Calm, agent
  <1>3. CASE DeletePod BY <1>3, StopInv DEF DeletePod
  <1>4. CASE Crash
    <2>1. StoreType' BY <1>4 DEF StoreType, Crash, Stopped, world
    <2>2. InformerType' BY <1>4 DEF InformerType, Crash, Stopped
    <2>3. CacheKnows' BY <1>4 DEF CacheKnows, Crash
    <2> QED BY <1>4, <2>1, <2>2, <2>3, IdleFrame DEF Crash, Stopped
  <1>5. ASSUME NEW n \in Classes \cup {Agent}, Sync(n) PROVE DiscInv'
    <2>1. UNCHANGED <<class, reg, w, inf, h, dep>> /\ stale' = stale \ {n}
      BY <1>5 DEF Sync
    <2>2. CASE n = Agent
      <3>1. cache' = [cache EXCEPT !.dep = dep] BY <1>5, <2>2 DEF Sync
      <3>2. Agent \notin Classes BY DEF Agent
      <3>3. StoreType' BY <1>5, <2>1, <3>1 DEF StoreType, Sync, world
      <3>4. CacheKnows' BY <2>1, <2>2, <3>1, <3>2 DEF CacheKnows, StoreType
      <3> QED BY <2>1, <3>3, <3>4, QuietInv
    <2>3. CASE n # Agent
      <3>1. n \in Classes BY <2>3
      <3>2. cache' = [cache EXCEPT !.class[n] = class[n], !.current = @ \cup {n}]
        BY <1>5, <2>3 DEF Sync
      <3>3. /\ cache'.dep = cache.dep /\ cache'.class = [cache.class EXCEPT ![n] = class[n]]
            /\ cache'.current = cache.current \cup {n}
            /\ cache' \in [class : [Classes -> Class], dep : Deployment,
                           current : SUBSET Classes]
        BY <3>1, <3>2 DEF StoreType
      <3>4. StoreType' BY <1>5, <2>1, <3>3 DEF StoreType, Sync, world
      <3>5. CacheKnows' BY <2>1, <3>1, <3>3 DEF CacheKnows, StoreType
      <3> QED BY <2>1, <3>4, <3>5, QuietInv
    <2> QED BY <2>2, <2>3
  <1>6. CASE ReconcileAgent
    <2>1. CASE Stop BY <2>1, StopInv
    <2>2. CASE ~Stop
      <3>1. StoreType' BY <1>6, <2>2 DEF StoreType, ReconcileAgent, world
      <3>2. CacheKnows' BY <1>6, <2>2 DEF CacheKnows, ReconcileAgent
      <3> QED BY <1>6, <2>2, <3>1, <3>2, QuietInv DEF ReconcileAgent
    <2> QED BY <2>1, <2>2
  <1>7. CASE AddAgentFinalizer
    <2>1. StoreType' BY <1>7 DEF StoreType, AddAgentFinalizer, world, Deployment
    <2>2. CacheKnows' /\ (dep \in Ending => dep' \in Ending)
      BY <1>7 DEF CacheKnows, AddAgentFinalizer, Ending
    <2> QED BY <1>7, <2>1, <2>2, QuietInv DEF AddAgentFinalizer
  <1>8. CASE RemoveAgentFinalizer
    <2>1. StoreType'
      BY <1>8 DEF StoreType, RemoveAgentFinalizer, RequeueAgent, world, Deployment
    <2>2. CacheKnows' /\ (dep \in Ending => dep' \in Ending)
      BY <1>8 DEF CacheKnows, RemoveAgentFinalizer, Ending
    <2> QED BY <1>8, <2>1, <2>2, QuietInv DEF RemoveAgentFinalizer
  <1> QED BY <1>1, <1>2, <1>3, <1>4, <1>5, <1>6, <1>7, <1>8
-----------------------------------------------------------------------------
(* Users of the resources, and updates of classes. *)

(* What has been read of an edited resource is out of date, not elsewhere. *)
LEMMA OutdatedInv ==
  ASSUME DiscInv, NEW o \in Objects, Outdated(o), obj' \in [Objects -> Phase],
         UNCHANGED <<class, dep, pushes, up, cache, stale, queue, d, calm>>
  PROVE  DiscInv'
  <1> USE DEF DiscInv
  <1> DEFINE old(i) == IF i.obj = o THEN [i EXCEPT !.current = FALSE] ELSE i
  <1>1. \A i \in Event : old(i) \in Event /\ old(i).obj = i.obj BY DEF Event
  <1>2. /\ reg' \in [Names -> Registered \cup {NoReg}]
        /\ \A n \in Names : reg'[n] # NoReg => reg[n] # NoReg /\ reg'[n].obj = reg[n].obj
    <2>1. \A x \in Registered : /\ [x EXCEPT !.current = FALSE] \in Registered
                                /\ [x EXCEPT !.current = FALSE].obj = x.obj
      BY DEF Registered
    <2>2. \A n \in Names : reg[n] # NoReg => reg[n] \in Registered BY DEF StoreType
    <2> QED BY <2>1, <2>2 DEF Outdated, StoreType
  <1>3. StoreType' BY <1>2 DEF StoreType
  <1>4. CacheKnows' BY DEF CacheKnows
  <1>5. /\ h' \in [Classes -> Event \cup {NoEvent}]
        /\ \A c \in Classes : /\ h[c] = NoEvent => h'[c] = NoEvent
                              /\ h[c] # NoEvent => h'[c].obj = h[c].obj
    <2>1. h' = [c \in Classes |-> IF h[c] = NoEvent THEN NoEvent ELSE old(h[c])]
      BY DEF Outdated
    <2>2. \A c \in Classes : h[c] # NoEvent => h[c] \in Event BY DEF InformerType
    <2> HIDE DEF old
    <2> QED BY <1>1, <2>1, <2>2
  <1>6. /\ DOMAIN inf' = Classes
        /\ \A c \in Classes : inf'[c] \in Informer(c) \cup {NoInformer}
        /\ \A c \in Classes : inf'[c] = NoInformer <=> inf[c] = NoInformer
    <2>1. inf' = [c \in Classes |-> IF c # ClassOf[o] \/ inf[c] = NoInformer THEN inf[c]
                                    ELSE [inf[c] EXCEPT !.seen[o].current = FALSE]]
      BY DEF Outdated
    <2>2. ASSUME NEW c \in Classes, c = ClassOf[o], inf[c] # NoInformer
          PROVE  [inf[c] EXCEPT !.seen[o].current = FALSE] \in Informer(c)
      <3>1. inf[c] \in Informer(c) /\ o \in ObjectsOf(c) BY <2>2 DEF InformerType, ObjectsOf
      <3>2. inf[c].seen \in [ObjectsOf(c) -> Seen] BY <3>1 DEF Informer
      <3>3. [inf[c].seen EXCEPT ![o].current = FALSE] \in [ObjectsOf(c) -> Seen]
        BY <3>1, <3>2 DEF Seen
      <3>4. [inf[c] EXCEPT !.seen[o].current = FALSE]
              = [inf[c] EXCEPT !.seen = [inf[c].seen EXCEPT ![o].current = FALSE]]
        OBVIOUS
      <3> QED BY <3>1, <3>3, <3>4 DEF Informer
    <2> QED BY <2>1, <2>2, NoneAssumption DEF InformerType
  <1>7. InformerType' BY <1>5, <1>6 DEF InformerType
  <1>8. CASE w.pc = "idle"
    <2>1. w' = Idle BY <1>8, Busy DEF Outdated
    <2> QED BY <1>3, <1>4, <1>7, <2>1, IdleFrame
  <1>9. CASE w.pc # "idle"
    <2> DEFINE items == {old(i) : i \in w.items}
               todo == {old(i) : i \in w.todo}
    <2>1. w \in BusyStep /\ w' = [w EXCEPT !.items = items, !.todo = todo]
      BY <1>9, Busy DEF Outdated
    <2>2. w.items \subseteq Event /\ w.todo \subseteq w.items
      BY <1>9, <2>1 DEF BusyStep, WorkerType
    <2>3. /\ items \subseteq Event /\ todo \subseteq items
          /\ \A j \in items : \E i \in w.items : j.obj = i.obj
      BY <1>1, <2>2
    <2>4. \A j \in items \ todo : \E i \in w.items \ w.todo : j.obj = i.obj
      BY <1>1, <2>2
    <2>5. w.todo = w.items => todo = items OBVIOUS
    <2> HIDE DEF items, todo
    <2>6. /\ w' \in BusyStep /\ w'.items = items /\ w'.todo = todo /\ w'.pc = w.pc
          /\ w'.c = w.c /\ w'.ends = w.ends /\ w'.err = w.err /\ w.c \in Classes
      BY <2>1, <2>3 DEF BusyStep
    <2>7. WorkerType'
      BY <1>9, <2>3, <2>6, Busy DEF WorkerType
    <2>8. WorkerKnows' BY <1>5, <1>6, <2>5, <2>6 DEF WorkerKnows
    <2>9. Unregistered'
      <3> SUFFICES ASSUME w.pc = "items", w.ends, ~w.err, NEW j \in items \ todo
                   PROVE  \/ reg'[NameOf[j.obj]] = NoReg
                          \/ ClassOf[reg'[NameOf[j.obj]].obj] # w.c
        BY <2>6 DEF Unregistered
      <3>1. PICK i \in w.items \ w.todo : j.obj = i.obj BY <2>4
      <3>2. NameOf[i.obj] \in Names BY <2>2, <3>1 DEF Event
      <3> QED BY <1>2, <3>1, <3>2 DEF Unregistered
    <2> QED BY <1>3, <1>4, <1>7, <2>7, <2>8, <2>9
  <1> QED BY <1>8, <1>9

LEMMA UsersInv ==
  ASSUME DiscInv, NEW o \in Objects, Users(o)
  PROVE  DiscInv'
  <1>1. CASE CreateObject(o)
    <2>1. StoreType' BY <1>1 DEF DiscInv, StoreType, Users, CreateObject, Phase
    <2>2. CacheKnows' BY DEF DiscInv, CacheKnows, Users
    <2> QED BY <1>1, <2>1, <2>2, QuietInv DEF Users, CreateObject
  <1>2. CASE EditObject(o)
    BY <1>2, OutdatedInv DEF Users, EditObject, DiscInv, StoreType
  <1>3. CASE DeleteObject(o)
    <2>1. obj' \in [Objects -> Phase] BY <1>3 DEF DeleteObject, DiscInv, StoreType, Phase
    <2> QED BY <1>3, <2>1, OutdatedInv DEF Users, DeleteObject
  <1> QED BY <1>1, <1>2, <1>3 DEF Users

LEMMA UpdateClassInv ==
  ASSUME DiscInv, NEW c \in Classes, UpdateClass(c)
  PROVE  DiscInv'
  <1> USE DEF DiscInv
  <1>1. Follows(w') BY Outdates DEF UpdateClass
  <1>2. /\ reg' \in [Names -> Registered \cup {NoReg}]
        /\ \A n \in Names : reg'[n] # NoReg => reg[n] # NoReg /\ reg'[n].obj = reg[n].obj
    <2>1. \A x \in Registered : /\ [x EXCEPT !.class = FALSE] \in Registered
                                /\ [x EXCEPT !.class = FALSE].obj = x.obj
      BY DEF Registered
    <2>2. \A n \in Names : reg[n] # NoReg => reg[n] \in Registered BY DEF StoreType
    <2> QED BY <2>1, <2>2 DEF UpdateClass, StoreType
  <1>3. /\ DOMAIN inf' = Classes
        /\ \A x \in Classes : inf'[x] \in Informer(x) \cup {NoInformer}
        /\ \A x \in Classes : inf'[x] = NoInformer <=> inf[x] = NoInformer
    <2>1. CASE inf[c] = NoInformer BY <2>1 DEF UpdateClass, InformerType
    <2>2. CASE inf[c] # NoInformer
      <3>1. inf' = [inf EXCEPT ![c] = [inf[c] EXCEPT !.current = FALSE]]
        BY <2>2 DEF UpdateClass, InformerType
      <3>2. [inf[c] EXCEPT !.current = FALSE] \in Informer(c)
        BY <2>2 DEF InformerType, Informer
      <3>3. inf'[c] \in Informer(c) /\ DOMAIN inf' = Classes
              /\ \A x \in Classes \ {c} : inf'[x] = inf[x]
        BY <3>1, <3>2 DEF InformerType
      <3> QED BY <2>2, <3>3, NoneAssumption DEF InformerType
    <2> QED BY <2>1, <2>2
  <1>4. cache'.dep = cache.dep /\ cache'.class = cache.class
          /\ cache' \in [class : [Classes -> Class], dep : Deployment, current : SUBSET Classes]
    BY DEF UpdateClass, StoreType
  <1>5. StoreType' BY <1>2, <1>4 DEF StoreType, UpdateClass, world
  <1>6. CacheKnows' BY <1>4 DEF CacheKnows, UpdateClass
  <1>7. InformerType' BY <1>3 DEF InformerType, UpdateClass
  <1>8. WorkerType' /\ WorkerKnows' BY <1>1, <1>3, WorkerFrame DEF UpdateClass
  <1>9. Unregistered' BY <1>1, <1>2, UnregisteredFrame
  <1> QED BY <1>5, <1>6, <1>7, <1>8, <1>9
-----------------------------------------------------------------------------
(* The informers and their handlers. *)

LEMMA InformersInv ==
  ASSUME DiscInv, NEW c \in Classes, Informers(c)
  PROVE  DiscInv'
  <1> USE DEF DiscInv
  <1>1. PICK o \in ObjectsOf(c) : Notify(c, o) \/ Resync(c, o) BY DEF Informers
  <1>2. o \in Objects /\ ClassOf[o] = c BY DEF ObjectsOf
  <1>3. /\ UNCHANGED <<class, dep, reg, up, cache, stale, queue, w, d, world>>
        /\ inf[c] # NoInformer
    BY <1>1 DEF Notify, Resync
  <1>4. inf[c] \in Informer(c) BY <1>3 DEF InformerType
  <1>5. /\ DOMAIN inf' = Classes
        /\ \A x \in Classes : inf'[x] \in Informer(x) \cup {NoInformer}
        /\ \A x \in Classes : inf'[x] = NoInformer <=> inf[x] = NoInformer
    <2> DEFINE seen == [phase |-> obj[o], current |-> TRUE]
    <2>1. CASE inf' = inf BY <2>1 DEF InformerType
    <2>2. CASE inf' = [inf EXCEPT ![c].seen[o] = seen]
      <3>1. seen \in Seen BY <1>2 DEF StoreType, Seen
      <3> HIDE DEF seen
      <3>2. inf[c].seen \in [ObjectsOf(c) -> Seen] BY <1>4 DEF Informer
      <3>3. [inf[c].seen EXCEPT ![o] = seen] \in [ObjectsOf(c) -> Seen] BY <3>1, <3>2
      <3>4. inf'[c] = [inf[c] EXCEPT !.seen = [inf[c].seen EXCEPT ![o] = seen]]
        BY <2>2 DEF InformerType
      <3>5. inf'[c] \in Informer(c) BY <1>4, <3>3, <3>4 DEF Informer
      <3>6. DOMAIN inf' = Classes /\ \A x \in Classes \ {c} : inf'[x] = inf[x]
        BY <2>2 DEF InformerType
      <3> QED BY <1>3, <3>5, <3>6, NoneAssumption DEF InformerType
    <2> QED BY <1>1, <2>1, <2>2 DEF Notify, Resync
  <1>6. /\ h' \in [Classes -> Event \cup {NoEvent}]
        /\ h'[c] # NoEvent => h'[c].obj = o \/ h'[c] = h[c]
        /\ \A x \in Classes \ {c} : h'[x] = h[x]
    <2>1. inf[c].seen[o].current \in BOOLEAN BY <1>4 DEF Informer, Seen
    <2>2. \A b \in BOOLEAN : [obj |-> o, current |-> b] \in Event BY <1>2 DEF Event
    <2>3. \/ h' = h
          \/ \E b \in BOOLEAN : h' = [h EXCEPT ![c] = [obj |-> o, current |-> b]]
      BY <1>1, <2>1 DEF Notify, Resync
    <2> QED BY <2>2, <2>3 DEF InformerType
  <1>7. InformerType' BY <1>2, <1>3, <1>5, <1>6 DEF InformerType
  <1>8. StoreType' BY <1>3 DEF StoreType, world
  <1>9. CacheKnows' BY <1>3 DEF CacheKnows
  <1>10. WorkerType' /\ WorkerKnows' BY <1>3, <1>5, <1>6, WorkerFrame DEF Follows
  <1>11. Unregistered' BY <1>3, UnregisteredFrame DEF Follows
  <1> QED BY <1>7, <1>8, <1>9, <1>10, <1>11

(* The RegisteredService that is made from a resource. *)
LEMMA Prepared ==
  ASSUME NEW i \in Event, NEW b \in BOOLEAN
  PROVE  /\ PrepareRegisteredService(i, b) \in Registered
         /\ PrepareRegisteredService(i, b).obj = i.obj
         /\ i.obj \in Objects /\ NameOf[i.obj] \in Names
  BY DEF PrepareRegisteredService, Registered, Event

LEMMA HandlerInv ==
  ASSUME DiscInv, NEW c \in Classes, CreateOrUpdateRegisteredService(c)
  PROVE  DiscInv'
  <1> USE DEF DiscInv
  <1> DEFINE n == NameOf[h[c].obj]
             new == PrepareRegisteredService(h[c], inf[c].current)
  <1>1. /\ h[c] \in Event /\ inf[c] \in Informer(c) /\ inf[c] # NoInformer
        /\ ClassOf[h[c].obj] = c
    BY DEF CreateOrUpdateRegisteredService, InformerType
  <1>2. inf[c].current \in BOOLEAN BY <1>1 DEF Informer
  <1>3. new \in Registered /\ new.obj = h[c].obj /\ n \in Names BY <1>1, <1>2, Prepared
  <1>4. /\ UNCHANGED <<class, dep, up, cache, stale, queue, w, d, inf, world>>
        /\ h' = [h EXCEPT ![c] = NoEvent]
        /\ reg' = reg \/ reg' = [reg EXCEPT ![n] = new]
    BY DEF CreateOrUpdateRegisteredService
  <1> HIDE DEF n, new
  <1>12. n = NameOf[h[c].obj] BY DEF n
  <1>5. StoreType' BY <1>3, <1>4, <1>12 DEF StoreType, world
  <1>6. CacheKnows' BY <1>4 DEF CacheKnows
  <1>7. InformerType' BY <1>4 DEF InformerType
  <1>8. WorkerType' /\ WorkerKnows' BY <1>4, <1>7, WorkerFrame DEF Follows, InformerType
  <1>9. w.pc = "items" /\ w.ends => w.c # c BY <1>1 DEF WorkerKnows
  <1>10. \A m \in Names : \/ reg'[m] = reg[m]
                          \/ w.pc = "items" /\ w.ends => ClassOf[reg'[m].obj] # w.c
    BY <1>1, <1>3, <1>4, <1>9 DEF StoreType
  <1>11. Unregistered' BY <1>4, <1>10, UnregisteredFrame DEF Follows
  <1> QED BY <1>5, <1>6, <1>7, <1>8, <1>11
-----------------------------------------------------------------------------
(* The ServiceClass controller. *)

(* The owner is all that setOwnerReference writes. *)
LEMMA OwnerWritten ==
  ASSUME StoreType, NEW c \in Classes, class' = [class EXCEPT ![c].owned = TRUE]
  PROVE  /\ class' \in [Classes -> Class] /\ class'[c].phase = class[c].phase
         /\ \A x \in Classes \ {c} : class'[x] = class[x]
         /\ class[c].owned => class'[c] = class[c]
  <1>1. class[c] \in Class BY DEF StoreType
  <1>2. /\ [class[c] EXCEPT !.owned = TRUE] \in Class
        /\ [class[c] EXCEPT !.owned = TRUE].phase = class[c].phase
        /\ class[c].owned => [class[c] EXCEPT !.owned = TRUE] = class[c]
    BY <1>1 DEF Class
  <1>3. class' = [class EXCEPT ![c] = [class[c] EXCEPT !.owned = TRUE]]
    BY DEF StoreType
  <1> QED BY <1>2, <1>3 DEF StoreType

(* What is current in the cache is so when it is read: a class that ends   *)
(* is being deleted, or the agent is.                                      *)
LEMMA ReconcileInv ==
  ASSUME DiscInv, NEW c \in Classes, Reconcile(c)
  PROVE  DiscInv'
  <1> USE DEF DiscInv
  <1>1. CASE Stop BY <1>1, StopInv
  <1>2. CASE ~Stop /\ cache.class[c] = NoClass
    <2>1. UNCHANGED <<class, dep, reg, up, cache, stale, w, d, inf, h, world>>
            /\ queue' = queue \ {c}
      BY <1>2 DEF Reconcile
    <2>2. StoreType' BY <2>1 DEF StoreType, world
    <2>3. CacheKnows' BY <2>1 DEF CacheKnows
    <2> QED BY <2>1, <2>2, <2>3, QuietInv
  <1>3. CASE ~Stop /\ cache.class[c] # NoClass
    <2>1. /\ setOwnerReference(c) \/ setOwnerUnwatched(c)
          /\ UNCHANGED <<dep, reg, up, cache, d, h, world>>
          /\ w.pc = "idle"
      BY <1>3 DEF Reconcile
    <2>2. CASE setOwnerReference(c) /\ c \in stale
      <3>1. UNCHANGED <<class, stale, inf, w, queue>> BY <2>1, <2>2 DEF setOwnerReference
      <3>2. StoreType' BY <2>1, <3>1 DEF StoreType, world
      <3>3. CacheKnows' BY <2>1, <3>1 DEF CacheKnows
      <3> QED BY <2>1, <3>1, <3>2, <3>3, QuietInv
    <2>3. CASE setOwnerReference(c) /\ c \notin stale
      <3> DEFINE ends == "terminating" \in {cache.class[c].phase, cache.dep}
                 t == [pc |-> "list", c |-> c, fresh |-> TRUE, current |-> c \in cache.current,
                       finalizer |-> cache.class[c].phase # "new", ends |-> ends,
                       items |-> {}, todo |-> {}, err |-> FALSE]
      <3>1. /\ class' = [class EXCEPT ![c].owned = TRUE]
            /\ stale' = IF class[c].owned THEN stale ELSE stale \cup {c}
            /\ SetWatchersForResources(c)
            /\ w' = t
            /\ queue' = queue \ {c}
        BY <2>1, <2>3 DEF setOwnerReference
      <3>2. cache.class[c] = class[c] BY <2>3 DEF CacheKnows
      <3>3. /\ class' \in [Classes -> Class] /\ class'[c].phase = class[c].phase
            /\ \A x \in Classes \ {c} : class'[x] = class[x]
            /\ class[c].owned => class'[c] = class[c]
        BY <3>1, OwnerWritten
      <3>4. /\ t \in BusyStep /\ t.pc = "list" /\ t.c = c /\ t.ends = ends
            /\ t.items = {} /\ t.todo = {}
        BY DEF BusyStep
      <3>5. ends => class[c].phase = "terminating" \/ dep \in Ending
        BY <3>2 DEF CacheKnows, Ending
      <3> HIDE DEF t, ends
      <3>6. StoreType' BY <2>1, <3>1, <3>3 DEF StoreType, world
      <3>7. CacheKnows' BY <2>1, <3>1, <3>3 DEF CacheKnows
      <3>8. WorkerType' BY <3>1, <3>4, Busy DEF WorkerType
      <3>9. WorkerKnows' BY <2>1, <3>1, <3>3, <3>4, <3>5 DEF WorkerKnows
      <3>10. Unregistered' BY <3>1, <3>4 DEF Unregistered
      <3>11. InformerType'
        <4> DEFINE new == [current |-> c \in cache.current,
                           seen |-> [o \in ObjectsOf(c) |->
                                       [phase |-> obj[o], current |-> TRUE]]]
        <4>1. new \in Informer(c) BY DEF Informer, Seen, ObjectsOf, StoreType
        <4>2. inf' = inf \/ inf' = [inf EXCEPT ![c] = new]
          BY <3>1 DEF SetWatchersForResources
        <4> HIDE DEF new
        <4>3. inf' = inf \/ (DOMAIN inf' = Classes /\ inf'[c] = new
                              /\ \A x \in Classes \ {c} : inf'[x] = inf[x])
          BY <4>2 DEF InformerType
        <4> QED BY <2>1, <4>1, <4>3, NoneAssumption DEF InformerType
      <3> QED BY <3>6, <3>7, <3>8, <3>9, <3>10, <3>11
    <2>4. CASE setOwnerUnwatched(c)
      <3>1. /\ class' = [class EXCEPT ![c].owned = TRUE] /\ c \notin stale
            /\ stale' = IF class[c].owned THEN stale ELSE stale \cup {c}
            /\ UNCHANGED <<inf, w, queue>>
        BY <2>4 DEF setOwnerUnwatched
      <3>2. /\ class' \in [Classes -> Class] /\ class'[c].phase = class[c].phase
            /\ \A x \in Classes \ {c} : class'[x] = class[x]
            /\ class[c].owned => class'[c] = class[c]
        BY <3>1, OwnerWritten
      <3>3. StoreType' BY <2>1, <3>1, <3>2 DEF StoreType, world
      <3>4. CacheKnows' BY <2>1, <3>1, <3>2 DEF CacheKnows
      <3>5. InformerType' BY <2>1, <3>1 DEF InformerType
      <3>6. w' = Idle BY <2>1, <3>1, Busy
      <3> QED BY <2>1, <3>3, <3>4, <3>5, <3>6, IdleFrame
    <2> QED BY <2>1, <2>2, <2>3, <2>4
  <1> QED BY <1>1, <1>2, <1>3

(* An attempt that failed is repeated. *)
LEMMA RequeueInv ==
  ASSUME DiscInv, w.pc # "idle", Requeue,
         UNCHANGED <<class, dep, reg, up, cache, stale, d, inf, h, world>>
  PROVE  DiscInv'
  <1> USE DEF DiscInv
  <1>1. w.c \in Classes BY Busy DEF BusyStep
  <1>2. StoreType' BY <1>1 DEF StoreType, world, Requeue
  <1>3. CacheKnows' BY DEF CacheKnows
  <1>4. InformerType' BY DEF InformerType
  <1> QED BY <1>2, <1>3, <1>4, IdleFrame DEF Requeue

(* The worker's own write of its class. *)
LEMMA UpdateInv ==
  ASSUME DiscInv, NEW o \in Class, w.c \in Classes, Update(o),
         UNCHANGED <<dep, reg, up, cache, d, inf, h, queue, world>>
  PROVE  StoreType' /\ CacheKnows' /\ InformerType'
  <1> USE DEF DiscInv
  <1>1. class' = [class EXCEPT ![w.c] = o] /\ stale' = stale \cup {w.c} BY DEF Update
  <1>2. StoreType' BY <1>1 DEF StoreType, world
  <1>3. CacheKnows' BY <1>1 DEF CacheKnows, StoreType
  <1>4. InformerType' BY DEF InformerType
  <1> QED BY <1>2, <1>3, <1>4

LEMMA ClassWorkerInv ==
  ASSUME DiscInv, ClassWorker
  PROVE  DiscInv'
  <1> USE DEF DiscInv
  <1>1. w.pc # "idle" BY DEF ClassWorker, GetResources, AddFinalizer, StopInformer,
                             HandleRegisteredServices, RemoveFinalizer, UpdateStatus
  <1>2. /\ w \in BusyStep /\ w.c \in Classes /\ w.items \subseteq Event
        /\ w.todo \subseteq w.items /\ \A i \in w.items : ClassOf[i.obj] = w.c
        /\ w.current \in BOOLEAN
    BY <1>1, Busy DEF BusyStep, WorkerType
  <1>3. CASE GetResources
    <2>1. UNCHANGED <<class, dep, reg, up, cache, stale, d, inf, h, world>>
      BY <1>3 DEF GetResources
    <2>2. CASE Requeue BY <1>1, <2>1, <2>2, RequeueInv
    <2>3. CASE ~Requeue
      <3> DEFINE items == {[obj |-> o, current |-> TRUE] :
                             o \in {x \in ObjectsOf(w.c) : obj[x] = "live"}}
      <3>1. /\ w' = [w EXCEPT !.pc = "branch", !.items = items, !.todo = items]
            /\ queue' = queue /\ w.pc = "list"
        BY <1>3, <2>3 DEF GetResources
      <3>2. items \subseteq Event /\ \A i \in items : ClassOf[i.obj] = w.c
        <4>1. \A o \in Objects : /\ [obj |-> o, current |-> TRUE] \in Event
                                 /\ [obj |-> o, current |-> TRUE].obj = o
          BY DEF Event
        <4> QED BY <4>1 DEF ObjectsOf
      <3> HIDE DEF items
      <3>3. /\ w' \in BusyStep /\ w'.pc = "branch" /\ w'.c = w.c /\ w'.ends = w.ends
            /\ w'.items = items /\ w'.todo = items
        <4>1. items \in SUBSET Event BY <3>2
        <4> QED BY <1>2, <3>1, <4>1 DEF BusyStep
      <3>4. StoreType' BY <2>1, <3>1 DEF StoreType, world
      <3>5. CacheKnows' BY <2>1 DEF CacheKnows
      <3>6. InformerType' BY <2>1 DEF InformerType
      <3>7. WorkerType' BY <3>2, <3>3, Busy DEF WorkerType
      <3>8. WorkerKnows' BY <2>1, <3>1, <3>3 DEF WorkerKnows
      <3>9. Unregistered' BY <3>3 DEF Unregistered
      <3> QED BY <3>4, <3>5, <3>6, <3>7, <3>8, <3>9
    <2> QED BY <2>2, <2>3
  <1>4. CASE AddFinalizer
    <2>1. UNCHANGED <<dep, reg, up, cache, d, inf, h, world>> /\ w.pc = "branch" /\ ~w.ends
      BY <1>4 DEF AddFinalizer
    <2>2. CASE Requeue /\ UNCHANGED <<class, stale>> BY <1>1, <2>1, <2>2, RequeueInv
    <2>3. CASE ~(Requeue /\ UNCHANGED <<class, stale>>)
      <3>1. /\ \/ w' = [w EXCEPT !.pc = "items"]
               \/ w' = [w EXCEPT !.pc = "items", !.finalizer = TRUE]
            /\ queue' = queue
            /\ UNCHANGED <<class, stale>> \/ Update([class[w.c] EXCEPT !.phase = "live"])
        BY <1>4, <2>3 DEF AddFinalizer
      <3>2. /\ w' \in BusyStep /\ w'.pc = "items" /\ w'.c = w.c /\ w'.ends = w.ends
            /\ w'.items = w.items /\ w'.todo = w.todo
        BY <1>2, <3>1, Branched
      <3>3. [class[w.c] EXCEPT !.phase = "live"] \in Class
        <4>1. class[w.c] \in Class BY <1>2 DEF StoreType
        <4> QED BY <4>1 DEF Class
      <3>4. StoreType' /\ CacheKnows' /\ InformerType'
        <4>1. CASE UNCHANGED <<class, stale>>
          BY <2>1, <3>1, <4>1 DEF StoreType, CacheKnows, InformerType, world
        <4>2. CASE Update([class[w.c] EXCEPT !.phase = "live"])
          BY <1>2, <2>1, <3>1, <3>3, <4>2, UpdateInv
        <4> QED BY <3>1, <4>1, <4>2
      <3>5. WorkerType' BY <1>2, <3>2, Busy DEF WorkerType
      <3>6. WorkerKnows' BY <2>1, <3>2 DEF WorkerKnows
      <3>7. Unregistered' BY <2>1, <3>2 DEF Unregistered
      <3> QED BY <3>4, <3>5, <3>6, <3>7
    <2> QED BY <2>2, <2>3
  <1>5. CASE StopInformer
    <2>1. /\ UNCHANGED <<class, dep, reg, up, cache, stale, queue, d, world>>
          /\ w.pc = "branch" /\ w.ends
      BY <1>5 DEF StopInformer
    <2>2. StoreType' BY <2>1 DEF StoreType, world
    <2>3. CacheKnows' BY <2>1 DEF CacheKnows
    <2>4. InformerType' BY <1>2, <1>5 DEF StopInformer, InformerType
    <2>5. CASE w' = Idle BY <2>2, <2>3, <2>4, <2>5, IdleFrame
    <2>6. CASE w' # Idle
      <3>1. /\ inf' = [inf EXCEPT ![w.c] = NoInformer]
            /\ h' = [h EXCEPT ![w.c] = NoEvent]
            /\ w' = [w EXCEPT !.pc = "items"]
        BY <1>5, <2>6 DEF StopInformer
      <3>2. /\ w' \in BusyStep /\ w'.pc = "items" /\ w'.c = w.c /\ w'.ends = w.ends
            /\ w'.items = w.items /\ w'.todo = w.todo
        BY <1>2, <3>1, Branched
      <3>3. inf'[w.c] = NoInformer /\ h'[w.c] = NoEvent
        BY <1>2, <3>1 DEF InformerType
      <3>4. WorkerType' BY <1>2, <3>2, Busy DEF WorkerType
      <3>5. WorkerKnows' BY <2>1, <3>2, <3>3 DEF WorkerKnows
      <3>6. Unregistered' BY <2>1, <3>2 DEF Unregistered, WorkerKnows
      <3> QED BY <2>2, <2>3, <2>4, <3>4, <3>5, <3>6
    <2> QED BY <2>5, <2>6
  <1>6. CASE HandleRegisteredServices
    <2>1. /\ UNCHANGED <<class, dep, stale, up, cache, queue, d, inf, h, obj, pushes, calm>>
          /\ w.pc = "items"
      BY <1>6 DEF HandleRegisteredServices, world, agent
    <2>2. ASSUME NEW todo \in SUBSET w.todo, NEW t,
                 \/ t = [w EXCEPT !.todo = todo]
                 \/ t = [w EXCEPT !.todo = todo, !.err = TRUE],
                 w' = t,
                 reg' \in [Names -> Registered \cup {NoReg}],
                 \A n \in Names : reg'[n] # NoReg => NameOf[reg'[n].obj] = n,
                 w.ends /\ ~t.err =>
                   /\ \A n \in Names : reg'[n] = NoReg \/ reg'[n] = reg[n]
                   /\ \A i \in w.todo \ todo : reg'[NameOf[i.obj]] = NoReg
          PROVE  DiscInv'
      <3>1. /\ t \in BusyStep /\ t.pc = "items" /\ t.c = w.c /\ t.ends = w.ends
            /\ t.items = w.items /\ t.todo = todo
            /\ t.err = w.err \/ t.err
        <4>1. todo \in SUBSET Event BY <1>2
        <4>2. /\ t \in BusyStep /\ t.pc = w.pc /\ t.c = w.c /\ t.ends = w.ends
              /\ t.items = w.items /\ t.todo = todo
              /\ t.err = w.err \/ t.err
          <5>1. CASE t = [w EXCEPT !.todo = todo] BY <1>2, <4>1, <5>1 DEF BusyStep
          <5>2. CASE t = [w EXCEPT !.todo = todo, !.err = TRUE]
            BY <1>2, <4>1, <5>2 DEF BusyStep
          <5> QED BY <2>2, <5>1, <5>2
        <4> QED BY <2>1, <4>2
      <3>2. StoreType' BY <2>1, <2>2 DEF StoreType
      <3>3. CacheKnows' BY <2>1 DEF CacheKnows
      <3>4. InformerType' BY <2>1 DEF InformerType
      <3>5. WorkerType' BY <1>2, <2>2, <3>1, Busy DEF WorkerType
      <3>6. WorkerKnows' BY <2>1, <2>2, <3>1 DEF WorkerKnows
      <3>7. Unregistered'
        <4> SUFFICES ASSUME t.ends, ~t.err, NEW i \in t.items \ t.todo
                     PROVE  \/ reg'[NameOf[i.obj]] = NoReg
                            \/ ClassOf[reg'[NameOf[i.obj]].obj] # t.c
          BY <2>2 DEF Unregistered
        <4>1. NameOf[i.obj] \in Names BY <1>2, <3>1 DEF Event
        <4>2. CASE i \in w.todo BY <2>2, <3>1, <4>2
        <4>3. CASE i \notin w.todo BY <2>1, <2>2, <3>1, <4>1, <4>3 DEF Unregistered
        <4> QED BY <4>2, <4>3
      <3> QED BY <3>2, <3>3, <3>4, <3>5, <3>6, <3>7
    <2>3. ASSUME NEW i \in w.todo, deleteRegisteredService(i), w.ends,
                 w' = [w EXCEPT !.todo = w.todo \ {i}]
          PROVE  DiscInv'
      <3>1. NameOf[i.obj] \in Names BY <1>2, <2>3 DEF Event
      <3>2. /\ reg' \in [Names -> Registered \cup {NoReg}]
            /\ \A n \in Names : reg'[n] = NoReg \/ reg'[n] = reg[n]
            /\ reg'[NameOf[i.obj]] = NoReg
            /\ \A n \in Names : reg'[n] # NoReg => NameOf[reg'[n].obj] = n
        BY <2>3, <3>1 DEF deleteRegisteredService, StoreType
      <3> QED BY <2>2, <2>3, <3>2
    <2>4. ASSUME NEW i \in w.todo, updateRegisteredService(i), ~w.ends,
                 \/ w' = [w EXCEPT !.todo = w.todo \ {i}]
                 \/ w' = [w EXCEPT !.todo = w.todo \ {i}, !.err = TRUE]
          PROVE  DiscInv'
      <3>1. /\ PrepareRegisteredService(i, w.current) \in Registered
            /\ PrepareRegisteredService(i, w.current).obj = i.obj
            /\ NameOf[i.obj] \in Names
        BY <1>2, <2>4, Prepared
      <3>2. /\ reg' \in [Names -> Registered \cup {NoReg}]
            /\ \A n \in Names : reg'[n] # NoReg => NameOf[reg'[n].obj] = n
        BY <2>4, <3>1 DEF updateRegisteredService, StoreType
      <3> QED BY <2>2, <2>4, <3>2
    <2>5. ASSUME NEW todo \in SUBSET w.todo, reg' = reg,
                 w' = [w EXCEPT !.todo = todo, !.err = TRUE]
          PROVE  DiscInv'
      <3>1. w'.err BY <1>2, <2>5 DEF BusyStep
      <3>2. /\ reg' \in [Names -> Registered \cup {NoReg}]
            /\ \A n \in Names : reg'[n] # NoReg => NameOf[reg'[n].obj] = n
        BY <2>5 DEF StoreType
      <3> QED BY <2>2, <2>5, <3>1, <3>2
    <2> QED BY <1>6, <2>3, <2>4, <2>5 DEF HandleRegisteredServices
  <1>7. CASE RemoveFinalizer
    <2>1. /\ UNCHANGED <<dep, reg, up, cache, d, inf, h, world>> /\ w.pc = "items"
          /\ w.todo = {}
      BY <1>7 DEF RemoveFinalizer
    <2>2. CASE Requeue /\ UNCHANGED <<class, stale>> BY <1>1, <2>1, <2>2, RequeueInv
    <2>3. CASE ~(Requeue /\ UNCHANGED <<class, stale>>)
      <3> DEFINE o == IF class[w.c].phase = "terminating" THEN NoClass
                      ELSE [class[w.c] EXCEPT !.phase = "new"]
      <3>1. /\ Update(o) /\ queue' = queue
            /\ w' = [w EXCEPT !.pc = "status", !.items = {}]
        BY <1>7, <2>3 DEF RemoveFinalizer
      <3>2. o \in Class BY <1>2 DEF StoreType, Class, NoClass
      <3> HIDE DEF o
      <3>3. w' \in BusyStep /\ w'.pc = "status" /\ w'.items = {} /\ w'.todo = {}
        BY <1>2, <2>1, <3>1, Unfinalized
      <3>4. StoreType' /\ CacheKnows' /\ InformerType' BY <1>2, <2>1, <3>1, <3>2, UpdateInv
      <3>5. WorkerType' /\ WorkerKnows' /\ Unregistered'
        BY <3>3, Busy DEF WorkerType, WorkerKnows, Unregistered
      <3> QED BY <3>4, <3>5
    <2> QED BY <2>2, <2>3
  <1>8. CASE UpdateStatus
    <2>1. UNCHANGED <<class, dep, reg, up, cache, stale, d, inf, h, world>>
      BY <1>8 DEF UpdateStatus
    <2>2. CASE Requeue BY <1>1, <2>1, <2>2, RequeueInv
    <2>3. CASE ~Requeue
      <3>1. w' = Idle /\ queue' = queue BY <1>8, <2>3 DEF UpdateStatus
      <3>2. StoreType' BY <2>1, <3>1 DEF StoreType, world
      <3>3. CacheKnows' BY <2>1 DEF CacheKnows
      <3>4. InformerType' BY <2>1 DEF InformerType
      <3> QED BY <3>1, <3>2, <3>3, <3>4, IdleFrame
    <2> QED BY <2>2, <2>3
  <1> QED BY <1>3, <1>4, <1>5, <1>6, <1>7, <1>8 DEF ClassWorker
-----------------------------------------------------------------------------
LEMMA DiscInit == Init => DiscInv
  <1> SUFFICES ASSUME Init PROVE DiscInv
    OBVIOUS
  <1>1. NoClass \in Class BY DEF NoClass, Class
  <1>6. cache \in [class : [Classes -> Class], dep : Deployment, current : SUBSET Classes]
    BY <1>1 DEF Init, Deployment
  <1>7. /\ obj \in [Objects -> Phase] /\ class \in [Classes -> Class]
        /\ reg \in [Names -> Registered \cup {NoReg}]
        /\ \A n \in Names : reg[n] # NoReg => NameOf[reg[n].obj] = n
    BY <1>1 DEF Init, Phase
  <1>8. /\ dep \in Deployment /\ pushes \in 0 .. MaxPushes /\ d \in {Idle, [pc |-> "wait"]}
        /\ stale \subseteq Classes \cup {Agent} /\ queue \subseteq Classes \cup {Agent}
        /\ up \in BOOLEAN /\ calm \in BOOLEAN
    <2>1. 0 \in 0 .. MaxPushes OBVIOUS
    <2> QED BY <2>1 DEF Init, Deployment
  <1>2. StoreType BY <1>6, <1>7, <1>8 DEF StoreType
  <1>3. WorkerType /\ WorkerKnows /\ Unregistered
    BY DEF Init, WorkerType, WorkerKnows, Unregistered, Idle, ClassSteps
  <1>4. InformerType BY DEF Init, InformerType
  <1>5. CacheKnows BY DEF Init, CacheKnows
  <1> QED BY <1>2, <1>3, <1>4, <1>5 DEF DiscInv

LEMMA DiscStep == DiscInv /\ [Next]_vars => DiscInv'
  <1> SUFFICES ASSUME DiscInv, [Next]_vars PROVE DiscInv'
    OBVIOUS
  <1>1. CASE UNCHANGED vars
    <2>1. StoreType' /\ CacheKnows' BY <1>1 DEF vars, DiscInv, StoreType, CacheKnows
    <2> QED BY <1>1, <2>1, QuietInv DEF vars
  <1>2. CASE Next
    BY <1>2, UsersInv, ClassesInv, UpdateClassInv, ReconcileInv, InformersInv, HandlerInv,
       AgentInv, ClassWorkerInv DEF Next, AgentController
  <1> QED BY <1>1, <1>2

LEMMA DiscHolds == Spec => []DiscInv
  BY DiscInit, DiscStep, PTL DEF Spec

(* All variables keep their types, and a handler is busy only while its    *)
(* informer runs, over restarts and the exit of the agent.                 *)
THEOREM DiscoveryType == Spec => []TypeOK
  <1>1. DiscInv => TypeOK
    BY DEF DiscInv, StoreType, WorkerType, InformerType, TypeOK
  <1> QED BY <1>1, DiscHolds, PTL

(* When the finalizer of a class goes and nothing failed, none of the      *)
(* resources that were listed is registered for the class: its informer    *)
(* was stopped before, and only the worker could start another.  For any   *)
(* classes and resources, also those that share names.                     *)
THEOREM UnregisteredStays == Spec => []UnregisteredStay
  <1>1. DiscInv => UnregisteredStay BY DEF DiscInv, Unregistered, UnregisteredStay
  <1> QED BY <1>1, DiscHolds, PTL

(* A RegisteredService is deleted only for a class or an agent that is     *)
(* being deleted, if no name is used by two classes: what the worker read  *)
(* was current at the time, and such a deletion is not taken back before   *)
(* the worker itself has removed the finalizer.                            *)
THEOREM DeletesWithClass ==
  ASSUME \A o, p \in Objects : NameOf[o] = NameOf[p] => ClassOf[o] = ClassOf[p]
  PROVE  Spec => DeletedWithClass
  <1> DEFINE Due(n) == \/ dep \in {"terminating", "gone"}
                       \/ class[ClassOf[reg[n].obj]].phase = "terminating"
  <1>1. ASSUME DiscInv, Next, NEW n \in Names, reg[n] # NoReg, reg'[n] = NoReg
        PROVE  Due(n)
    <2>1. /\ reg \in [Names -> Registered \cup {NoReg}] /\ reg[n] \in Registered
          /\ reg[n].obj \in Objects /\ NameOf[reg[n].obj] = n
      BY <1>1 DEF DiscInv, StoreType, Registered
    <2>2. reg' # reg BY <1>1
    <2>3. ASSUME NEW o \in Objects, Users(o) PROVE FALSE
      <3>1. \A x \in Registered : [x EXCEPT !.current = FALSE] \in Registered
        BY DEF Registered
      <3> QED BY <1>1, <2>1, <2>2, <2>3, <3>1, NoneAssumption
              DEF Users, CreateObject, EditObject, DeleteObject, Outdated
    <2>4. ASSUME NEW c \in Classes, UpdateClass(c) PROVE FALSE
      <3>1. \A x \in Registered : [x EXCEPT !.class = FALSE] \in Registered
        BY DEF Registered
      <3> QED BY <1>1, <2>1, <2>4, <3>1, NoneAssumption DEF UpdateClass
    <2>5. ASSUME NEW c \in Classes, CreateOrUpdateRegisteredService(c) PROVE FALSE
      <3>1. h[c] \in Event /\ inf[c] \in Informer(c)
        BY <1>1, <2>5 DEF CreateOrUpdateRegisteredService, DiscInv, InformerType
      <3>2. PrepareRegisteredService(h[c], inf[c].current) \in Registered
        BY <3>1, Prepared DEF Informer
      <3> QED BY <1>1, <2>1, <2>5, <3>2, NoneAssumption DEF CreateOrUpdateRegisteredService
    <2>6. CASE HandleRegisteredServices
      <3>1. /\ w \in BusyStep /\ w.pc = "items" /\ w.c \in Classes /\ w.current \in BOOLEAN
            /\ w.todo \subseteq Event /\ \A i \in w.todo : ClassOf[i.obj] = w.c
        BY <1>1, <2>6, Busy DEF HandleRegisteredServices, DiscInv, WorkerType, BusyStep
      <3>2. PICK i \in w.todo :
              IF w.ends THEN deleteRegisteredService(i) ELSE updateRegisteredService(i)
        BY <2>2, <2>6 DEF HandleRegisteredServices
      <3>3. i.obj \in Objects /\ NameOf[i.obj] \in Names
              /\ PrepareRegisteredService(i, w.current) \in Registered
        BY <3>1, <3>2, Prepared
      <3>4. NameOf[i.obj] = n
        BY <1>1, <2>1, <3>2, <3>3 DEF deleteRegisteredService, updateRegisteredService
      <3>5. w.ends
        BY <1>1, <2>1, <3>2, <3>3, <3>4, NoneAssumption DEF updateRegisteredService
      <3>6. ClassOf[reg[n].obj] = w.c BY <2>1, <3>1, <3>2, <3>3, <3>4
      <3> QED BY <1>1, <3>1, <3>5, <3>6 DEF DiscInv, WorkerKnows, Ending
    <2> QED
      BY <1>1, <2>2, <2>3, <2>4, <2>5, <2>6
      DEF Next, PushClass, Reconcile, Stop, Informers, Notify, Resync, DeleteAgent, Calm,
          DeletePod, Crash, Collect, Sync, ClassWorker, GetResources, AddFinalizer,
          StopInformer, RemoveFinalizer, UpdateStatus, AgentController, ReconcileAgent,
          AddAgentFinalizer, removeServiceClasses, RemoveAgentFinalizer
  <1>2. DiscInv /\ [Next]_vars
          => [\A n \in Names : reg[n] # NoReg /\ reg'[n] = NoReg => Due(n)]_vars
    BY <1>1
  <1> QED BY <1>2, DiscHolds, PTL DEF Spec, DeletedWithClass
=============================================================================
