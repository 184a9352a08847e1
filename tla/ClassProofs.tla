----------------------------- MODULE ClassProofs -----------------------------
(* ServiceClasses: TypeOK, OneManaged and LiveKeepsCopies, for any numbers *)
(* of classes and ClusterEnvironments and any lag of the cache.            *)
EXTENDS ClassPush, TLAPS

(* An object with one name gets older with every write: a new version, or  *)
(* the next phase of its life.                                             *)
PhaseAge(phase) ==
  IF phase = "new" THEN 0
  ELSE IF phase = "live" THEN 1
  ELSE IF phase = "terminating" THEN 2 ELSE 3

Age(o) == 4 * o.version + PhaseAge(o.phase)

Events == 1 .. Len(watch)

(* The watch delivers the changes of a class in the order in which they    *)
(* were made, none of them twice.                                          *)
InOrder ==
  /\ \A c \in Classes : Age(cache[c]) <= Age(class[c])
  /\ \A i \in Events : /\ Age(cache[watch[i].c]) < Age(watch[i].obj)
                       /\ Age(watch[i].obj) <= Age(class[watch[i].c])
  /\ \A i, j \in Events : i < j /\ watch[i].c = watch[j].c
                            => Age(watch[i].obj) < Age(watch[j].obj)

(* The cache shows c in one of the phases, and will until it has caught up. *)
Shown(c, phases) ==
  /\ cache[c].phase \in phases
  /\ \A i \in Events : watch[i].c = c => watch[i].obj.phase \in phases

Managed == {"live", "terminating"}

(* A class gets its finalizer when the cache has caught up with it; from   *)
(* then on the cache shows what follows.                                   *)
CacheKnows ==
  /\ \A c \in Classes : class[c].phase = "live" => Shown(c, {"new", "live"})
  /\ \A c \in Classes : class[c].phase \in Managed
                          => Shown(c, {"new", "live", "terminating"})

(* What the class worker can rely on: the object it takes the finalizer    *)
(* decision from is in its cache's past, and the class it deletes copies   *)
(* of is not managed anew, since only the worker itself could do that.     *)
WorkerKnows ==
  /\ w.pc = "finalizer" => w.obj.phase = "new" /\ Age(w.obj) <= Age(cache[w.c])
  /\ w.pc \in {"delete", "removeFinalizer"} => class[w.c].phase # "live"
  /\ w.pc \in {"push", "delete"}
       => \A j \in {w.calls.job} \cup w.calls.left : j.c = w.c

ClassInv ==
  /\ TypeOK
  /\ InOrder
  /\ CacheKnows
  /\ WorkerKnows
  /\ OneManaged
-----------------------------------------------------------------------------
USE ClassAssumption

Event == [c : Classes, obj : ServiceClass]

(* The ages of well-typed objects are numbers. *)
LEMMA AgeType ==
  ASSUME NEW o \in ServiceClass
  PROVE  /\ Age(o) \in Nat
         /\ PhaseAge(o.phase) \in 0 .. 3
         /\ Age(o) = 4 * o.version + PhaseAge(o.phase)
  BY DEF Age, PhaseAge, ServiceClass

(* Objects of one age are in one phase. *)
LEMMA AgeTellsPhase ==
  ASSUME NEW o \in ServiceClass, NEW p \in ServiceClass, Age(o) = Age(p)
  PROVE  o.phase = p.phase
  BY DEF Age, PhaseAge, ServiceClass

(* A change that is made: the last one that the watch will deliver. *)
LEMMA AppendEvents ==
  ASSUME watch \in Seq(Event), NEW x \in Event, watch' = Append(watch, x)
  PROVE  /\ watch' \in Seq(Event)
         /\ Events' = Events \cup {Len(watch) + 1} /\ Len(watch) \in Nat
         /\ watch'[Len(watch) + 1] = x
         /\ \A i \in Events : watch'[i] = watch[i]
  BY DEF Events

(* A change that is delivered: the first one. *)
LEMMA TailEvents ==
  ASSUME watch \in Seq(Event), watch # << >>, watch' = Tail(watch)
  PROVE  /\ watch' \in Seq(Event)
         /\ Head(watch) = watch[1] /\ 1 \in Events /\ watch[1] \in Event
         /\ \A i \in Events' : /\ i + 1 \in Events /\ i \in Nat /\ i + 1 > 1
                                /\ watch'[i] = watch[i + 1]
  BY DEF Events

(* What TypeOK says of the objects. *)
LEMMA ObjectTypes ==
  ASSUME TypeOK
  PROVE  /\ class \in [Classes -> ServiceClass] /\ cache \in [Classes -> ServiceClass]
         /\ watch \in Seq(Event)
         /\ \A c \in Classes : Age(class[c]) \in Nat /\ Age(cache[c]) \in Nat
         /\ \A i \in Events : /\ watch[i] \in Event /\ watch[i].c \in Classes
                               /\ watch[i].obj \in ServiceClass /\ Age(watch[i].obj) \in Nat
                               /\ i \in Nat
  <1>1. /\ class \in [Classes -> ServiceClass] /\ cache \in [Classes -> ServiceClass]
        /\ watch \in Seq(Event)
    BY DEF TypeOK, Event
  <1>2. \A i \in Events : i \in Nat /\ watch[i] \in Event
    BY <1>1 DEF Events
  <1>3. \A i \in Events : watch[i].c \in Classes /\ watch[i].obj \in ServiceClass
    BY <1>2 DEF Event
  <1> QED BY <1>1, <1>2, <1>3, AgeType

(* A write makes its class older, and the watch stays in order. *)
LEMMA WriteInOrder ==
  ASSUME TypeOK, InOrder, NEW c \in Classes, NEW o \in ServiceClass,
         Age(class[c]) < Age(o), Write(c, o), cache' = cache
  PROVE  /\ InOrder'
         /\ class' \in [Classes -> ServiceClass] /\ watch' \in Seq(Event)
         /\ class'[c] = o /\ \A d \in Classes \ {c} : class'[d] = class[d]
         /\ \A d \in Classes : \A phases :
              Shown(d, phases) /\ (d = c => o.phase \in phases) => Shown(d, phases)'
  <1> DEFINE x == [c |-> c, obj |-> o]
             m == Len(watch) + 1
  <1>1. x \in Event /\ x.c = c /\ x.obj = o BY DEF Event
  <1>2. watch' = Append(watch, x) BY DEF Write
  <1> HIDE DEF x
  <1>3. /\ watch' \in Seq(Event)
        /\ Events' = Events \cup {m} /\ Len(watch) \in Nat
        /\ watch'[m] = x
        /\ \A i \in Events : watch'[i] = watch[i]
    BY <1>1, <1>2, ObjectTypes, AppendEvents
  <1>4. /\ class' \in [Classes -> ServiceClass]
        /\ class'[c] = o /\ \A d \in Classes \ {c} : class'[d] = class[d]
    BY ObjectTypes DEF Write
  <1>5. Age(o) \in Nat BY AgeType
  <1>6. \A i \in Events : i < m /\ i # m BY <1>3 DEF Events
  <1> HIDE DEF m
  <1>7. ASSUME NEW d \in Classes PROVE Age(class[d]) <= Age(class'[d])
    <2>1. Age(class[d]) \in Nat BY ObjectTypes
    <2>2. CASE d = c BY <1>4, <1>5, <2>1, <2>2
    <2>3. CASE d # c BY <1>4, <2>1, <2>3
    <2> QED BY <2>2, <2>3
  <1>8. \A i \in Events' : /\ Age(cache'[watch'[i].c]) < Age(watch'[i].obj)
                            /\ Age(watch'[i].obj) <= Age(class'[watch'[i].c])
    <2>1. ASSUME NEW i \in Events
          PROVE  /\ Age(cache'[watch'[i].c]) < Age(watch'[i].obj)
                 /\ Age(watch'[i].obj) <= Age(class'[watch'[i].c])
      <3>1. watch'[i] = watch[i] /\ watch[i].c \in Classes BY <1>3, ObjectTypes
      <3>2. class'[watch[i].c] \in ServiceClass BY <1>4, <3>1
      <3> QED BY <1>7, <3>1, <3>2, ObjectTypes, AgeType DEF InOrder
    <2>2. /\ Age(cache'[watch'[m].c]) < Age(watch'[m].obj)
          /\ Age(watch'[m].obj) <= Age(class'[watch'[m].c])
      BY <1>1, <1>3, <1>4, <1>5, ObjectTypes DEF InOrder
    <2> QED BY <1>3, <2>1, <2>2
  <1>9. \A i, j \in Events' : i < j /\ watch'[i].c = watch'[j].c
                              => Age(watch'[i].obj) < Age(watch'[j].obj)
    <2>1. ASSUME NEW i \in Events, watch[i].c = c
          PROVE  Age(watch[i].obj) < Age(o)
      BY <1>5, <2>1, ObjectTypes DEF InOrder
    <2>2. \A i \in Events : ~(m < i) BY <1>3, <1>6, ObjectTypes DEF m
    <2>3. m \in Nat /\ ~(m < m) BY <1>3 DEF m
    <2> SUFFICES ASSUME NEW i \in Events', NEW j \in Events',
                        i < j, watch'[i].c = watch'[j].c
                 PROVE  Age(watch'[i].obj) < Age(watch'[j].obj)
      OBVIOUS
    <2>4. i \in Events BY <1>3, <2>2, <2>3
    <2>5. watch'[i] = watch[i] BY <1>3, <2>4
    <2>6. CASE j = m BY <1>1, <1>3, <2>1, <2>4, <2>5, <2>6
    <2>7. CASE j \in Events
      <3>1. watch'[j] = watch[j] BY <1>3, <2>7
      <3> QED BY <2>4, <2>5, <2>7, <3>1 DEF InOrder
    <2> QED BY <1>3, <2>6, <2>7
  <1>10. InOrder'
    BY <1>4, <1>7, <1>8, <1>9, ObjectTypes, AgeType DEF InOrder
  <1>11. \A d \in Classes : \A phases :
           Shown(d, phases) /\ (d = c => o.phase \in phases) => Shown(d, phases)'
    BY <1>1, <1>3 DEF Shown
  <1> QED BY <1>3, <1>4, <1>10, <1>11

(* What is delivered makes the cached class older, and the rest is still   *)
(* in order.                                                               *)
LEMMA SyncInOrder ==
  ASSUME TypeOK, InOrder, Sync
  PROVE  /\ InOrder'
         /\ cache' \in [Classes -> ServiceClass] /\ watch' \in Seq(Event)
         /\ \A d \in Classes : Age(cache[d]) <= Age(cache'[d])
         /\ \A d \in Classes : \A phases : Shown(d, phases) => Shown(d, phases)'
  <1> DEFINE c == watch[1].c
             o == watch[1].obj
  <1>1. /\ watch' \in Seq(Event)
        /\ Head(watch) = watch[1] /\ 1 \in Events
        /\ \A i \in Events' : /\ i + 1 \in Events /\ i \in Nat /\ i + 1 > 1
                               /\ watch'[i] = watch[i + 1]
    BY ObjectTypes, TailEvents DEF Sync
  <1>2. c \in Classes /\ o \in ServiceClass /\ Age(o) \in Nat BY <1>1, ObjectTypes
  <1>3. /\ cache' = [cache EXCEPT ![c] = o] /\ class' = class BY <1>1 DEF Sync
  <1>4. Age(cache[c]) < Age(o) /\ Age(o) <= Age(class[c])
    BY <1>1 DEF InOrder
  <1>5. \A i \in Events : 1 < i /\ watch[i].c = c => Age(o) < Age(watch[i].obj)
    BY <1>1 DEF InOrder
  <1>s. \A d \in Classes : \A phases :
          Shown(d, phases) /\ watch[1].c = d => watch[1].obj.phase \in phases
    BY <1>1 DEF Shown
  <1> HIDE DEF c, o
  <1>6. /\ cache' \in [Classes -> ServiceClass]
        /\ cache'[c] = o /\ \A d \in Classes \ {c} : cache'[d] = cache[d]
    BY <1>2, <1>3, ObjectTypes
  <1>7. ASSUME NEW d \in Classes PROVE Age(cache[d]) <= Age(cache'[d])
    <2>1. Age(cache[d]) \in Nat BY ObjectTypes
    <2>2. CASE d = c BY <1>2, <1>4, <1>6, <2>1, <2>2
    <2>3. CASE d # c BY <1>6, <2>1, <2>3
    <2> QED BY <2>2, <2>3
  <1>8. \A d \in Classes : Age(cache'[d]) <= Age(class'[d])
    BY <1>3, <1>4, <1>6 DEF InOrder
  <1>9. ASSUME NEW i \in Events'
        PROVE  /\ Age(cache'[watch'[i].c]) < Age(watch'[i].obj)
               /\ Age(watch'[i].obj) <= Age(class'[watch'[i].c])
    <2>1. /\ i + 1 \in Events /\ watch'[i] = watch[i + 1] /\ i + 1 > 1 /\ i + 1 \in Nat
      BY <1>1
    <2>2. /\ watch[i + 1].c \in Classes
          /\ Age(cache[watch[i + 1].c]) < Age(watch[i + 1].obj)
          /\ Age(watch[i + 1].obj) <= Age(class[watch[i + 1].c])
      BY <2>1, ObjectTypes DEF InOrder
    <2>3. watch[i + 1].c = c => Age(o) < Age(watch[i + 1].obj)
      BY <1>5, <2>1
    <2> QED BY <1>3, <1>6, <2>1, <2>2, <2>3
  <1>10. ASSUME NEW i \in Events', NEW j \in Events', i < j, watch'[i].c = watch'[j].c
         PROVE  Age(watch'[i].obj) < Age(watch'[j].obj)
    <2>1. /\ i + 1 \in Events /\ j + 1 \in Events /\ i + 1 < j + 1
          /\ watch'[i] = watch[i + 1] /\ watch'[j] = watch[j + 1]
      BY <1>1, <1>10
    <2> QED BY <1>10, <2>1 DEF InOrder
  <1>11. ASSUME NEW d \in Classes, NEW phases, Shown(d, phases)
         PROVE  Shown(d, phases)'
    <2>1. cache'[d].phase \in phases
      BY <1>6, <1>11, <1>s DEF Shown, c, o
    <2>2. \A i \in Events' : watch'[i].c = d => watch'[i].obj.phase \in phases
      BY <1>1, <1>11 DEF Shown
    <2> QED BY <2>1, <2>2 DEF Shown
  <1> QED BY <1>1, <1>6, <1>7, <1>8, <1>9, <1>10, <1>11 DEF InOrder
-----------------------------------------------------------------------------
(* Types. *)

(* The calls of a list of jobs are calls of those jobs. *)
LEMMA FirstCalls ==
  ASSUME NEW jobs \in SUBSET Job
  PROVE  /\ First(jobs) \subseteq Calls
         /\ \A x \in First(jobs) : {x.job} \cup x.left \subseteq jobs
  BY DEF First, Calls

(* What is left after a call is among what was left before it. *)
LEMMA RestCalls ==
  ASSUME NEW calls \in Calls, NEW ok \in BOOLEAN
  PROVE  /\ Rest(calls, ok) \subseteq Calls
         /\ \A x \in Rest(calls, ok) : {x.job} \cup x.left \subseteq {calls.job} \cup calls.left
  <1>1. calls.left \in SUBSET Job /\ calls.i \in DOMAIN Namespaces
    BY DEF Calls
  <1>2. CASE ok /\ calls.i < Len(Namespaces)
    <2>1. calls.i + 1 \in DOMAIN Namespaces BY <1>1, <1>2
    <2>2. Rest(calls, ok) = {[calls EXCEPT !.i = calls.i + 1]} BY <1>2 DEF Rest
    <2> QED BY <2>1, <2>2 DEF Calls
  <1>3. CASE ~(ok /\ calls.i < Len(Namespaces))
    BY <1>1, <1>3, FirstCalls DEF Rest
  <1> QED BY <1>2, <1>3

(* The worker at a step has what the step works on. *)
LEMMA WorkerFields ==
  ASSUME w \in ClassSteps
  PROVE  /\ w.pc # "idle" => w.c \in Classes /\ w.obj \in ServiceClass
         /\ w.pc \in {"push", "delete"} => w.calls \in Calls /\ w.err \in BOOLEAN
         /\ w.pc = "idle" => w = Idle
         /\ w.pc \in {"idle", "finalizer", "removeFinalizer", "push", "delete"}
  BY DEF ClassSteps, Idle

(* Where Proceed leaves the worker. *)
LEMMA ProceedMeans ==
  ASSUME NEW pc \in {"push", "delete"}, NEW c \in Classes, NEW obj \in ServiceClass,
         NEW rest \in SUBSET Calls, NEW err \in BOOLEAN, NEW q \in SUBSET Classes,
         Proceed(pc, c, obj, rest, err, q)
  PROVE  /\ w' \in ClassSteps /\ queue' \subseteq Classes
         /\ w'.pc # "idle" => w'.c = c /\ w'.obj = obj
         /\ w'.pc \in {"idle", pc} \/ (pc = "delete" /\ w'.pc = "removeFinalizer")
         /\ w'.pc \in {"push", "delete"} => w'.calls \in rest
  <1>1. ASSUME NEW calls \in rest,
               w' = [pc |-> pc, c |-> c, obj |-> obj, calls |-> calls, err |-> err]
        PROVE  /\ w' \in ClassSteps /\ w'.pc = pc /\ w'.c = c /\ w'.obj = obj
               /\ w'.calls \in rest
    BY <1>1 DEF ClassSteps
  <1>2. CASE w' = Idle BY <1>2 DEF Idle, ClassSteps, Proceed
  <1>3. CASE pc = "delete" /\ w' = [pc |-> "removeFinalizer", c |-> c, obj |-> obj]
    BY <1>3 DEF ClassSteps, Proceed
  <1> QED BY <1>1, <1>2, <1>3 DEF Proceed

(* ListEnvironments starts on the calls for the class that was read. *)
LEMMA ListMeans ==
  ASSUME NEW c \in Classes, NEW obj \in ServiceClass, NEW q \in SUBSET Classes,
         ceCache \subseteq Clusters, ListEnvironments(c, obj, q)
  PROVE  /\ w' \in ClassSteps /\ queue' \subseteq Classes
         /\ w'.pc # "idle" => w'.c = c /\ w'.obj = obj
         /\ w'.pc \in {"idle", "push", "delete", "removeFinalizer"}
         /\ w'.pc \in {"delete", "removeFinalizer"} => obj.phase = "terminating"
         /\ w'.pc \in {"push", "delete"}
              => \A j \in {w'.calls.job} \cup w'.calls.left : j.c = c
  <1> DEFINE op == IF obj.phase = "terminating" THEN "delete" ELSE "push"
             found == IF op = "delete" /\ obj.constraints = Nil THEN {}
                      ELSE filterClusterEnvironments(obj.constraints)
             jobs == {[k |-> k, c |-> c, version |-> obj.version] : k \in found}
  <1>1. found \subseteq Clusters BY DEF filterClusterEnvironments
  <1>2. jobs \in SUBSET Job /\ \A j \in jobs : j.c = c
    BY <1>1 DEF Job, ServiceClass
  <1>3. Proceed(op, c, obj, First(jobs), FALSE, q) BY DEF ListEnvironments
  <1>4. op \in {"push", "delete"} /\ (op = "delete" => obj.phase = "terminating")
    OBVIOUS
  <1> HIDE DEF op, found, jobs
  <1>5. First(jobs) \in SUBSET Calls BY <1>2, FirstCalls
  <1>6. /\ w' \in ClassSteps /\ queue' \subseteq Classes
        /\ w'.pc # "idle" => w'.c = c /\ w'.obj = obj
        /\ w'.pc \in {"idle", op} \/ (op = "delete" /\ w'.pc = "removeFinalizer")
        /\ w'.pc \in {"push", "delete"} => w'.calls \in First(jobs)
    BY <1>3, <1>4, <1>5, ProceedMeans
  <1> QED BY <1>2, <1>4, <1>6, FirstCalls

(* A call leaves the worker with the rest of its calls. *)
LEMMA CalledMeans ==
  ASSUME TypeOK, w.pc \in {"push", "delete"}, NEW ok \in BOOLEAN, Called(ok)
  PROVE  /\ w' \in ClassSteps /\ queue' \subseteq Classes
         /\ w'.pc # "idle" => w'.c = w.c /\ w'.obj = w.obj
         /\ w'.pc \in {"idle", w.pc} \/ (w.pc = "delete" /\ w'.pc = "removeFinalizer")
         /\ w'.pc \in {"push", "delete"}
              => {w'.calls.job} \cup w'.calls.left \subseteq {w.calls.job} \cup w.calls.left
  <1>1. /\ w.c \in Classes /\ w.obj \in ServiceClass /\ w.calls \in Calls
        /\ (w.err \/ ~ok) \in BOOLEAN /\ queue \in SUBSET Classes
    BY WorkerFields DEF TypeOK
  <1>2. Rest(w.calls, ok) \in SUBSET Calls BY <1>1, RestCalls
  <1>3. Proceed(w.pc, w.c, w.obj, Rest(w.calls, ok), w.err \/ ~ok, queue) BY DEF Called
  <1>4. /\ w' \in ClassSteps /\ queue' \subseteq Classes
        /\ w'.pc # "idle" => w'.c = w.c /\ w'.obj = w.obj
        /\ w'.pc \in {"idle", w.pc} \/ (w.pc = "delete" /\ w'.pc = "removeFinalizer")
        /\ w'.pc \in {"push", "delete"} => w'.calls \in Rest(w.calls, ok)
    BY <1>1, <1>2, <1>3, ProceedMeans
  <1> QED BY <1>1, <1>4, RestCalls

(* The environment pass keeps its types. *)
LEMMA PushAllType ==
  ASSUME NEW k \in Clusters, NEW rest \in SUBSET Calls, NEW err \in BOOLEAN,
         NEW q \in SUBSET Clusters, PushAll(k, rest, err, q)
  PROVE  e' \in EnvironmentSteps /\ ceQueue' \subseteq Clusters
  BY DEF PushAll, EnvironmentSteps, Idle

(* One copy is replaced: the others are as they were. *)
LEMMA ReplaceCopy ==
  ASSUME copy \in [Classes -> [Clusters -> [Spaces -> Copy]]],
         NEW c \in Classes, NEW k \in Clusters, NEW n \in Spaces, NEW x \in Copy,
         copy' = [copy EXCEPT ![c][k][n] = x]
  PROVE  /\ copy' \in [Classes -> [Clusters -> [Spaces -> Copy]]]
         /\ copy'[c][k][n] = x
         /\ \A d \in Classes, l \in Clusters, m \in Spaces :
              <<d, l, m>> # <<c, k, n>> => copy'[d][l][m] = copy[d][l][m]
  OBVIOUS

(* A call keeps the type of the copies, and ends no life but by deletion.  *)
LEMMA CallCopies ==
  ASSUME TypeOK, NEW calls \in Calls,
         \/ PushServiceClassToNamespace(calls.job, Namespaces[calls.i])
         \/ DeleteServiceClassFromNamespace(calls.job, Namespaces[calls.i])
  PROVE  /\ copy' \in [Classes -> [Clusters -> [Spaces -> Copy]]]
         /\ PushServiceClassToNamespace(calls.job, Namespaces[calls.i])
              => \A c \in Classes, k \in Clusters, n \in Spaces :
                   copy'[c][k][n].dying = copy[c][k][n].dying
         /\ \A c \in Classes, k \in Clusters, n \in Spaces :
              c # calls.job.c => copy'[c][k][n] = copy[c][k][n]
  <1> DEFINE job == calls.job
             n == Namespaces[calls.i]
  <1>1. /\ job.c \in Classes /\ job.k \in Clusters /\ job.version \in Nat /\ n \in Spaces
    BY DEF Calls, Job, Spaces
  <1>2. copy \in [Classes -> [Clusters -> [Spaces -> Copy]]] BY DEF TypeOK
  <1>3. \/ copy' = [copy EXCEPT ![job.c][job.k][n].version = job.version]
        \/ copy' = [copy EXCEPT ![job.c][job.k][n].dying = TRUE]
    BY DEF PushServiceClassToNamespace, DeleteServiceClassFromNamespace
  <1>4. PushServiceClassToNamespace(job, n)
          => copy' = [copy EXCEPT ![job.c][job.k][n].version = job.version]
    BY DEF PushServiceClassToNamespace
  <1> DEFINE old == copy[job.c][job.k][n]
  <1>5. old \in Copy BY <1>1, <1>2
  <1>6. /\ [old EXCEPT !.version = job.version] \in Copy
        /\ [old EXCEPT !.version = job.version].dying = old.dying
        /\ [old EXCEPT !.dying = TRUE] \in Copy
    BY <1>1, <1>5 DEF Copy
  <1> HIDE DEF job, n
  <1>7. ASSUME NEW x \in Copy, copy' = [copy EXCEPT ![job.c][job.k][n] = x]
        PROVE  /\ copy' \in [Classes -> [Clusters -> [Spaces -> Copy]]]
               /\ copy'[job.c][job.k][n] = x
               /\ \A d \in Classes, l \in Clusters, m \in Spaces :
                    <<d, l, m>> # <<job.c, job.k, n>> => copy'[d][l][m] = copy[d][l][m]
    BY <1>1, <1>2, <1>7, ReplaceCopy
  <1>8. \/ copy' = [copy EXCEPT ![job.c][job.k][n] = [old EXCEPT !.version = job.version]]
        \/ copy' = [copy EXCEPT ![job.c][job.k][n] = [old EXCEPT !.dying = TRUE]]
    BY <1>3
  <1>9. PushServiceClassToNamespace(job, n)
          => copy' = [copy EXCEPT ![job.c][job.k][n] = [old EXCEPT !.version = job.version]]
    BY <1>4
  <1>10. ASSUME PushServiceClassToNamespace(job, n),
                NEW d \in Classes, NEW l \in Clusters, NEW m \in Spaces
         PROVE  copy'[d][l][m].dying = copy[d][l][m].dying
    <2> DEFINE x == [old EXCEPT !.version = job.version]
    <2>1. x \in Copy /\ x.dying = old.dying BY <1>6
    <2>2. copy' = [copy EXCEPT ![job.c][job.k][n] = x] BY <1>9, <1>10
    <2> HIDE DEF x
    <2>3. CASE <<d, l, m>> = <<job.c, job.k, n>> BY <1>7, <2>1, <2>2, <2>3
    <2>4. CASE <<d, l, m>> # <<job.c, job.k, n>> BY <1>7, <2>1, <2>2, <2>4
    <2> QED BY <2>3, <2>4
  <1> QED BY <1>6, <1>7, <1>8, <1>10 DEF job, n

(* Writes of classes by their users keep the types. *)
LEMMA UserClassType ==
  ASSUME TypeOK, NEW c \in Classes, CreateClass(c) \/ EditClass(c) \/ DeleteClass(c)
  PROVE  /\ TypeOK'
         /\ UNCHANGED <<cache, w, copy>>
         /\ \E o \in ServiceClass :
              /\ Write(c, o) /\ Age(class[c]) < Age(o)
              /\ o.phase = "live" => class[c].phase = "live"
              /\ o.phase \in Managed => class[c].phase \in Managed
  <1>1. class[c] \in ServiceClass /\ watch \in Seq(Event) /\ class \in [Classes -> ServiceClass]
    BY ObjectTypes
  <1>2. UNCHANGED <<cache, queue, w, ceVars, e, copy, calm>>
    BY DEF CreateClass, EditClass, DeleteClass
  <1>3. ASSUME NEW o \in ServiceClass, Write(c, o) PROVE TypeOK'
    <2>1. class' \in [Classes -> ServiceClass] BY <1>1, <1>3 DEF Write
    <2>2. [c |-> c, obj |-> o] \in Event BY DEF Event
    <2>3. watch' \in Seq(Event) BY <1>1, <1>3, <2>2, AppendEvents DEF Write
    <2> QED BY <1>2, <2>1, <2>3 DEF TypeOK, ceVars, Event
  <1>4. CASE CreateClass(c)
    <2>1. PICK x \in Constraints[c] :
            Write(c, [phase |-> "new", version |-> class[c].version + 1, constraints |-> x])
      BY <1>4 DEF CreateClass
    <2> DEFINE o == [phase |-> "new", version |-> class[c].version + 1, constraints |-> x]
    <2>2. o \in ServiceClass BY <1>1 DEF ServiceClass
    <2>3. Age(class[c]) < Age(o) BY <1>1 DEF ServiceClass, Age, PhaseAge
    <2>4. o.phase \notin Managed BY DEF Managed
    <2>5. Write(c, o) BY <2>1
    <2> HIDE DEF o
    <2> QED BY <1>2, <1>3, <2>2, <2>3, <2>4, <2>5 DEF Managed
  <1>5. CASE EditClass(c)
    <2>1. PICK x \in Constraints[c] :
            Write(c, [class[c] EXCEPT !.version = class[c].version + 1, !.constraints = x])
      BY <1>5 DEF EditClass
    <2> DEFINE o == [class[c] EXCEPT !.version = class[c].version + 1, !.constraints = x]
    <2>x. x \in {Nil} \cup UNION {Constraints[d] : d \in Classes} OBVIOUS
    <2>2. o \in ServiceClass /\ o.phase = class[c].phase
      BY <1>1, <2>x, class[c].version + 1 \in Nat DEF ServiceClass
    <2>3. Age(class[c]) < Age(o) BY <1>1 DEF ServiceClass, Age, PhaseAge
    <2>4. Write(c, o) BY <2>1
    <2> HIDE DEF o
    <2> QED BY <1>2, <1>3, <2>2, <2>3, <2>4
  <1>6. CASE DeleteClass(c)
    <2> DEFINE o == [class[c] EXCEPT !.phase = IF class[c].phase = "new" THEN "none"
                                               ELSE "terminating"]
    <2>1. o \in ServiceClass /\ o.phase # "live"
      BY <1>1 DEF ServiceClass
    <2>2. Age(class[c]) < Age(o) /\ (o.phase \in Managed => class[c].phase \in Managed)
      BY <1>1, <1>6 DEF DeleteClass, ServiceClass, Age, PhaseAge, Managed
    <2>3. Write(c, o) BY <1>6 DEF DeleteClass
    <2> HIDE DEF o
    <2> QED BY <1>2, <1>3, <2>1, <2>2, <2>3
  <1> QED BY <1>4, <1>5, <1>6

(* Steps that touch neither classes nor the class worker keep the types.   *)
LEMMA OtherType ==
  ASSUME TypeOK,
         \/ \E k \in Clusters : CreateCluster(k) \/ SyncCluster(k) \/ ReconcileEnvironment(k)
         \/ Resync \/ Calm \/ Collected \/ EnvironmentCall
  PROVE  /\ TypeOK' /\ UNCHANGED <<class, cache, watch, w>>
         /\ \A c \in Classes, k \in Clusters, n \in Spaces :
              ~copy[c][k][n].dying => ~copy'[c][k][n].dying
  <1>1. UNCHANGED <<class, cache, watch, w>>
    BY DEF CreateCluster, SyncCluster, ReconcileEnvironment, Resync, Calm, Collected, Collect,
       EnvironmentCall, classVars
  <1>2. CASE \/ \E k \in Clusters : CreateCluster(k) \/ SyncCluster(k)
             \/ Resync \/ Calm
    <2>1. copy' = copy BY <1>2 DEF CreateCluster, SyncCluster, Resync, Calm
    <2> QED BY <1>1, <1>2, <2>1
            DEF TypeOK, CreateCluster, SyncCluster, Resync, Calm, ceVars, classVars
  <1>3. ASSUME NEW k \in Clusters, ReconcileEnvironment(k) PROVE TypeOK' /\ copy' = copy
    <2> DEFINE jobs == {[k |-> k, c |-> c, version |-> cache[c].version] : c \in Pushed(k)}
    <2>1. \A c \in Classes : cache[c].version \in Nat BY ObjectTypes DEF ServiceClass
    <2>2. jobs \in SUBSET Job BY <2>1 DEF Job, Pushed
    <2>3. PushAll(k, First(jobs), FALSE, ceQueue \ {k})
      BY <1>3 DEF ReconcileEnvironment
    <2> HIDE DEF jobs
    <2>4. First(jobs) \in SUBSET Calls BY <2>2, FirstCalls
    <2>5. ceQueue \ {k} \in SUBSET Clusters BY DEF TypeOK
    <2>6. e' \in EnvironmentSteps /\ ceQueue' \subseteq Clusters
      BY <2>3, <2>4, <2>5, PushAllType
    <2>7. UNCHANGED <<queue, ce, ceCache, copy, calm>>
      BY <1>3 DEF ReconcileEnvironment
    <2> QED BY <1>1, <2>6, <2>7 DEF TypeOK
  <1>4. ASSUME NEW c \in Classes, NEW k \in Clusters, NEW n \in Spaces, Collect(c, k, n)
        PROVE  /\ TypeOK'
               /\ \A d \in Classes, l \in Clusters, m \in Spaces :
                    ~copy[d][l][m].dying => ~copy'[d][l][m].dying
    <2>1. NoCopy \in Copy /\ ~NoCopy.dying BY DEF NoCopy, Copy
    <2>2. copy' = [copy EXCEPT ![c][k][n] = NoCopy] /\ UNCHANGED <<queue, ceVars, e, calm>>
      BY <1>4 DEF Collect
    <2>3. /\ copy' \in [Classes -> [Clusters -> [Spaces -> Copy]]]
          /\ copy'[c][k][n] = NoCopy
          /\ \A d \in Classes, l \in Clusters, m \in Spaces :
               <<d, l, m>> # <<c, k, n>> => copy'[d][l][m] = copy[d][l][m]
      BY <2>1, <2>2, ReplaceCopy DEF TypeOK
    <2>4. TypeOK' BY <1>1, <2>2, <2>3 DEF TypeOK, ceVars
    <2> QED BY <2>1, <2>3, <2>4
  <1>5. CASE EnvironmentCall
    <2>1. /\ e.k \in Clusters /\ e.calls \in Calls /\ e.err \in BOOLEAN
          /\ ceQueue \in SUBSET Clusters
      BY <1>5 DEF EnvironmentCall, TypeOK, EnvironmentSteps, Idle
    <2>2. \A ok \in BOOLEAN : Rest(e.calls, ok) \in SUBSET Calls BY <2>1, RestCalls
    <2>3. PICK ok \in BOOLEAN, err \in BOOLEAN : PushAll(e.k, Rest(e.calls, ok), err, ceQueue)
      BY <1>5, <2>1 DEF EnvironmentCall
    <2>4. e' \in EnvironmentSteps /\ ceQueue' \subseteq Clusters
      BY <2>1, <2>2, <2>3, PushAllType
    <2>5. \/ UNCHANGED copy
          \/ PushServiceClassToNamespace(e.calls.job, Namespaces[e.calls.i])
      BY <1>5 DEF EnvironmentCall
    <2>6. /\ copy' \in [Classes -> [Clusters -> [Spaces -> Copy]]]
          /\ \A c \in Classes, k \in Clusters, n \in Spaces :
               ~copy[c][k][n].dying => ~copy'[c][k][n].dying
      <3>1. CASE UNCHANGED copy BY <3>1 DEF TypeOK
      <3>2. CASE PushServiceClassToNamespace(e.calls.job, Namespaces[e.calls.i])
        BY <2>1, <3>2, CallCopies
      <3> QED BY <2>5, <3>1, <3>2
    <2>7. UNCHANGED <<queue, ce, ceCache, calm>> BY <1>5 DEF EnvironmentCall
    <2>8. TypeOK' BY <1>1, <2>4, <2>6, <2>7 DEF TypeOK
    <2> QED BY <1>1, <2>6, <2>8
  <1>6. \A c \in Classes, k \in Clusters, n \in Spaces :
          Collected /\ ~copy[c][k][n].dying => ~copy'[c][k][n].dying
    BY <1>4 DEF Collected
  <1> QED BY <1>1, <1>2, <1>3, <1>4, <1>5, <1>6 DEF Collected, CreateCluster, SyncCluster, Resync, Calm

(* The class worker's steps keep the types. *)
LEMMA WorkerType ==
  ASSUME TypeOK, ClassWorker \/ \E c \in Classes : Reconcile(c)
  PROVE  TypeOK'
  <1>1. /\ class \in [Classes -> ServiceClass] /\ cache \in [Classes -> ServiceClass]
        /\ watch \in Seq(Event) /\ queue \in SUBSET Classes /\ ceCache \subseteq Clusters
        /\ w \in ClassSteps
    BY ObjectTypes DEF TypeOK
  <1>2. UNCHANGED <<cache, ceVars, e, calm>>
    BY DEF ClassWorker, AddFinalizer, PushClass, RemoveClass, RemoveFinalizer, Reconcile
  <1>3. Idle \in ClassSteps /\ Idle.pc = "idle" BY DEF ClassSteps, Idle
  <1>4. ASSUME NEW c \in Classes, NEW o \in ServiceClass, Write(c, o)
        PROVE  class' \in [Classes -> ServiceClass] /\ watch' \in Seq(Event)
    <2>1. [c |-> c, obj |-> o] \in Event BY DEF Event
    <2> QED BY <1>1, <1>4, <2>1, AppendEvents DEF Write
  <1>5. ASSUME class' \in [Classes -> ServiceClass], watch' \in Seq(Event),
               w' \in ClassSteps, w'.pc # "idle" => w'.obj.phase # "none",
               queue' \subseteq Classes, copy' \in [Classes -> [Clusters -> [Spaces -> Copy]]]
        PROVE  TypeOK'
    BY <1>2, <1>5 DEF TypeOK, ceVars, Event
  <1>6. copy \in [Classes -> [Clusters -> [Spaces -> Copy]]] BY DEF TypeOK
  <1>7. ASSUME NEW c \in Classes, Reconcile(c) PROVE TypeOK'
    <2>1. UNCHANGED <<class, watch, copy>> BY <1>7 DEF Reconcile, classVars
    <2>2. cache[c] \in ServiceClass /\ queue \ {c} \in SUBSET Classes BY <1>1
    <2>3. CASE cache[c].phase = "none" /\ queue' = queue \ {c} /\ UNCHANGED w
      BY <1>1, <1>5, <1>6, <2>1, <2>2, <2>3 DEF TypeOK
    <2>4. CASE /\ cache[c].phase = "new"
               /\ w' = [pc |-> "finalizer", c |-> c, obj |-> cache[c]]
               /\ queue' = queue \ {c}
      <3>1. w' \in ClassSteps /\ w'.obj = cache[c] BY <2>2, <2>4 DEF ClassSteps
      <3> QED BY <1>1, <1>5, <1>6, <2>1, <2>2, <2>4, <3>1
    <2>5. CASE /\ cache[c].phase \in {"live", "terminating"}
               /\ ListEnvironments(c, cache[c], queue \ {c})
      <3>1. /\ w' \in ClassSteps /\ queue' \subseteq Classes
            /\ w'.pc # "idle" => w'.obj = cache[c]
        BY <1>1, <2>2, <2>5, ListMeans
      <3> QED BY <1>1, <1>5, <1>6, <2>1, <2>5, <3>1
    <2> QED BY <1>7, <2>3, <2>4, <2>5 DEF Reconcile
  <1>8. CASE Requeue /\ UNCHANGED <<class, watch, copy>> /\ w.pc # "idle"
    BY <1>1, <1>3, <1>5, <1>6, <1>8, WorkerFields DEF Requeue
  <1>9. CASE AddFinalizer
    <2>1. /\ w.pc # "idle" /\ w.c \in Classes /\ w.obj \in ServiceClass /\ UNCHANGED copy
      BY <1>1, <1>9, WorkerFields DEF AddFinalizer
    <2> DEFINE o == [w.obj EXCEPT !.phase = "live"]
    <2>2. o \in ServiceClass /\ o.phase = "live" BY <2>1 DEF ServiceClass
    <2>3. \/ Requeue /\ UNCHANGED classVars
          \/ Write(w.c, o) /\ ListEnvironments(w.c, o, queue)
      BY <1>9 DEF AddFinalizer
    <2> HIDE DEF o
    <2>4. CASE Write(w.c, o) /\ ListEnvironments(w.c, o, queue)
      <3>1. /\ w' \in ClassSteps /\ queue' \subseteq Classes
            /\ w'.pc # "idle" => w'.obj = o
        BY <1>1, <2>1, <2>2, <2>4, ListMeans
      <3> QED BY <1>4, <1>5, <1>6, <2>1, <2>2, <2>4, <3>1
    <2> QED BY <1>8, <2>1, <2>3, <2>4 DEF classVars
  <1>10. CASE PushClass \/ RemoveClass
    <2>1. /\ w.pc \in {"push", "delete"} /\ w.calls \in Calls /\ w.obj.phase # "none"
          /\ UNCHANGED <<class, watch>>
      BY <1>1, <1>10, WorkerFields DEF PushClass, RemoveClass, TypeOK, classVars
    <2>2. \/ UNCHANGED copy
          \/ PushServiceClassToNamespace(w.calls.job, Namespaces[w.calls.i])
          \/ DeleteServiceClassFromNamespace(w.calls.job, Namespaces[w.calls.i])
      BY <1>10 DEF PushClass, RemoveClass
    <2>3. copy' \in [Classes -> [Clusters -> [Spaces -> Copy]]]
      BY <1>6, <2>1, <2>2, CallCopies
    <2>4. \/ \E ok \in BOOLEAN : Called(ok)
          \/ Requeue /\ UNCHANGED copy
      BY <1>10 DEF PushClass, RemoveClass
    <2>5. ASSUME NEW ok \in BOOLEAN, Called(ok) PROVE TypeOK'
      <3>1. /\ w' \in ClassSteps /\ queue' \subseteq Classes
            /\ w'.pc # "idle" => w'.obj = w.obj
        BY <2>1, <2>5, CalledMeans
      <3> QED BY <1>1, <1>5, <2>1, <2>3, <3>1
    <2> QED BY <1>8, <2>1, <2>4, <2>5
  <1>11. CASE RemoveFinalizer
    <2>1. /\ w.pc # "idle" /\ w.c \in Classes /\ w.obj \in ServiceClass /\ UNCHANGED copy
      BY <1>1, <1>11, WorkerFields DEF RemoveFinalizer
    <2> DEFINE o == [w.obj EXCEPT !.phase = "none"]
    <2>2. o \in ServiceClass BY <2>1 DEF ServiceClass
    <2>3. \/ Requeue /\ UNCHANGED classVars
          \/ Write(w.c, o) /\ w' = Idle /\ UNCHANGED queue
      BY <1>11 DEF RemoveFinalizer
    <2> HIDE DEF o
    <2>4. CASE Write(w.c, o) /\ w' = Idle /\ UNCHANGED queue
      BY <1>1, <1>3, <1>4, <1>5, <1>6, <2>1, <2>2, <2>4
    <2> QED BY <1>8, <2>1, <2>3, <2>4 DEF classVars
  <1> QED BY <1>7, <1>9, <1>10, <1>11 DEF ClassWorker

(* Every step keeps the types. *)
LEMMA TypeStep == TypeOK /\ [Next]_vars => TypeOK'
  <1> SUFFICES ASSUME TypeOK, [Next]_vars PROVE TypeOK'
    OBVIOUS
  <1>1. CASE UNCHANGED vars BY <1>1 DEF vars, TypeOK
  <1>2. CASE \E c \in Classes : CreateClass(c) \/ EditClass(c) \/ DeleteClass(c)
    BY <1>2, UserClassType
  <1>3. CASE \/ \E k \in Clusters : CreateCluster(k) \/ SyncCluster(k) \/ ReconcileEnvironment(k)
             \/ Resync \/ Calm \/ Collected \/ EnvironmentCall
    BY <1>3, OtherType
  <1>4. CASE ClassWorker \/ \E c \in Classes : Reconcile(c)
    BY <1>4, WorkerType
  <1>5. CASE Sync
    <2>1. watch' \in Seq(Event) /\ Head(watch) \in Event
      BY <1>5, ObjectTypes, TailEvents DEF Sync
    <2>2. Head(watch).c \in Classes /\ Head(watch).obj \in ServiceClass BY <2>1 DEF Event
    <2> QED BY <1>5, <2>1, <2>2 DEF Sync, TypeOK, ceVars, Event
  <1>6. CASE Crash
    <2>1. Idle \in ClassSteps /\ Idle \in EnvironmentSteps /\ Idle.pc = "idle"
          /\ << >> \in Seq(Event)
      BY DEF ClassSteps, EnvironmentSteps, Idle
    <2> QED BY <1>6, <2>1 DEF Crash, TypeOK, Event
  <1> QED BY <1>1, <1>2, <1>3, <1>4, <1>5, <1>6 DEF Next

(* The program starts with well-typed state. *)
LEMMA TypeInit == Init => TypeOK
  <1> SUFFICES ASSUME Init PROVE TypeOK
    OBVIOUS
  <1>1. [phase |-> "none", version |-> 0, constraints |-> Nil] \in ServiceClass
    BY DEF ServiceClass
  <1>2. NoCopy \in Copy BY DEF NoCopy, Copy
  <1>3. Idle \in ClassSteps /\ Idle \in EnvironmentSteps /\ Idle.pc = "idle"
    BY DEF ClassSteps, EnvironmentSteps, Idle
  <1>4. << >> \in Seq([c : Classes, obj : ServiceClass])
    OBVIOUS
  <1> QED BY <1>1, <1>2, <1>3, <1>4 DEF Init, TypeOK

(* Types: in particular the worker never works on a class that it has not  *)
(* found, and calls only namespaces that are in the list.                  *)
THEOREM ClassType == Spec => []TypeOK
  BY TypeInit, TypeStep, PTL DEF Spec
-----------------------------------------------------------------------------
(* The invariant. *)

(* A write of a class that does not make it managed, by a user or by the   *)
(* worker that removes the finalizer.                                      *)
LEMMA WriteInv ==
  ASSUME ClassInv, TypeOK', NEW c \in Classes, NEW o \in ServiceClass, Write(c, o),
         Age(class[c]) < Age(o), cache' = cache, w' = w \/ w' = Idle,
         o.phase = "live" => class[c].phase = "live",
         o.phase \in Managed => class[c].phase \in Managed
  PROVE  ClassInv'
  <1>1. /\ InOrder'
        /\ class'[c] = o /\ \A d \in Classes \ {c} : class'[d] = class[d]
        /\ \A d \in Classes : \A phases :
             Shown(d, phases) /\ (d = c => o.phase \in phases) => Shown(d, phases)'
    BY WriteInOrder DEF ClassInv
  <1>2. CacheKnows'
    <2>1. ASSUME NEW d \in Classes, class'[d].phase = "live" PROVE Shown(d, {"new", "live"})'
      BY <1>1, <2>1 DEF ClassInv, CacheKnows
    <2>2. ASSUME NEW d \in Classes, class'[d].phase \in Managed
          PROVE  Shown(d, {"new", "live", "terminating"})'
      BY <1>1, <2>2 DEF ClassInv, CacheKnows, Managed
    <2> QED BY <2>1, <2>2 DEF CacheKnows
  <1>3. WorkerKnows'
    <2>1. CASE w' = Idle BY <2>1 DEF WorkerKnows, Idle
    <2>2. CASE w' = w
      <3>1. w.pc # "idle" => w.c \in Classes BY WorkerFields DEF ClassInv, TypeOK
      <3> QED BY <1>1, <2>2, <3>1 DEF ClassInv, WorkerKnows
    <2> QED BY <2>1, <2>2
  <1>4. OneManaged'
    BY <1>1 DEF ClassInv, OneManaged, Managed
  <1> QED BY <1>1, <1>2, <1>3, <1>4 DEF ClassInv

(* Steps of the class worker, and of others, that write no class.          *)
LEMMA ReadInv ==
  ASSUME ClassInv, TypeOK', UNCHANGED <<class, cache, watch>>, WorkerKnows'
  PROVE  ClassInv'
  BY DEF ClassInv, InOrder, Events, CacheKnows, Shown, OneManaged

(* A delivery moves the cache towards the class.                           *)
LEMMA SyncInv ==
  ASSUME ClassInv, TypeOK', Sync
  PROVE  ClassInv'
  <1>1. /\ InOrder' /\ cache' \in [Classes -> ServiceClass]
        /\ \A d \in Classes : Age(cache[d]) <= Age(cache'[d])
        /\ \A d \in Classes : \A phases : Shown(d, phases) => Shown(d, phases)'
    BY SyncInOrder DEF ClassInv
  <1>2. UNCHANGED <<class, w>> BY DEF Sync
  <1>3. CacheKnows' /\ OneManaged'
    BY <1>1, <1>2 DEF ClassInv, CacheKnows, OneManaged
  <1>4. WorkerKnows'
    <2>1. ASSUME w.pc = "finalizer" PROVE Age(w.obj) <= Age(cache'[w.c])
      <3>1. /\ w.c \in Classes /\ Age(w.obj) <= Age(cache[w.c])
            /\ Age(w.obj) \in Nat /\ Age(cache[w.c]) \in Nat /\ Age(cache'[w.c]) \in Nat
        BY <1>1, <2>1, WorkerFields, ObjectTypes, AgeType DEF ClassInv, TypeOK, WorkerKnows
      <3> QED BY <1>1, <3>1
    <2> QED BY <1>2, <2>1 DEF ClassInv, WorkerKnows
  <1> QED BY <1>1, <1>3, <1>4 DEF ClassInv

(* After a restart the cache is up to date and the worker idle.            *)
LEMMA CrashInv ==
  ASSUME ClassInv, TypeOK', Crash
  PROVE  ClassInv'
  <1>1. cache' = class /\ class' = class /\ w'.pc = "idle" /\ Events' = {}
    BY DEF Crash, Idle, Events
  <1>2. InOrder'
    BY <1>1, ObjectTypes DEF ClassInv, InOrder
  <1>3. CacheKnows'
    BY <1>1 DEF CacheKnows, Shown, Managed
  <1>4. WorkerKnows' /\ OneManaged'
    BY <1>1 DEF ClassInv, WorkerKnows, OneManaged
  <1> QED BY <1>2, <1>3, <1>4 DEF ClassInv

(* The worker takes a class from the cache: one that the cache shows in    *)
(* deletion is not live.                                                   *)
LEMMA ReconcileInv ==
  ASSUME ClassInv, TypeOK', NEW c \in Classes, Reconcile(c)
  PROVE  ClassInv'
  <1>1. /\ UNCHANGED <<class, cache, watch>> /\ cache[c] \in ServiceClass
        /\ Age(cache[c]) \in Nat
        /\ queue \ {c} \in SUBSET Classes /\ ceCache \subseteq Clusters
    BY ObjectTypes DEF Reconcile, classVars, ClassInv, TypeOK
  <1>2. cache[c].phase = "terminating" => class[c].phase # "live"
    BY DEF ClassInv, CacheKnows, Shown
  <1>3. CASE UNCHANGED w
    BY <1>1, <1>3, ReadInv DEF ClassInv, WorkerKnows
  <1>4. CASE /\ cache[c].phase = "new"
             /\ w' = [pc |-> "finalizer", c |-> c, obj |-> cache[c]]
    <2>1. WorkerKnows' BY <1>1, <1>4 DEF WorkerKnows
    <2> QED BY <1>1, <2>1, ReadInv
  <1>5. CASE ListEnvironments(c, cache[c], queue \ {c})
    <2>1. /\ w'.pc # "idle" => w'.c = c
          /\ w'.pc \in {"idle", "push", "delete", "removeFinalizer"}
          /\ w'.pc \in {"delete", "removeFinalizer"} => cache[c].phase = "terminating"
          /\ w'.pc \in {"push", "delete"}
              => \A j \in {w'.calls.job} \cup w'.calls.left : j.c = c
      BY <1>1, <1>5, ListMeans
    <2>2. WorkerKnows' BY <1>1, <1>2, <2>1 DEF WorkerKnows
    <2> QED BY <1>1, <2>2, ReadInv
  <1> QED BY <1>3, <1>4, <1>5 DEF Reconcile

(* The finalizer is set from the current version only, which the cache     *)
(* has then caught up with, and while the cache holds no other class for   *)
(* the kind: whichever class is managed is in it.                          *)
LEMMA AddFinalizerInv ==
  ASSUME ClassInv, TypeOK', AddFinalizer
  PROVE  ClassInv'
  <1>1. /\ w.pc = "finalizer" /\ w.c \in Classes /\ w.obj \in ServiceClass
        /\ cache' = cache /\ queue \in SUBSET Classes /\ ceCache \subseteq Clusters
        /\ w.obj.phase = "new" /\ Age(w.obj) <= Age(cache[w.c])
    BY WorkerFields DEF AddFinalizer, ClassInv, TypeOK, WorkerKnows
  <1>2. CASE Requeue /\ UNCHANGED classVars
    <2>1. WorkerKnows' BY <1>2 DEF Requeue, WorkerKnows, Idle
    <2> QED BY <1>1, <1>2, <2>1, ReadInv DEF classVars
  <1>3. CASE /\ class[w.c] = w.obj /\ ValidateUpdate(w.c)
             /\ LET obj == [w.obj EXCEPT !.phase = "live"]
                IN  Write(w.c, obj) /\ ListEnvironments(w.c, obj, queue)
    <2> DEFINE c == w.c
               o == [w.obj EXCEPT !.phase = "live"]
    <2>1. o \in ServiceClass /\ o.phase = "live" /\ Write(c, o) /\ ListEnvironments(c, o, queue)
      BY <1>1, <1>3 DEF ServiceClass
    <2>2. Age(class[c]) < Age(o)
      BY <1>1, <1>3 DEF ServiceClass, Age, PhaseAge
    <2> HIDE DEF c, o
    <2>0. c \in Classes BY <1>1 DEF c
    <2>3. /\ InOrder'
          /\ class'[c] = o /\ \A d \in Classes \ {c} : class'[d] = class[d]
          /\ \A d \in Classes : \A phases :
               Shown(d, phases) /\ (d = c => o.phase \in phases) => Shown(d, phases)'
      BY <1>1, <2>0, <2>1, <2>2, WriteInOrder DEF ClassInv
    <2>4. /\ Age(cache[c]) = Age(class[c]) /\ Age(class[c]) \in Nat
          /\ cache[c] \in ServiceClass /\ class[c] \in ServiceClass /\ class[c].phase = "new"
      <3>1. /\ Age(cache[c]) <= Age(class[c]) /\ Age(cache[c]) \in Nat /\ Age(class[c]) \in Nat
            /\ cache[c] \in ServiceClass /\ class[c] \in ServiceClass
        BY <2>0, ObjectTypes DEF ClassInv, InOrder
      <3> QED BY <1>1, <1>3, <3>1 DEF c
    <2>5. cache[c].phase = "new" BY <2>4, AgeTellsPhase
    <2>6. \A i \in Events : watch[i].c # c
      <3> SUFFICES ASSUME NEW i \in Events, watch[i].c = c PROVE FALSE
        OBVIOUS
      <3>1. Age(cache[c]) < Age(watch[i].obj) /\ Age(watch[i].obj) <= Age(class[c])
        BY DEF ClassInv, InOrder
      <3>2. Age(watch[i].obj) \in Nat BY ObjectTypes DEF ClassInv
      <3> QED BY <2>4, <3>1, <3>2
    <2>7. Shown(c, {"new", "live"}) /\ Shown(c, {"new", "live", "terminating"})
      BY <2>5, <2>6 DEF Shown
    <2>8. CacheKnows'
      <3>1. ASSUME NEW d \in Classes, class'[d].phase = "live" PROVE Shown(d, {"new", "live"})'
        BY <2>1, <2>3, <2>7, <3>1 DEF ClassInv, CacheKnows
      <3>2. ASSUME NEW d \in Classes, class'[d].phase \in Managed
            PROVE  Shown(d, {"new", "live", "terminating"})'
        BY <2>1, <2>3, <2>7, <3>2 DEF ClassInv, CacheKnows, Managed
      <3> QED BY <3>1, <3>2 DEF CacheKnows
    <2>9. \A d \in Classes \ {c} : Kind[d] = Kind[c] => class[d].phase \notin Managed
      <3>1. \A d \in Classes \ {c} : Kind[d] = Kind[c] => cache[d].phase = "none"
        BY <1>3 DEF ValidateUpdate, IsDuplicateClass, c
      <3> QED BY <3>1 DEF ClassInv, CacheKnows, Shown
    <2>10. OneManaged'
      BY <2>0, <2>3, <2>9 DEF ClassInv, OneManaged, Managed
    <2>11. WorkerKnows'
      <3>1. /\ w'.pc # "idle" => w'.c = c
            /\ w'.pc \in {"idle", "push", "delete", "removeFinalizer"}
            /\ w'.pc \in {"delete", "removeFinalizer"} => o.phase = "terminating"
            /\ w'.pc \in {"push", "delete"}
                => \A j \in {w'.calls.job} \cup w'.calls.left : j.c = c
        BY <1>1, <2>0, <2>1, ListMeans
      <3> QED BY <2>1, <3>1 DEF WorkerKnows
    <2> QED BY <2>3, <2>8, <2>10, <2>11 DEF ClassInv
  <1> QED BY <1>2, <1>3 DEF AddFinalizer

(* The worker's calls, and its removal of the finalizer.                   *)
LEMMA CallInv ==
  ASSUME ClassInv, TypeOK', PushClass \/ RemoveClass \/ RemoveFinalizer
  PROVE  ClassInv'
  <1>1. CASE Requeue /\ UNCHANGED <<class, cache, watch>>
    <2>1. WorkerKnows' BY <1>1 DEF Requeue, WorkerKnows, Idle
    <2> QED BY <1>1, <2>1, ReadInv
  <1>2. CASE PushClass \/ RemoveClass
    <2>1. w.pc \in {"push", "delete"} /\ UNCHANGED <<class, cache, watch>>
      BY <1>2 DEF PushClass, RemoveClass, classVars
    <2>2. Requeue \/ \E ok \in BOOLEAN : Called(ok)
      BY <1>2 DEF PushClass, RemoveClass
    <2>3. ASSUME NEW ok \in BOOLEAN, Called(ok) PROVE WorkerKnows'
      <3>1. /\ w'.pc # "idle" => w'.c = w.c /\ w'.obj = w.obj
            /\ w'.pc \in {"idle", w.pc} \/ (w.pc = "delete" /\ w'.pc = "removeFinalizer")
            /\ w'.pc \in {"push", "delete"}
              => {w'.calls.job} \cup w'.calls.left \subseteq {w.calls.job} \cup w.calls.left
        BY <2>1, <2>3, CalledMeans DEF ClassInv
      <3> QED BY <2>1, <3>1 DEF ClassInv, WorkerKnows
    <2> QED BY <1>1, <2>1, <2>2, <2>3, ReadInv
  <1>3. CASE RemoveFinalizer
    <2>1. /\ w.c \in Classes /\ w.obj \in ServiceClass /\ cache' = cache
          /\ w.pc = "removeFinalizer" /\ w.obj.phase # "none"
      BY <1>3, WorkerFields DEF RemoveFinalizer, ClassInv, TypeOK
    <2> DEFINE o == [w.obj EXCEPT !.phase = "none"]
    <2>a. /\ o \in ServiceClass /\ o.phase = "none" /\ o.version = w.obj.version
          /\ o.version \in Nat /\ w.obj.phase \in {"new", "live", "terminating"}
      BY <2>1 DEF ServiceClass
    <2>2. o \in ServiceClass /\ o.phase = "none" /\ Age(w.obj) < Age(o)
      BY <2>1, <2>a DEF Age, PhaseAge
    <2>3. \/ Requeue /\ UNCHANGED classVars
          \/ class[w.c] = w.obj /\ Write(w.c, o) /\ w' = Idle
      BY <1>3 DEF RemoveFinalizer
    <2> HIDE DEF o
    <2> QED BY <1>1, <2>1, <2>2, <2>3, WriteInv DEF classVars, Managed
  <1> QED BY <1>2, <1>3

(* Every step keeps the invariant. *)
LEMMA ClassInvStep == ClassInv /\ [Next]_vars => ClassInv'
  <1> SUFFICES ASSUME ClassInv, [Next]_vars PROVE ClassInv'
    OBVIOUS
  <1>0. TypeOK' BY TypeStep DEF ClassInv
  <1>1. CASE UNCHANGED <<class, cache, watch, w>>
    BY <1>0, <1>1, ReadInv DEF ClassInv, WorkerKnows
  <1>2. CASE \E c \in Classes : CreateClass(c) \/ EditClass(c) \/ DeleteClass(c)
    BY <1>0, <1>2, UserClassType, WriteInv DEF ClassInv
  <1>3. CASE \/ \E k \in Clusters : CreateCluster(k) \/ SyncCluster(k) \/ ReconcileEnvironment(k)
             \/ Resync \/ Calm \/ Collected \/ EnvironmentCall
    BY <1>1, <1>3, OtherType DEF ClassInv
  <1>4. CASE ClassWorker \/ \E c \in Classes : Reconcile(c)
    BY <1>0, <1>4, ReconcileInv, AddFinalizerInv, CallInv DEF ClassWorker
  <1>5. CASE Sync BY <1>0, <1>5, SyncInv
  <1>6. CASE Crash BY <1>0, <1>6, CrashInv
  <1> QED BY <1>1, <1>2, <1>3, <1>4, <1>5, <1>6 DEF Next, vars

(* The invariant of classes: the watch keeps the order of the writes, the  *)
(* cache has shown every class that is managed, and the worker that        *)
(* deletes copies of a class is the only one that could manage it anew.    *)
THEOREM ClassInvHolds == Spec => []ClassInv
  <1>1. ASSUME Init PROVE ClassInv
    <2>1. TypeOK BY <1>1, TypeInit
    <2>2. cache = class /\ w.pc = "idle" /\ Events = {}
      BY <1>1 DEF Init, Idle, Events
    <2>3. \A c \in Classes : class[c].phase = "none" BY <1>1 DEF Init
    <2>4. InOrder BY <2>1, <2>2, ObjectTypes DEF InOrder
    <2> QED BY <2>1, <2>2, <2>3, <2>4 DEF ClassInv, CacheKnows, WorkerKnows, OneManaged, Managed
  <1> QED BY <1>1, ClassInvStep, PTL DEF Spec

(* However far the webhook's cache is behind, and whatever it has admitted *)
(* meanwhile, of two classes for one kind only one is ever managed.        *)
THEOREM OneClassManaged == Spec => []OneManaged
  <1>1. ClassInv => OneManaged BY DEF ClassInv
  <1> QED BY <1>1, ClassInvHolds, PTL

(* A deletion that is worked on late never takes the current copy from a   *)
(* class that was created anew and is managed.                             *)
THEOREM CopiesKept == Spec => LiveKeepsCopies
  <1>1. ASSUME ClassInv, [Next]_vars, NEW c \in Classes, NEW k \in Clusters, NEW n \in Spaces,
               class[c].phase = "live", ~copy[c][k][n].dying
        PROVE  ~copy'[c][k][n].dying
    <2>1. CASE UNCHANGED copy BY <1>1, <2>1
    <2>2. CASE \/ \E l \in Clusters :
                    CreateCluster(l) \/ SyncCluster(l) \/ ReconcileEnvironment(l)
               \/ Resync \/ Calm \/ Collected \/ EnvironmentCall
      BY <1>1, <2>2, OtherType DEF ClassInv
    <2>3. CASE PushClass
      <3>1. w.calls \in Calls
        BY <1>1, <2>3, WorkerFields DEF PushClass, ClassInv, TypeOK
      <3>2. CASE PushServiceClassToNamespace(w.calls.job, Namespaces[w.calls.i])
        BY <1>1, <3>1, <3>2, CallCopies DEF ClassInv
      <3> QED BY <2>1, <2>3, <3>2 DEF PushClass
    <2>4. CASE RemoveClass
      <3>1. w.calls \in Calls /\ w.calls.job.c = w.c /\ class[w.c].phase # "live"
        BY <1>1, <2>4, WorkerFields DEF RemoveClass, ClassInv, TypeOK, WorkerKnows
      <3>2. CASE DeleteServiceClassFromNamespace(w.calls.job, Namespaces[w.calls.i])
        BY <1>1, <3>1, <3>2, CallCopies DEF ClassInv
      <3> QED BY <2>1, <2>4, <3>2 DEF RemoveClass
    <2>5. \/ UNCHANGED copy \/ PushClass \/ RemoveClass
          \/ \E l \in Clusters : CreateCluster(l) \/ SyncCluster(l) \/ ReconcileEnvironment(l)
          \/ Resync \/ Calm \/ Collected \/ EnvironmentCall
      BY <1>1 DEF Next, vars, CreateClass, EditClass, DeleteClass, Reconcile, Sync, Crash,
         ClassWorker, AddFinalizer, RemoveFinalizer
    <2> QED BY <2>1, <2>2, <2>3, <2>4, <2>5
  <1>2. ClassInv /\ [Next]_vars
          => [\A c \in Classes, k \in Clusters, n \in Spaces :
                class[c].phase = "live" /\ copy[c][k][n] = Current(c)
                  => ~copy'[c][k][n].dying]_vars
    BY <1>1 DEF Current
  <1> QED BY <1>2, ClassInvHolds, PTL DEF Spec, LiveKeepsCopies
=============================================================================
