--------------------------- MODULE WorkloadProofs ---------------------------
(***************************************************************************)
(* The agent that projects a ServiceBinding never rests on unfinished      *)
(* work, for any sets of workloads and secrets, any operations of users    *)
(* and any number of restarts, as long as no call to the API server fails. *)
(***************************************************************************)
EXTENDS WorkloadBinding, SequenceTheorems, TLAPS

(* Another reconciliation is certain: one is queued, or will be when the   *)
(* cache is brought up to date,                                            *)
Pending == queued \/ "cache" \notin fresh

(* or will be when the one under way ends.                                 *)
Due ==
  \/ Pending
  \/ rec.pc \in {"noApps", "malformed", "unbind"}
  \/ rec.pc = "bind" /\ rec.err
  \/ rec.pc \in {"apps", "secret", "bind", "own"} /\ secrets[rec.secret] # "owned"

(* Who sees to it that w ends up with the secret and in the connections:   *)
(* the handler, having begun with a copy of w that is current,             *)
HandlerOn(w) ==
  /\ w \in hnd.of
  /\ \/ hnd.pc \in {"secret", "get"} /\ w \in held["hnd"]
     \/ hnd.pc = "bind" /\ w \in held["hnd"] /\ "hnd" \in fresh
     \/ /\ hnd.pc = "status" /\ "hnd" \in fresh /\ ~hnd.err
        /\ workloads[w].volume = binding.secret

(* or the reconciler, whose list has w.                                    *)
ReconcilerOn(w) ==
  \/ rec.pc = "secret" /\ w \in rec.apps
  \/ rec.pc = "bind" /\ w \in rec.todo
  \/ rec.pc = "bind" /\ w \in rec.apps /\ workloads[w].volume = binding.secret

Served(w) == workloads[w].volume = binding.secret /\ w \in binding.connections

Covered(w) == events[w] # << >> \/ HandlerOn(w) \/ ReconcilerOn(w) \/ Served(w)

(* The reconciler works with the secret of the binding, or the binding has *)
(* changed since, and there will be another reconciliation.                *)
RecCopy ==
  /\ "cache" \in fresh => cache = binding
  /\ Live /\ ~Pending /\ rec.pc \notin {"idle", "lookup", "finalize"}
       => rec.secret = binding.secret
  /\ Live /\ rec.pc \in {"lookup", "finalize"} => Pending
  /\ rec.pc = "bind" => rec.todo \subseteq rec.apps

(* The handler works on one workload, with the secret the informer knows   *)
(* and with that of its copy of the binding.                               *)
HndCopy ==
  /\ \A v, w \in hnd.of : v = w
  /\ hnd.pc \notin {"idle", "prune"} => hnd.ps = informer.secret
  /\ hnd.pc \in {"bind", "status"} /\ "hnd" \in fresh => hnd.secret = binding.secret

NewestOf(w) == IF workloads[w].exists THEN workloads[w].labels ELSE "deleted"

(* The newest event of every workload is the last. *)
Watching ==
  \A w \in Workloads : events[w] # << >> => events[w][Len(events[w])] = NewestOf(w)

(* What the last reconciliation wrote. *)
Stands ==
  /\ rec.pc \in {"idle", "own"} =>
       binding.reason = "Successful" /\ binding.state = "Ready"
  /\ rec.pc = "idle" => secrets[binding.secret] = "owned"

AllCovered == ClosureCurrent /\ rec.pc # "apps" => \A w \in Selected : Covered(w)

(* Without another reconciliation the informer is on, what the last one    *)
(* wrote stands, and somebody sees to every selected workload.             *)
Attended == Live /\ ~Due => informer.on /\ Stands /\ AllCovered

RestInv == RecCopy /\ HndCopy /\ Watching /\ Attended
-----------------------------------------------------------------------------
(* Types. *)

EventKinds == {"all", "some", "none", "deleted"}

(* Two ways to put an event last. *)
LEMMA LastAppended ==
  ASSUME NEW S, NEW q \in Seq(S), NEW e \in S, NEW b \in Nat, Len(q) < b
  PROVE  /\ Append(q, e) \in Seq(S) /\ Append(q, e) # << >>
         /\ Len(Append(q, e)) <= b /\ Append(q, e)[Len(Append(q, e))] = e
  <1>1. Len(q) \in Nat BY LenProperties
  <1>2. /\ Append(q, e) \in Seq(S) /\ Append(q, e) # << >>
        /\ Len(Append(q, e)) = Len(q) + 1 /\ Append(q, e)[Len(q) + 1] = e
    BY AppendProperties
  <1> QED BY <1>1, <1>2

LEMMA LastReplaced ==
  ASSUME NEW S, NEW q \in Seq(S), NEW e \in S, NEW b \in Nat \ {0},
         ~(Len(q) < b), Len(q) <= b
  PROVE  /\ [q EXCEPT ![Len(q)] = e] \in Seq(S) /\ [q EXCEPT ![Len(q)] = e] # << >>
         /\ Len([q EXCEPT ![Len(q)] = e]) <= b
         /\ [q EXCEPT ![Len(q)] = e][Len([q EXCEPT ![Len(q)] = e])] = e
  <1>1. Len(q) \in Nat /\ Len(<< >>) = 0 BY LenProperties
  <1>2. Len(q) \in 1 .. Len(q) /\ Len(q) # 0 BY <1>1
  <1> DEFINE r == [q EXCEPT ![Len(q)] = e]
  <1>3. r \in Seq(S) /\ Len(r) = Len(q) /\ r[Len(q)] = e
    BY <1>2, ExceptSeq
  <1> HIDE DEF r
  <1>4. r # << >> BY <1>1, <1>2, <1>3
  <1>5. Len(r) <= b /\ r[Len(r)] = e BY <1>3
  <1> QED BY <1>3, <1>4, <1>5 DEF r

(* What the informer is told of w: its newest event is last. *)
Telling(ev, w, e) ==
  /\ ev \in [Workloads -> Seq(EventKinds)]
  /\ \A v \in Workloads : Len(ev[v]) <= Backlog
  /\ ~informer.on => ev = events
  /\ \A v \in Workloads \ {w} : ev[v] = events[v]
  /\ informer.on => ev[w] # << >> /\ ev[w][Len(ev[w])] = e

LEMMA NotifiedTells ==
  ASSUME TypeOK, NEW w \in Workloads, NEW e \in EventKinds
  PROVE  Telling(Notified(w, e), w, e)
  <1> DEFINE q == events[w]
  <1>1. /\ events \in [Workloads -> Seq(EventKinds)]
        /\ \A v \in Workloads : Len(events[v]) <= Backlog
    BY DEF TypeOK, EventKinds
  <1>2. q \in Seq(EventKinds) /\ Len(q) <= Backlog BY <1>1
  <1>3. Backlog \in Nat \ {0} BY WorkloadAssumption
  <1>4. CASE ~informer.on
    <2>1. Notified(w, e) = events BY <1>4 DEF Notified
    <2> QED BY <1>1, <1>4, <2>1 DEF Telling
  <1>5. ASSUME informer.on, NEW r,
               r \in Seq(EventKinds), r # << >>, Len(r) <= Backlog, r[Len(r)] = e
        PROVE  Telling([events EXCEPT ![w] = r], w, e)
    BY <1>1, <1>5 DEF Telling
  <1>6. CASE informer.on /\ Len(q) < Backlog
    <2>1. Notified(w, e) = [events EXCEPT ![w] = Append(q, e)] BY <1>6 DEF Notified
    <2>2. /\ Append(q, e) \in Seq(EventKinds) /\ Append(q, e) # << >>
          /\ Len(Append(q, e)) <= Backlog /\ Append(q, e)[Len(Append(q, e))] = e
      BY <1>2, <1>3, <1>6, LastAppended
    <2> QED BY <1>5, <1>6, <2>1, <2>2
  <1>7. CASE informer.on /\ ~(Len(q) < Backlog)
    <2> DEFINE r == [q EXCEPT ![Len(q)] = e]
    <2>1. Notified(w, e) = [events EXCEPT ![w] = r]
      BY <1>7 DEF Notified
    <2>2. r \in Seq(EventKinds) /\ r # << >> /\ Len(r) <= Backlog /\ r[Len(r)] = e
      BY <1>2, <1>3, <1>7, LastReplaced
    <2> HIDE DEF r
    <2> QED BY <1>5, <1>7, <2>1, <2>2
  <1> QED BY <1>4, <1>6, <1>7

LEMMA NewVolume ==
  ASSUME NEW o \in Workload, NEW s \in Secrets, NEW p \in Secrets
  PROVE  /\ Bound(o, s, p) \in Workload /\ Bound(o, s, p).volume = s
         /\ Bound(o, s, p).exists = o.exists /\ Bound(o, s, p).labels = o.labels
  BY DEF Bound, Workload, EnvVars, removeServiceBindingEnvironments

LEMMA NoVolume ==
  ASSUME NEW o \in Workload, NEW s
  PROVE  /\ Unbound(o, s) \in Workload
         /\ Unbound(o, s).exists = o.exists /\ Unbound(o, s).labels = o.labels
  BY DEF Unbound, Workload, EnvVars, removeServiceBindingEnvironments

Threads == {"rec", "hnd"}

(* What TypeOK says of workloads, copies and events. *)
WorkTypes ==
  /\ workloads \in [Workloads -> Workload]
  /\ held \in [Threads -> SUBSET Workloads]
  /\ events \in [Workloads -> Seq(EventKinds)]
  /\ \A w \in Workloads : Len(events[w]) <= Backlog

LEMMA WorkTyped ==
  ASSUME TypeOK PROVE WorkTypes
  BY DEF TypeOK, WorkTypes, EventKinds, Threads

(* A workload is stored: copies of it are out of date, and it has an event *)
(* if the informer is on.                                                  *)
StoreOf(w, o) ==
  /\ workloads'[w] = o
  /\ \A v \in Workloads \ {w} : workloads'[v] = workloads[v]
  /\ \A t \in Threads : held'[t] = held[t] \ {w}
  /\ Telling(events', w, NewestOf(w)')

LEMMA StoreEffect ==
  ASSUME TypeOK, NEW w \in Workloads, NEW o \in Workload, StoreWorkload(w, o)
  PROVE  WorkTypes' /\ StoreOf(w, o)
  <1>1. WorkTypes BY WorkTyped
  <1>2. workloads' = [workloads EXCEPT ![w] = o] BY DEF StoreWorkload
  <1>3. held' = [t \in Threads |-> held[t] \ {w}] BY DEF StoreWorkload, Threads
  <1>4. workloads' \in [Workloads -> Workload] /\ workloads'[w] = o
        /\ \A v \in Workloads \ {w} : workloads'[v] = workloads[v]
    BY <1>1, <1>2 DEF WorkTypes
  <1>5. held' \in [Threads -> SUBSET Workloads] /\ \A t \in Threads : held'[t] = held[t] \ {w}
    BY <1>1, <1>3 DEF WorkTypes
  <1> DEFINE e == IF o.exists THEN o.labels ELSE "deleted"
  <1>6. e \in EventKinds BY DEF Workload, EventKinds
  <1>7. e = NewestOf(w)' BY <1>4 DEF NewestOf
  <1>8. events' = Notified(w, e) BY DEF StoreWorkload
  <1> HIDE DEF e
  <1>9. Telling(events', w, e) BY <1>6, <1>8, NotifiedTells
  <1> QED BY <1>4, <1>5, <1>7, <1>9 DEF WorkTypes, StoreOf, Telling

LEMMA PutEffect ==
  ASSUME TypeOK, NEW t \in Threads, NEW w \in Workloads, NEW o \in Workload,
         NEW ok \in BOOLEAN, PutWorkload(t, w, o, ok)
  PROVE  /\ WorkTypes'
         /\ \/ ok /\ StoreOf(w, o)
            \/ /\ UNCHANGED <<workloads, events>>
               /\ \A u \in Threads : held'[u] = IF u = t THEN held[u] \ {w} ELSE held[u]
               /\ ok => workloads[w] = o
               /\ ~ok => w \notin held[t] \/ Fails
  <1>1. WorkTypes BY WorkTyped
  <1>2. CASE ok /\ w \in held[t] /\ StoreWorkload(w, o) BY <1>2, StoreEffect
  <1>3. CASE /\ IF ok THEN w \in held[t] /\ o = workloads[w] ELSE w \notin held[t] \/ Fails
             /\ held' = [held EXCEPT ![t] = @ \ {w}]
             /\ UNCHANGED <<workloads, events>>
    <2>1. \A u \in Threads : held'[u] = IF u = t THEN held[u] \ {w} ELSE held[u]
      BY <1>1, <1>3 DEF WorkTypes
    <2>2. WorkTypes' BY <1>1, <1>3 DEF WorkTypes
    <2> QED BY <1>3, <2>1, <2>2
  <1> QED BY <1>2, <1>3 DEF PutWorkload

(* A write that succeeds has stored the workload, or found it as it is.    *)
LEMMA PutDone ==
  ASSUME TypeOK, NEW t \in Threads, NEW w \in Workloads, NEW o \in Workload,
         PutWorkload(t, w, o, TRUE)
  PROVE  StoreOf(w, o) \/ (UNCHANGED <<workloads, events>> /\ workloads[w] = o)
  <1>1. CASE w \in held[t] /\ StoreWorkload(w, o) BY <1>1, StoreEffect
  <1>2. CASE UNCHANGED <<workloads, events>> /\ o = workloads[w] BY <1>2
  <1> QED BY <1>1, <1>2 DEF PutWorkload

(* A status is written, or not: a changed one leaves no copy current.      *)
LEMMA StatusEffect ==
  ASSUME TypeOK, NEW t \in Threads, NEW st \in {"Malformed", "Ready"},
         NEW reason \in Reasons, NEW conns \in SUBSET Workloads, NEW ok \in BOOLEAN,
         PutStatus(t, st, reason, conns, ok)
  PROVE  /\ binding' \in Binding /\ fresh' \subseteq fresh
         /\ binding'.phase = binding.phase /\ binding'.secret = binding.secret
         /\ binding' # binding => fresh' = {}
         /\ ok => /\ binding'.state = st /\ binding'.reason = reason
                  /\ binding'.connections = conns
         /\ binding' = binding => fresh' = fresh \ {t}
         /\ ~ok => binding' = binding /\ (t \notin fresh \/ Fails)
  <1>1. CASE ok
    <2>1. binding' = [binding EXCEPT !.state = st, !.reason = reason, !.connections = conns]
          /\ fresh' = IF binding' = binding THEN fresh \ {t} ELSE {}
      BY <1>1 DEF PutStatus
    <2>2. binding \in Binding BY DEF TypeOK
    <2>3. /\ binding' \in Binding
          /\ binding'.phase = binding.phase /\ binding'.secret = binding.secret
          /\ binding'.state = st /\ binding'.reason = reason /\ binding'.connections = conns
      BY <2>1, <2>2 DEF Binding
    <2> QED BY <1>1, <2>1, <2>3
  <1>2. CASE ~ok
    <2>1. binding' = binding /\ fresh' = fresh \ {t} /\ (t \notin fresh \/ Fails)
      BY <1>2 DEF PutStatus
    <2> QED BY <1>2, <2>1 DEF TypeOK
  <1> QED BY <1>1, <1>2

(* A status that is written has the connections it was written with.       *)
LEMMA StatusWritten ==
  ASSUME TypeOK, NEW t \in Threads, NEW st, NEW reason, NEW conns,
         PutStatus(t, st, reason, conns, TRUE)
  PROVE  /\ binding' # binding => fresh' = {}
         /\ binding' = binding => fresh' = fresh \ {t}
         /\ binding'.connections = conns
  <1>1. binding' = [binding EXCEPT !.state = st, !.reason = reason, !.connections = conns]
        /\ fresh' = IF binding' = binding THEN fresh \ {t} ELSE {}
    BY DEF PutStatus
  <1>2. binding'.connections = conns BY <1>1 DEF TypeOK, Binding
  <1> QED BY <1>1, <1>2

(* What TypeOK says of the rest. *)
BindingTypes ==
  /\ binding \in Binding /\ cache \in Binding
  /\ fresh \subseteq {"cache", "rec", "hnd", "closure"}
  /\ secrets \in [Secrets -> {"absent", "free", "owned", "old"}]

AgentTypes ==
  /\ queued \in BOOLEAN /\ calm \in BOOLEAN
  /\ rec \in Reconciler /\ hnd \in Handler
  /\ informer \in [on : BOOLEAN, secret : Secrets \cup {NoSecret}]

LEMMA Types == TypeOK <=> BindingTypes /\ AgentTypes /\ WorkTypes
  BY DEF TypeOK, BindingTypes, AgentTypes, WorkTypes, EventKinds, Threads

LEMMA TypesNext ==
  ASSUME BindingTypes', AgentTypes', WorkTypes' PROVE TypeOK'
  BY DEF TypeOK, BindingTypes, AgentTypes, WorkTypes, EventKinds, Threads

(* What a step leaves alone stays typed. *)
LEMMA TypesStay ==
  ASSUME TypeOK
  PROVE  /\ UNCHANGED <<binding, cache, fresh, secrets>> => BindingTypes'
         /\ UNCHANGED <<queued, rec, informer, hnd, calm>> => AgentTypes'
         /\ UNCHANGED <<workloads, held, events>> => WorkTypes'
  <1>1. UNCHANGED <<binding, cache, fresh, secrets>> => BindingTypes'
    BY Types DEF BindingTypes
  <1>2. UNCHANGED <<queued, rec, informer, hnd, calm>> => AgentTypes'
    BY Types DEF AgentTypes
  <1>3. UNCHANGED <<workloads, held, events>> => WorkTypes'
    BY Types DEF WorkTypes
  <1> QED BY <1>1, <1>2, <1>3

LEMMA IdleTyped == Idle \in Reconciler /\ HandlerIdle \in Handler
  BY DEF Idle, HandlerIdle, Reconciler, Handler

(* A secret is written. *)
LEMMA SecretTyped ==
  ASSUME TypeOK, NEW s \in Secrets, NEW st \in {"absent", "free", "owned", "old"},
         StoreSecret(s, st), UNCHANGED <<binding, cache, fresh, informer, hnd, calm>>,
         queued' \in BOOLEAN
  PROVE  BindingTypes' /\ AgentTypes'
  <1>1. secrets' \in [Secrets -> {"absent", "free", "owned", "old"}]
    BY Types DEF BindingTypes, StoreSecret
  <1>2. rec' \in Reconciler
    BY Types DEF AgentTypes, StoreSecret, Reconciler
  <1>3. BindingTypes' BY <1>1, Types DEF BindingTypes
  <1>4. AgentTypes' BY <1>2, Types DEF AgentTypes
  <1> QED BY <1>3, <1>4

(* What a user applies. *)
LEMMA AppliedWorkload ==
  ASSUME TypeOK, NEW w \in Workloads, NEW l \in Labels, NEW p \in BOOLEAN
  PROVE  (IF p THEN [workloads[w] EXCEPT !.labels = l]
          ELSE [NoWorkload EXCEPT !.exists = TRUE, !.labels = l, !.env = UserEnv])
            \in Workload
  <1>1. l \in {"all", "some", "none"} /\ UserEnv \subseteq EnvVars
    BY WorkloadAssumption DEF EnvVars
  <1>2. workloads[w] \in Workload BY Types DEF WorkTypes
  <1> QED BY <1>1, <1>2 DEF NoWorkload, Workload

LEMMA UsersTyped ==
  ASSUME TypeOK, Users
  PROVE  TypeOK'
  <1> SUFFICES BindingTypes' /\ AgentTypes' /\ WorkTypes' BY TypesNext
  <1>b. BindingTypes /\ WorkTypes BY Types
  <1>1. ASSUME NEW s \in Secrets, CreateBinding(s) PROVE BindingTypes' /\ AgentTypes' /\ WorkTypes'
    <2>1. binding' \in Binding
      BY <1>1, WorkloadAssumption DEF CreateBinding, NewBinding, Binding, Reasons
    <2>2. BindingTypes' BY <1>b, <1>1, <2>1 DEF BindingTypes, CreateBinding
    <2> QED BY <1>1, <2>2, TypesStay DEF CreateBinding, agent
  <1>2. ASSUME NEW s \in Secrets, EditBinding(s) PROVE BindingTypes' /\ AgentTypes' /\ WorkTypes'
    <2>1. binding' \in Binding
      BY <1>b, <1>2 DEF BindingTypes, EditBinding, Binding
    <2>2. BindingTypes' BY <1>b, <1>2, <2>1 DEF BindingTypes, EditBinding
    <2> QED BY <1>2, <2>2, TypesStay DEF EditBinding, agent
  <1>3. CASE DeleteBinding
    <2>1. binding' \in Binding BY <1>b, <1>3 DEF BindingTypes, DeleteBinding, Binding
    <2>2. secrets' \in [Secrets -> {"absent", "free", "owned", "old"}]
      BY <1>b, <1>3 DEF BindingTypes, DeleteBinding, Orphaned
    <2>3. BindingTypes' BY <1>b, <1>3, <2>1, <2>2 DEF BindingTypes, DeleteBinding
    <2> QED BY <1>3, <2>3, TypesStay DEF DeleteBinding, agent
  <1>4. ASSUME NEW s \in Secrets, CreateSecret(s) PROVE BindingTypes' /\ AgentTypes' /\ WorkTypes'
    <2>1. queued' \in BOOLEAN BY <1>4, Types DEF CreateSecret, AgentTypes
    <2>2. BindingTypes' /\ AgentTypes' BY <1>4, <2>1, SecretTyped DEF CreateSecret
    <2> QED BY <1>4, <2>2, TypesStay DEF CreateSecret
  <1>5. ASSUME NEW s \in Secrets, DeleteSecret(s) PROVE BindingTypes' /\ AgentTypes' /\ WorkTypes'
    <2>1. queued' \in BOOLEAN BY <1>5 DEF DeleteSecret
    <2>2. BindingTypes' /\ AgentTypes' BY <1>5, <2>1, SecretTyped DEF DeleteSecret
    <2> QED BY <1>5, <2>2, TypesStay DEF DeleteSecret
  <1>6. ASSUME NEW w \in Workloads, DeleteWorkload(w) PROVE BindingTypes' /\ AgentTypes' /\ WorkTypes'
    <2>1. NoWorkload \in Workload BY DEF NoWorkload, Workload
    <2>2. StoreWorkload(w, NoWorkload) BY <1>6 DEF DeleteWorkload
    <2>3. WorkTypes' BY <2>1, <2>2, StoreEffect
    <2> QED BY <1>6, <2>3, TypesStay DEF DeleteWorkload, agent
  <1>7. ASSUME NEW w \in Workloads, NEW l \in Labels, NEW p \in BOOLEAN,
               ApplyWorkload(w, l, p)
        PROVE  BindingTypes' /\ AgentTypes' /\ WorkTypes'
    <2> DEFINE o == IF p THEN [workloads[w] EXCEPT !.labels = l]
                    ELSE [NoWorkload EXCEPT !.exists = TRUE, !.labels = l, !.env = UserEnv]
    <2>3. o \in Workload BY AppliedWorkload
    <2>4. StoreWorkload(w, o) BY <1>7 DEF ApplyWorkload
    <2>5. WorkTypes' BY <2>3, <2>4, StoreEffect
    <2> QED BY <1>7, <2>5, TypesStay DEF ApplyWorkload, agent
  <1>8. CASE CalmDown
    <2>1. AgentTypes' BY <1>8, Types DEF AgentTypes, CalmDown, agent
    <2> QED BY <1>8, <2>1, TypesStay DEF CalmDown, agent
  <1> QED BY <1>1, <1>2, <1>3, <1>4, <1>5, <1>6, <1>7, <1>8 DEF Users

(* Watches, the garbage collector and the agent's start. *)
LEMMA WatchTyped ==
  ASSUME TypeOK, SyncBinding \/ Restart \/ Collect \/ \E w \in Workloads : Resync(w)
  PROVE  TypeOK'
  <1> SUFFICES BindingTypes' /\ AgentTypes' /\ WorkTypes' BY TypesNext
  <1>b. BindingTypes /\ WorkTypes BY Types
  <1>1. CASE SyncBinding
    <2>1. BindingTypes' BY <1>b, <1>1 DEF BindingTypes, SyncBinding
    <2>2. AgentTypes' BY <1>1, Types DEF AgentTypes, SyncBinding
    <2> QED BY <1>1, <2>1, <2>2, TypesStay DEF SyncBinding
  <1>2. CASE Restart
    <2>1. WorkTypes'
      <3>1. /\ workloads' = workloads /\ held' = [t \in Threads |-> {}] /\ events' = NoEvents
        BY <1>2 DEF Restart, Threads
      <3>2. << >> \in Seq(EventKinds) /\ Len(<< >>) = 0 BY EmptySeq
      <3>3. Backlog \in Nat BY WorkloadAssumption
      <3> QED BY <1>b, <3>1, <3>2, <3>3 DEF WorkTypes, NoEvents
    <2>2. BindingTypes' BY <1>b, <1>2 DEF BindingTypes, Restart
    <2>3. queued' \in BOOLEAN BY <1>2 DEF Restart
    <2>4. informer' \in [on : BOOLEAN, secret : Secrets \cup {NoSecret}] BY <1>2 DEF Restart, Off
    <2>5. calm' \in BOOLEAN /\ rec' = Idle /\ hnd' = HandlerIdle
      BY <1>2, Types DEF AgentTypes, Restart
    <2> QED BY <2>1, <2>2, <2>3, <2>4, <2>5, IdleTyped DEF AgentTypes
  <1>3. CASE Collect
    <2>1. PICK s \in Secrets : CollectSecret(s) BY <1>3 DEF Collect
    <2>2. queued' \in BOOLEAN BY <2>1 DEF CollectSecret
    <2>3. BindingTypes' /\ AgentTypes' BY <2>1, <2>2, SecretTyped DEF CollectSecret
    <2> QED BY <2>1, <2>3, TypesStay DEF CollectSecret
  <1>4. ASSUME NEW w \in Workloads, Resync(w) PROVE BindingTypes' /\ AgentTypes' /\ WorkTypes'
    <2>1. workloads[w].labels \in EventKinds BY <1>b DEF WorkTypes, Workload, EventKinds
    <2>2. events' = Notified(w, workloads[w].labels) BY <1>4 DEF Resync
    <2>3. Telling(events', w, workloads[w].labels) BY <2>1, <2>2, NotifiedTells
    <2>4. WorkTypes' BY <1>b, <1>4, <2>3 DEF WorkTypes, Resync, Telling
    <2> QED BY <1>4, <2>4, TypesStay DEF Resync, agent
  <1> QED BY <1>1, <1>2, <1>3, <1>4

(* Reconcile returns. *)
LEMMA ReturnTyped ==
  ASSUME TypeOK, NEW err \in BOOLEAN, Return(err), UNCHANGED <<informer, hnd, calm>>
  PROVE  AgentTypes'
  <1>1. queued' \in BOOLEAN BY DEF Return
  <1>2. rec' \in Reconciler BY IdleTyped DEF Return
  <1> QED BY <1>1, <1>2, Types DEF AgentTypes

(* A step of the reconciler that leaves the queue alone. *)
LEMMA ReconcilerTyped ==
  ASSUME TypeOK, rec' \in Reconciler, UNCHANGED <<queued, informer, hnd, calm>>
  PROVE  AgentTypes'
  BY Types DEF AgentTypes

LEMMA StatusTyped ==
  ASSUME TypeOK, NEW t \in Threads, NEW st \in {"Malformed", "Ready"},
         NEW reason \in Reasons, NEW conns \in SUBSET Workloads, NEW ok \in BOOLEAN,
         PutStatus(t, st, reason, conns, ok), UNCHANGED <<cache, secrets>>
  PROVE  BindingTypes'
  <1>1. binding' \in Binding /\ fresh' \subseteq fresh BY StatusEffect
  <1> QED BY <1>1, Types DEF BindingTypes

(* A thread lets go of copies, or takes some. *)
LEMMA HeldTyped ==
  ASSUME TypeOK, NEW t \in Threads, NEW W \in SUBSET Workloads,
         held' = [held EXCEPT ![t] = W], UNCHANGED <<workloads, events>>
  PROVE  WorkTypes'
  BY Types DEF WorkTypes

ReasonsUsed == {"NoMatchingWorkloads", "ErrorFetchSecret", "Successful", "Binding Failure"}

LEMMA Connections ==
  ASSUME TypeOK
  PROVE  /\ binding.connections \in SUBSET Workloads /\ cache.connections \in SUBSET Workloads
         /\ binding.secret \in Secrets /\ cache.secret \in Secrets
         /\ ReasonsUsed \subseteq Reasons
         /\ rec.apps \subseteq Workloads /\ rec.todo \subseteq Workloads
         /\ hnd.of \subseteq Workloads
  <1>1. binding \in Binding /\ cache \in Binding /\ rec \in Reconciler /\ hnd \in Handler
    BY DEF TypeOK
  <1>2. rec.apps \subseteq Workloads /\ rec.todo \subseteq Workloads
    BY <1>1 DEF Reconciler
  <1>3. hnd.of \subseteq Workloads BY <1>1 DEF Handler
  <1> QED BY <1>1, <1>2, <1>3 DEF Binding, Reasons, ReasonsUsed

LEMMA ReconcileStartTyped ==
  ASSUME TypeOK,
         \/ ReconcileNothing \/ ReconcileDeleted
         \/ \E ok \in BOOLEAN : ReconcileLive(ok) \/ getApplication(ok)
         \/ \E unread \in SUBSET Workloads : getBoundApplications(unread)
         \/ GetSecret
  PROVE  TypeOK'
  <1> SUFFICES BindingTypes' /\ AgentTypes' /\ WorkTypes' BY TypesNext
  <1>b. BindingTypes /\ WorkTypes /\ AgentTypes BY Types
  <1>r. rec \in Reconciler BY <1>b DEF AgentTypes
  <1>1. CASE ReconcileNothing
    <2>1. AgentTypes' BY <1>1, <1>b DEF AgentTypes, ReconcileNothing, Step
    <2> QED BY <1>1, <2>1, TypesStay DEF ReconcileNothing, Step
  <1>2. CASE ReconcileDeleted
    <2>1. WorkTypes'
      <3>1. /\ workloads' = workloads /\ held' = [held EXCEPT !["hnd"] = {}] /\ events' = NoEvents
        BY <1>2 DEF ReconcileDeleted
      <3>2. << >> \in Seq(EventKinds) /\ Len(<< >>) = 0 BY EmptySeq
      <3>3. Backlog \in Nat BY WorkloadAssumption
      <3>4. \A w \in Workloads : Len(events'[w]) <= Backlog BY <3>1, <3>2, <3>3 DEF NoEvents
      <3>5. held' \in [Threads -> SUBSET Workloads] BY <1>b, <3>1 DEF WorkTypes
      <3> QED BY <1>b, <3>1, <3>2, <3>4, <3>5 DEF WorkTypes, NoEvents
    <2>2. BindingTypes'
      BY <1>b, <1>2 DEF BindingTypes, ReconcileDeleted, Step, Copied
    <2>3. rec' \in Reconciler
      BY <1>2, Connections DEF ReconcileDeleted, Idle, Reconciler
    <2>4. informer' \in [on : BOOLEAN, secret : Secrets \cup {NoSecret}]
      BY <1>2 DEF ReconcileDeleted, Off
    <2>5. queued' \in BOOLEAN /\ calm' \in BOOLEAN /\ hnd' = HandlerIdle
      BY <1>b, <1>2 DEF ReconcileDeleted, AgentTypes, Step
    <2> QED BY <2>1, <2>2, <2>3, <2>4, <2>5, IdleTyped DEF AgentTypes
  <1>3. ASSUME NEW ok \in BOOLEAN, ReconcileLive(ok)
        PROVE  BindingTypes' /\ AgentTypes' /\ WorkTypes'
    <2>1. CASE ok
      <3>1. BindingTypes'
        BY <1>b, <1>3, <2>1 DEF BindingTypes, ReconcileLive, Step, Copied
      <3>2. rec' \in Reconciler
        BY <1>3, <2>1, Connections DEF ReconcileLive, Idle, Reconciler
      <3>3. informer' \in [on : BOOLEAN, secret : Secrets \cup {NoSecret}]
        <4>1. CASE informer.on BY <1>b, <1>3, <2>1, <4>1 DEF ReconcileLive, AgentTypes
        <4>2. CASE ~informer.on
          <5>1. informer' = [on |-> TRUE, secret |-> cache.secret]
            BY <1>3, <2>1, <4>2 DEF ReconcileLive
          <5>2. cache.secret \in Secrets BY Connections
          <5> QED BY <5>1, <5>2
        <4> QED BY <4>1, <4>2
      <3>4. queued' \in BOOLEAN /\ calm' \in BOOLEAN /\ hnd' \in Handler
        BY <1>b, <1>3, <2>1 DEF ReconcileLive, AgentTypes, Step
      <3>5. WorkTypes' BY <1>3, TypesStay DEF ReconcileLive
      <3> QED BY <3>1, <3>2, <3>3, <3>4, <3>5 DEF AgentTypes
    <2>2. CASE ~ok BY <1>3, <2>2, TypesStay DEF ReconcileLive, Step, agent
    <2> QED BY <2>1, <2>2
  <1>4. ASSUME NEW ok \in BOOLEAN, getApplication(ok)
        PROVE  BindingTypes' /\ AgentTypes' /\ WorkTypes'
    <2> DEFINE apps == IF ok THEN Selected ELSE {}
    <2>1. apps \subseteq Workloads BY DEF Selected, Existing
    <2>2. /\ rec' = [rec EXCEPT !.pc = IF apps = {} THEN "noApps" ELSE "secret",
                                !.apps = apps,
                                !.bare = {w \in apps : workloads[w].volume = NoSecret}]
          /\ held' = [held EXCEPT !["rec"] = apps]
      BY <1>4 DEF getApplication
    <2> HIDE DEF apps
    <2>3. rec' \in Reconciler BY <1>r, <2>1, <2>2 DEF Reconciler
    <2>4. WorkTypes' BY <1>4, <2>1, <2>2, HeldTyped DEF getApplication, Threads
    <2> QED BY <1>4, <2>3, <2>4, ReconcilerTyped, TypesStay DEF getApplication, Step
  <1>5. ASSUME NEW unread \in SUBSET Workloads, getBoundApplications(unread)
        PROVE  BindingTypes' /\ AgentTypes' /\ WorkTypes'
    <2> DEFINE found == rec.apps \cap Existing
    <2>1. found \subseteq Workloads /\ found \ unread \in SUBSET Workloads BY DEF Existing
    <2>2. /\ rec' = [rec EXCEPT !.pc = "finalize",
                  !.apps = found \ unread, !.todo = found \ unread,
                  !.bare = {w \in found : workloads[w].volume = NoSecret},
                  !.err = found \ unread # rec.apps]
          /\ held' = [held EXCEPT !["rec"] = found \ unread]
      BY <1>5 DEF getBoundApplications
    <2> HIDE DEF found
    <2>3. rec' \in Reconciler
      <3> DEFINE e == found \ unread # rec.apps
      <3>1. e \in BOOLEAN OBVIOUS
      <3> HIDE DEF e
      <3>2. rec' = [rec EXCEPT !.pc = "finalize",
                  !.apps = found \ unread, !.todo = found \ unread,
                  !.bare = {w \in found : workloads[w].volume = NoSecret}, !.err = e]
        BY <2>2 DEF e
      <3> QED BY <1>r, <2>1, <3>1, <3>2 DEF Reconciler
    <2>4. WorkTypes' BY <1>5, <2>1, <2>2, HeldTyped DEF getBoundApplications, Threads
    <2> QED BY <1>5, <2>3, <2>4, ReconcilerTyped, TypesStay DEF getBoundApplications, Step
  <1>6. CASE GetSecret
    <2> DEFINE there == secrets[rec.secret] # "absent"
    <2>1. there \in BOOLEAN OBVIOUS
    <2>2. rec' = [rec EXCEPT !.pc = IF there THEN "bind" ELSE "malformed",
                             !.todo = rec.apps, !.current = there]
      BY <1>6 DEF GetSecret
    <2> HIDE DEF there
    <2>3. rec' \in Reconciler BY <1>r, <2>1, <2>2 DEF Reconciler
    <2> QED BY <1>6, <2>3, ReconcilerTyped, TypesStay DEF GetSecret, Step
  <1> QED BY <1>1, <1>2, <1>3, <1>4, <1>5, <1>6

(* Threads know the secrets they work with, and an informer that is off    *)
(* has no events and no handler.                                           *)
Named ==
  /\ rec.pc # "idle" => rec.secret \in Secrets
  /\ informer.on => informer.secret \in Secrets
  /\ ~informer.on => hnd.pc = "idle" /\ \A w \in Workloads : events[w] = << >>
  /\ hnd.pc \notin {"idle", "prune"} => hnd.ps \in Secrets
  /\ hnd.pc \in {"bind", "status"} => hnd.secret \in Secrets

LEMMA ReconcileWritesTyped ==
  ASSUME TypeOK, Named, NEW ok \in BOOLEAN,
         \/ ReportNoApplications(ok) \/ ReportNoSecret(ok) \/ bindApplications(ok)
         \/ SetOwner(ok) \/ RemoveFinalizer(ok) \/ UnbindReturns
         \/ \E w \in Workloads : prepareContainerWithMounts(w, ok) \/ unbindApplication(w, ok)
  PROVE  TypeOK'
  <1> SUFFICES BindingTypes' /\ AgentTypes' /\ WorkTypes' BY TypesNext
  <1>b. BindingTypes /\ WorkTypes /\ AgentTypes BY Types
  <1>r. rec \in Reconciler BY <1>b DEF AgentTypes
  <1>t. "rec" \in Threads BY DEF Threads
  <1>1. CASE ReportNoApplications(ok)
    <2>1. BindingTypes'
      BY <1>1, <1>t, StatusTyped, Connections DEF ReportNoApplications, Step, ReasonsUsed
    <2>2. AgentTypes' BY <1>1, ReturnTyped DEF ReportNoApplications, Step
    <2> QED BY <1>1, <2>1, <2>2, TypesStay DEF ReportNoApplications
  <1>2. CASE ReportNoSecret(ok)
    <2>1. BindingTypes'
      <3>1. /\ PutStatus("rec", "Malformed", "ErrorFetchSecret", binding.connections, ok)
            /\ UNCHANGED <<cache, secrets>>
        BY <1>2 DEF ReportNoSecret, Step
      <3> QED BY <1>t, <3>1, StatusTyped, Connections DEF ReasonsUsed
    <2>2. CASE ok
      <3>1. rec' \in Reconciler BY <1>r, <1>2, <2>2 DEF ReportNoSecret, Reconciler
      <3>2. AgentTypes' BY <1>2, <2>2, <3>1, ReconcilerTyped DEF ReportNoSecret, Step
      <3> QED BY <1>2, <2>1, <2>2, <3>2, TypesStay DEF ReportNoSecret
    <2>3. CASE ~ok
      <3>1. AgentTypes' BY <1>2, <2>3, ReturnTyped DEF ReportNoSecret, Step
      <3>2. WorkTypes' BY <1>2, <1>t, <2>3, HeldTyped DEF ReportNoSecret
      <3> QED BY <2>1, <3>1, <3>2
    <2> QED BY <2>2, <2>3
  <1>3. CASE bindApplications(ok)
    <2>1. BindingTypes'
      BY <1>3, <1>t, StatusTyped, Connections DEF bindApplications, Step, ReasonsUsed
    <2>2. CASE ok /\ ~rec.err
      <3>1. rec' \in Reconciler BY <1>r, <1>3, <2>2 DEF bindApplications, Reconciler
      <3>2. AgentTypes' BY <1>3, <2>2, <3>1, ReconcilerTyped DEF bindApplications, Step
      <3> QED BY <1>3, <2>1, <3>2, TypesStay DEF bindApplications
    <2>3. CASE ~(ok /\ ~rec.err)
      <3>1. AgentTypes' BY <1>3, <2>3, ReturnTyped DEF bindApplications, Step
      <3> QED BY <1>3, <2>1, <3>1, TypesStay DEF bindApplications
    <2> QED BY <2>2, <2>3
  <1>4. CASE SetOwner(ok)
    <2>1. secrets' \in [Secrets -> {"absent", "free", "owned", "old"}]
      BY <1>b, <1>4 DEF SetOwner, Owners, BindingTypes
    <2>2. BindingTypes' BY <1>b, <1>4, <2>1 DEF BindingTypes, SetOwner, Step
    <2>3. \E e \in BOOLEAN : Return(e) BY <1>4 DEF SetOwner
    <2>4. AgentTypes' BY <1>4, <2>3, ReturnTyped DEF SetOwner, Step
    <2> QED BY <1>4, <2>2, <2>4, TypesStay DEF SetOwner
  <1>5. CASE RemoveFinalizer(ok)
    <2>1. binding' \in Binding /\ fresh' \subseteq fresh
      BY <1>b, <1>5 DEF RemoveFinalizer, BindingTypes, Binding
    <2>2. secrets' \in [Secrets -> {"absent", "free", "owned", "old"}]
      BY <1>b, <1>5 DEF RemoveFinalizer, BindingTypes, Orphaned
    <2>3. BindingTypes' BY <1>b, <1>5, <2>1, <2>2 DEF BindingTypes, RemoveFinalizer, Step
    <2>4. AgentTypes' BY <1>5, ReturnTyped DEF RemoveFinalizer, Step
    <2> QED BY <1>5, <2>3, <2>4, TypesStay DEF RemoveFinalizer
  <1>6. CASE UnbindReturns
    <2>1. BindingTypes' BY <1>b, <1>6 DEF BindingTypes, UnbindReturns
    <2>2. AgentTypes' BY <1>6, ReturnTyped DEF UnbindReturns
    <2> QED BY <1>6, <2>1, <2>2, TypesStay DEF UnbindReturns
  <1>e. ASSUME NEW w, rec' = [rec EXCEPT !.todo = @ \ {w}, !.err = @ \/ ~ok]
        PROVE  rec' \in Reconciler
    <2> DEFINE e == rec.err \/ ~ok
    <2>1. e \in BOOLEAN OBVIOUS
    <2>2. rec' = [rec EXCEPT !.todo = @ \ {w}, !.err = e] BY <1>e
    <2> HIDE DEF e
    <2> QED BY <1>r, <2>1, <2>2 DEF Reconciler
  <1>7. ASSUME NEW w \in Workloads, prepareContainerWithMounts(w, ok)
        PROVE  BindingTypes' /\ AgentTypes' /\ WorkTypes'
    <2>1. rec' \in Reconciler BY <1>e, <1>7 DEF prepareContainerWithMounts
    <2>2. AgentTypes' BY <1>7, <2>1, ReconcilerTyped DEF prepareContainerWithMounts, Step
    <2>3. workloads[w] \in Workload BY <1>b DEF WorkTypes
    <2>4. rec.secret \in Secrets BY <1>7 DEF Named, prepareContainerWithMounts, Step
    <2>5. PutWorkload("rec", w, Bound(workloads[w], rec.secret, rec.secret), ok)
      BY <1>7 DEF prepareContainerWithMounts
    <2>6. WorkTypes' BY <1>t, <2>3, <2>4, <2>5, NewVolume, PutEffect
    <2> QED BY <1>7, <2>2, <2>6, TypesStay DEF prepareContainerWithMounts, Step
  <1>8. ASSUME NEW w \in Workloads, unbindApplication(w, ok)
        PROVE  BindingTypes' /\ AgentTypes' /\ WorkTypes'
    <2>1. rec' \in Reconciler BY <1>e, <1>8 DEF unbindApplication
    <2>2. AgentTypes' BY <1>8, <2>1, ReconcilerTyped DEF unbindApplication
    <2>3. workloads[w] \in Workload BY <1>b DEF WorkTypes
    <2>4. WorkTypes'
      <3>1. CASE w \in rec.bare
        <4>1. held' = [held EXCEPT !["rec"] = held["rec"] \ {w}] /\ UNCHANGED <<workloads, events>>
          BY <1>8, <3>1 DEF unbindApplication
        <4>2. held["rec"] \ {w} \in SUBSET Workloads BY <1>b, <1>t DEF WorkTypes
        <4> QED BY <1>t, <4>1, <4>2, HeldTyped
      <3>2. CASE w \notin rec.bare
        <4>1. PutWorkload("rec", w, Unbound(workloads[w], rec.secret), ok)
          BY <1>8, <3>2 DEF unbindApplication
        <4> QED BY <1>t, <2>3, <4>1, NoVolume, PutEffect
      <3> QED BY <3>1, <3>2
    <2> QED BY <1>8, <2>2, <2>4, TypesStay DEF unbindApplication
  <1> QED BY <1>1, <1>2, <1>3, <1>4, <1>5, <1>6, <1>7, <1>8

LEMMA HandlerTyped ==
  ASSUME TypeOK, Named, Handle
  PROVE  TypeOK'
  <1> SUFFICES BindingTypes' /\ AgentTypes' /\ WorkTypes' BY TypesNext
  <1>b. BindingTypes /\ WorkTypes /\ AgentTypes BY Types
  <1>h. hnd \in Handler BY <1>b DEF AgentTypes
  <1>t. "hnd" \in Threads BY DEF Threads
  <1>a. ASSUME hnd' \in Handler, UNCHANGED <<cache, queued, rec, informer, calm>>
        PROVE  AgentTypes'
    BY <1>a, <1>b DEF AgentTypes
  <1>p. ASSUME NEW w \in Workloads, events[w] # << >>, events' = [events EXCEPT ![w] = Tail(@)]
        PROVE  /\ events' \in [Workloads -> Seq(EventKinds)]
               /\ \A v \in Workloads : Len(events'[v]) <= Backlog
    <2>1. events[w] \in Seq(EventKinds) /\ Len(events[w]) <= Backlog BY <1>b DEF WorkTypes
    <2>2. Tail(events[w]) \in Seq(EventKinds) /\ Len(Tail(events[w])) = Len(events[w]) - 1
      BY <1>p, <2>1, HeadTailProperties
    <2>3. Len(events[w]) \in Nat /\ Backlog \in Nat BY <2>1, WorkloadAssumption, LenProperties
    <2>4. Len(Tail(events[w])) <= Backlog BY <2>1, <2>2, <2>3
    <2> QED BY <1>b, <1>p, <2>2, <2>4 DEF WorkTypes
  <1>1. ASSUME NEW w \in Workloads, HandleChange(w)
        PROVE  BindingTypes' /\ AgentTypes' /\ WorkTypes'
    <2>1. hnd' \in Handler
      <3>1. [HandlerIdle EXCEPT !.pc = "secret", !.of = {w}, !.ps = informer.secret] \in Handler
        BY <1>b DEF HandlerIdle, Handler, AgentTypes
      <3> QED BY <1>h, <1>1, <3>1 DEF HandleChange
    <2>2. held' \in [Threads -> SUBSET Workloads]
      BY <1>b, <1>1 DEF HandleChange, WorkTypes
    <2>3. WorkTypes' BY <1>b, <1>p, <1>1, <2>2 DEF HandleChange, WorkTypes
    <2> QED BY <1>a, <1>1, <2>1, <2>3, TypesStay DEF HandleChange, HandlerStep
  <1>2. ASSUME NEW w \in Workloads, HandleDelete(w)
        PROVE  BindingTypes' /\ AgentTypes' /\ WorkTypes'
    <2>1. hnd' \in Handler
      <3>1. [HandlerIdle EXCEPT !.pc = "prune", !.of = {w}] \in Handler
        BY DEF HandlerIdle, Handler
      <3> QED BY <1>h, <1>2, <3>1 DEF HandleDelete
    <2>2. WorkTypes' BY <1>b, <1>p, <1>2 DEF HandleDelete, WorkTypes
    <2>3. BindingTypes' BY <1>b, <1>2 DEF HandleDelete, HandlerStep, BindingTypes, Copied
    <2> QED BY <1>a, <1>2, <2>1, <2>2, <2>3 DEF HandleDelete, HandlerStep
  <1>3. CASE HandlerGetSecret
    <2>1. hnd' \in Handler BY <1>h, <1>3 DEF HandlerGetSecret, Handler
    <2>2. BindingTypes' BY <1>b, <1>3 DEF HandlerGetSecret, HandlerStep, BindingTypes
    <2> QED BY <1>a, <1>3, <2>1, <2>2, TypesStay DEF HandlerGetSecret, HandlerStep
  <1>4. CASE HandlerGetBinding
    <2>1. hnd' \in Handler
      BY <1>h, <1>4, IdleTyped, Connections DEF HandlerGetBinding, HandlerReturns, Handler
    <2>2. BindingTypes' BY <1>b, <1>4 DEF HandlerGetBinding, HandlerStep, BindingTypes, Copied
    <2>3. WorkTypes' BY <1>b, <1>4 DEF HandlerGetBinding, WorkTypes
    <2> QED BY <1>a, <1>4, <2>1, <2>2, <2>3 DEF HandlerGetBinding, HandlerStep
  <1>5. ASSUME NEW ok \in BOOLEAN, HandlerReportNoSecret(ok)
        PROVE  BindingTypes' /\ AgentTypes' /\ WorkTypes'
    <2>1. BindingTypes'
      <3>1. /\ PutStatus("hnd", "Malformed", "ErrorFetchSecret", binding.connections, ok)
            /\ UNCHANGED <<cache, secrets>>
        BY <1>5 DEF HandlerReportNoSecret, HandlerStep
      <3> QED BY <1>t, <3>1, StatusTyped, Connections DEF ReasonsUsed
    <2>2. hnd' \in Handler
      BY <1>h, <1>5, IdleTyped DEF HandlerReportNoSecret, HandlerReturns, Handler
    <2>3. WorkTypes' BY <1>b, <1>5 DEF HandlerReportNoSecret, WorkTypes
    <2> QED BY <1>a, <1>5, <2>1, <2>2, <2>3 DEF HandlerReportNoSecret, HandlerStep
  <1>6. ASSUME NEW ok \in BOOLEAN, HandlerUnbind(ok)
        PROVE  BindingTypes' /\ AgentTypes' /\ WorkTypes'
    <2>1. PICK w \in hnd.of : PutWorkload("hnd", w, Unbound(workloads[w], hnd.ps), ok)
      BY <1>6 DEF HandlerUnbind
    <2>2. w \in Workloads BY Connections
    <2>3. workloads[w] \in Workload BY <1>b, <2>2 DEF WorkTypes
    <2>4. WorkTypes' BY <1>t, <2>1, <2>2, <2>3, NoVolume, PutEffect
    <2>5. hnd' \in Handler BY <1>6, IdleTyped DEF HandlerUnbind, HandlerReturns
    <2> QED BY <1>a, <1>6, <2>4, <2>5, TypesStay DEF HandlerUnbind, HandlerStep
  <1>7. ASSUME NEW ok \in BOOLEAN, HandlerBind(ok)
        PROVE  BindingTypes' /\ AgentTypes' /\ WorkTypes'
    <2>1. PICK w \in hnd.of :
             PutWorkload("hnd", w, Bound(workloads[w], hnd.secret, hnd.ps), ok)
      BY <1>7 DEF HandlerBind
    <2>2. w \in Workloads BY Connections
    <2>3. workloads[w] \in Workload BY <1>b, <2>2 DEF WorkTypes
    <2>4. hnd.secret \in Secrets /\ hnd.ps \in Secrets
      BY <1>7 DEF Named, HandlerBind, HandlerStep
    <2>5. WorkTypes' BY <1>t, <2>1, <2>2, <2>3, <2>4, NewVolume, PutEffect
    <2>6. hnd' \in Handler
      <3> DEFINE e == ~ok
      <3>1. e \in BOOLEAN OBVIOUS
      <3>2. hnd' = [hnd EXCEPT !.pc = "status", !.err = e] BY <1>7 DEF HandlerBind
      <3> HIDE DEF e
      <3> QED BY <1>h, <3>1, <3>2 DEF Handler
    <2> QED BY <1>a, <1>7, <2>5, <2>6, TypesStay DEF HandlerBind, HandlerStep
  <1>8. ASSUME NEW ok \in BOOLEAN, HandlerBound(ok)
        PROVE  BindingTypes' /\ AgentTypes' /\ WorkTypes'
    <2>1. BindingTypes'
      BY <1>8, <1>t, StatusTyped, Connections DEF HandlerBound, HandlerStep, ReasonsUsed
    <2>2. hnd' \in Handler BY <1>8, IdleTyped DEF HandlerBound, HandlerReturns
    <2> QED BY <1>a, <1>8, <2>1, <2>2, TypesStay DEF HandlerBound, HandlerStep
  <1>9. ASSUME NEW ok \in BOOLEAN, HandlerPrune(ok)
        PROVE  BindingTypes' /\ AgentTypes' /\ WorkTypes'
    <2>1. binding.connections \ hnd.of \in SUBSET Workloads BY Connections
    <2>2. BindingTypes'
      BY <1>9, <1>t, <2>1, StatusTyped, Connections DEF HandlerPrune, HandlerStep, ReasonsUsed
    <2>3. hnd' \in Handler BY <1>9, IdleTyped DEF HandlerPrune, HandlerReturns
    <2> QED BY <1>a, <1>9, <2>2, <2>3, TypesStay DEF HandlerPrune, HandlerStep
  <1> QED BY <1>1, <1>2, <1>3, <1>4, <1>5, <1>6, <1>7, <1>8, <1>9 DEF Handle

NamedRec == rec.pc # "idle" => rec.secret \in Secrets

NamedHnd ==
  /\ informer.on => informer.secret \in Secrets
  /\ ~informer.on => hnd.pc = "idle"
  /\ hnd.pc \notin {"idle", "prune"} => hnd.ps \in Secrets
  /\ hnd.pc \in {"bind", "status"} => hnd.secret \in Secrets

OffIsSilent == ~informer.on => \A w \in Workloads : events[w] = << >>

LEMMA NamedParts == Named <=> NamedRec /\ NamedHnd /\ OffIsSilent
  BY DEF Named, NamedRec, NamedHnd, OffIsSilent

LEMMA NamedNext ==
  ASSUME NamedRec', NamedHnd', OffIsSilent' PROVE Named'
  BY DEF Named, NamedRec, NamedHnd, OffIsSilent

(* What a step may do to the reconciler, the handler and the events. *)
LEMMA NamedStays ==
  ASSUME Named
  PROVE  /\ rec'.pc = rec.pc /\ rec'.secret = rec.secret => NamedRec'
         /\ rec.pc # "idle" /\ rec'.secret = rec.secret => NamedRec'
         /\ rec' = Idle => NamedRec'
         /\ UNCHANGED <<informer, hnd>> => NamedHnd'
         /\ UNCHANGED <<informer, events>> => OffIsSilent'
  BY DEF Named, NamedRec, NamedHnd, OffIsSilent, Idle

LEMMA SecretNamed ==
  ASSUME TypeOK, NEW s, NEW st, StoreSecret(s, st)
  PROVE  rec'.pc = rec.pc /\ rec'.secret = rec.secret /\ rec'.apps = rec.apps
         /\ rec'.todo = rec.todo /\ rec'.err = rec.err
  <1>1. rec \in Reconciler BY DEF TypeOK
  <1> QED BY <1>1 DEF StoreSecret, Reconciler

LEMMA ToldSilent ==
  ASSUME Named, informer' = informer, NEW w, NEW e, Telling(events', w, e)
  PROVE  OffIsSilent'
  BY DEF Named, OffIsSilent, Telling

LEMMA OthersNamed ==
  ASSUME TypeOK, Named,
         Users \/ SyncBinding \/ Restart \/ Collect \/ \E w \in Workloads : Resync(w)
  PROVE  Named'
  <1> SUFFICES NamedRec' /\ NamedHnd' /\ OffIsSilent' BY NamedNext
  <1>b. WorkTypes BY Types
  <1>1. ASSUME UNCHANGED <<rec, informer, hnd, events>> PROVE NamedRec' /\ NamedHnd' /\ OffIsSilent'
    BY <1>1, NamedStays
  <1>2. ASSUME NEW s, NEW st, StoreSecret(s, st), UNCHANGED <<informer, hnd, events>>
        PROVE NamedRec' /\ NamedHnd' /\ OffIsSilent'
    BY <1>2, NamedStays, SecretNamed
  <1>3. ASSUME NEW w \in Workloads, NEW o \in Workload, StoreWorkload(w, o),
               UNCHANGED <<rec, informer, hnd>>
        PROVE NamedRec' /\ NamedHnd' /\ OffIsSilent'
    <2>1. Telling(events', w, NewestOf(w)') BY <1>3, StoreEffect DEF StoreOf
    <2> QED BY <1>3, <2>1, NamedStays, ToldSilent
  <1>4. CASE Users
    <2>1. ASSUME NEW s \in Secrets, CreateBinding(s) \/ EditBinding(s)
          PROVE NamedRec' /\ NamedHnd' /\ OffIsSilent'
      BY <1>1, <2>1 DEF CreateBinding, EditBinding, agent
    <2>2. CASE DeleteBinding \/ CalmDown BY <1>1, <2>2 DEF DeleteBinding, CalmDown, agent
    <2>3. ASSUME NEW s \in Secrets, CreateSecret(s) \/ DeleteSecret(s)
          PROVE NamedRec' /\ NamedHnd' /\ OffIsSilent'
      BY <1>2, <2>3 DEF CreateSecret, DeleteSecret
    <2>4. ASSUME NEW w \in Workloads, DeleteWorkload(w)
          PROVE NamedRec' /\ NamedHnd' /\ OffIsSilent'
      <3>1. NoWorkload \in Workload BY DEF NoWorkload, Workload
      <3> QED BY <1>3, <2>4, <3>1 DEF DeleteWorkload, agent
    <2>5. ASSUME NEW w \in Workloads, NEW l \in Labels, NEW p \in BOOLEAN, ApplyWorkload(w, l, p)
          PROVE NamedRec' /\ NamedHnd' /\ OffIsSilent'
      BY <1>3, <2>5, AppliedWorkload DEF ApplyWorkload, agent
    <2> QED BY <1>4, <2>1, <2>2, <2>3, <2>4, <2>5 DEF Users
  <1>5. CASE SyncBinding BY <1>1, <1>5 DEF SyncBinding
  <1>6. CASE Restart
    BY <1>6, NamedStays
    DEF Restart, NamedHnd, OffIsSilent, HandlerIdle, Off, NoEvents
  <1>7. CASE Collect BY <1>2, <1>7 DEF Collect, CollectSecret
  <1>8. ASSUME NEW w \in Workloads, Resync(w) PROVE NamedRec' /\ NamedHnd' /\ OffIsSilent'
    BY <1>8, NamedStays DEF Resync, agent, OffIsSilent
  <1> QED BY <1>4, <1>5, <1>6, <1>7, <1>8

LEMMA ReconcileNamed ==
  ASSUME TypeOK, Named, Reconcile
  PROVE  Named'
  <1> SUFFICES NamedRec' /\ NamedHnd' /\ OffIsSilent' BY NamedNext
  <1>r. rec \in Reconciler /\ WorkTypes BY Types DEF AgentTypes
  <1>t. "rec" \in Threads BY DEF Threads
  <1>a. ASSUME UNCHANGED <<informer, hnd, events>>,
               rec' = Idle \/ (rec.pc # "idle" /\ rec'.secret = rec.secret)
        PROVE  NamedRec' /\ NamedHnd' /\ OffIsSilent'
    BY <1>a, NamedStays
  <1>1. CASE ReconcileNothing BY <1>1, NamedStays DEF ReconcileNothing
  <1>2. CASE ReconcileDeleted
    <2>1. rec'.secret = cache.secret BY <1>2 DEF ReconcileDeleted, Idle
    <2>2. NamedRec' BY <2>1, Connections DEF NamedRec
    <2> QED BY <1>2, <2>2 DEF ReconcileDeleted, NamedHnd, OffIsSilent, HandlerIdle, Off, NoEvents
  <1>3. ASSUME NEW ok \in BOOLEAN, ReconcileLive(ok)
        PROVE  NamedRec' /\ NamedHnd' /\ OffIsSilent'
    <2>1. CASE ok
      <3>1. rec'.secret = cache.secret BY <1>3, <2>1 DEF ReconcileLive, Idle
      <3>2. NamedRec' BY <3>1, Connections DEF NamedRec
      <3>3. CASE informer.on BY <1>3, <2>1, <3>2, <3>3, NamedStays DEF ReconcileLive
      <3>4. CASE ~informer.on
        <4>1. informer' = [on |-> TRUE, secret |-> cache.secret] /\ UNCHANGED <<hnd, events>>
          BY <1>3, <2>1, <3>4 DEF ReconcileLive
        <4>2. informer'.on /\ informer'.secret \in Secrets BY <4>1, Connections
        <4> QED BY <3>2, <4>1, <4>2 DEF Named, NamedHnd, OffIsSilent
      <3> QED BY <3>3, <3>4
    <2>2. CASE ~ok BY <1>3, <2>2, NamedStays DEF ReconcileLive, agent
    <2> QED BY <2>1, <2>2
  <1>4. CASE GetSecret BY <1>a, <1>r, <1>4 DEF GetSecret, Step, Reconciler
  <1>5. CASE UnbindReturns BY <1>a, <1>5 DEF UnbindReturns, Return
  <1>6. ASSUME NEW unread \in SUBSET Workloads, getBoundApplications(unread)
        PROVE  NamedRec' /\ NamedHnd' /\ OffIsSilent'
    BY <1>a, <1>r, <1>6 DEF getBoundApplications, Step, Reconciler
  <1>7. ASSUME NEW ok \in BOOLEAN, getApplication(ok)
        PROVE  NamedRec' /\ NamedHnd' /\ OffIsSilent'
    BY <1>a, <1>r, <1>7 DEF getApplication, Step, Reconciler
  <1>8. ASSUME NEW ok \in BOOLEAN,
               \/ ReportNoApplications(ok) \/ ReportNoSecret(ok)
               \/ bindApplications(ok) \/ SetOwner(ok) \/ RemoveFinalizer(ok)
        PROVE  NamedRec' /\ NamedHnd' /\ OffIsSilent'
    <2>1. UNCHANGED <<informer, hnd, events>> /\ rec.pc # "idle"
      BY <1>8 DEF ReportNoApplications, ReportNoSecret, bindApplications, SetOwner,
                  RemoveFinalizer, Step
    <2>2. rec' = Idle \/ rec'.secret = rec.secret
      BY <1>8, <1>r DEF ReportNoApplications, ReportNoSecret, bindApplications, SetOwner,
                  RemoveFinalizer, Return, Reconciler
    <2> QED BY <1>a, <2>1, <2>2
  <1>9. ASSUME NEW ok \in BOOLEAN, NEW w \in Workloads,
               prepareContainerWithMounts(w, ok) \/ unbindApplication(w, ok)
        PROVE  NamedRec' /\ NamedHnd' /\ OffIsSilent'
    <2>1. UNCHANGED <<informer, hnd>> /\ rec.pc # "idle" /\ rec'.secret = rec.secret
      BY <1>9, <1>r DEF prepareContainerWithMounts, unbindApplication, Step, Reconciler
    <2>2. OffIsSilent'
      <3>1. workloads[w] \in Workload BY <1>r DEF WorkTypes
      <3>2. CASE prepareContainerWithMounts(w, ok)
        <4>1. rec.secret \in Secrets BY <3>2 DEF Named, prepareContainerWithMounts, Step
        <4>2. PutWorkload("rec", w, Bound(workloads[w], rec.secret, rec.secret), ok)
          BY <3>2 DEF prepareContainerWithMounts
        <4>3. UNCHANGED events \/ \E e : Telling(events', w, e)
          BY <1>t, <3>1, <4>1, <4>2, NewVolume, PutEffect DEF StoreOf
        <4> QED BY <2>1, <4>3, NamedStays, ToldSilent
      <3>3. CASE unbindApplication(w, ok)
        <4>1. UNCHANGED events \/ PutWorkload("rec", w, Unbound(workloads[w], rec.secret), ok)
          BY <3>3 DEF unbindApplication
        <4>2. UNCHANGED events \/ \E e : Telling(events', w, e)
          BY <1>t, <3>1, <4>1, NoVolume, PutEffect DEF StoreOf
        <4> QED BY <2>1, <4>2, NamedStays, ToldSilent
      <3> QED BY <1>9, <3>2, <3>3
    <2> QED BY <2>1, <2>2, NamedStays
  <1> QED BY <1>1, <1>2, <1>3, <1>4, <1>5, <1>6, <1>7, <1>8, <1>9 DEF Reconcile

LEMMA HandlerNamed ==
  ASSUME TypeOK, Named, Handle
  PROVE  Named'
  <1> SUFFICES NamedRec' /\ NamedHnd' /\ OffIsSilent' BY NamedNext
  <1>h. hnd \in Handler /\ WorkTypes BY Types DEF AgentTypes
  <1>t. "hnd" \in Threads BY DEF Threads
  <1>s. UNCHANGED <<rec, informer>> /\ informer.on
    <2>1. ASSUME NEW w \in Workloads, HandleChange(w) \/ HandleDelete(w)
          PROVE  UNCHANGED <<rec, informer>> /\ informer.on
      BY <2>1 DEF HandleChange, HandleDelete, HandlerStep, Named
    <2>2. CASE HandlerGetSecret \/ HandlerGetBinding
      BY <2>2 DEF HandlerGetSecret, HandlerGetBinding, HandlerStep, Named
    <2>3. ASSUME NEW ok \in BOOLEAN,
                 HandlerReportNoSecret(ok) \/ HandlerUnbind(ok) \/ HandlerBind(ok)
                   \/ HandlerBound(ok) \/ HandlerPrune(ok)
          PROVE  UNCHANGED <<rec, informer>> /\ informer.on
      BY <2>3 DEF HandlerReportNoSecret, HandlerUnbind, HandlerBind, HandlerBound,
                  HandlerPrune, HandlerStep, Named
    <2> QED BY <2>1, <2>2, <2>3 DEF Handle
  <1>n. informer.secret \in Secrets BY <1>s DEF Named
  <1>1. NamedRec' /\ OffIsSilent' BY <1>s, NamedStays DEF OffIsSilent
  <1>2. SUFFICES /\ hnd'.pc \notin {"idle", "prune"} => hnd'.ps \in Secrets
                 /\ hnd'.pc \in {"bind", "status"} => hnd'.secret \in Secrets
    BY <1>1, <1>s, <1>n DEF NamedHnd
  <1>3. ASSUME NEW w \in Workloads, HandleChange(w)
        PROVE  /\ hnd'.pc \notin {"idle", "prune"} => hnd'.ps \in Secrets
               /\ hnd'.pc \in {"bind", "status"} => hnd'.secret \in Secrets
    BY <1>n, <1>3 DEF HandleChange, HandlerIdle, HandlerStep
  <1>4. ASSUME NEW w \in Workloads, HandleDelete(w)
        PROVE  hnd'.pc \in {"idle", "prune"}
    BY <1>4 DEF HandleDelete, HandlerIdle, HandlerStep
  <1>5. CASE HandlerGetSecret BY <1>h, <1>5 DEF HandlerGetSecret, HandlerStep, Handler, Named
  <1>6. CASE HandlerGetBinding
    <2>1. CASE cache.phase # "absent"
      <3>1. hnd' = [hnd EXCEPT !.pc = "bind", !.secret = cache.secret] /\ hnd.pc = "get"
        BY <1>6, <2>1 DEF HandlerGetBinding, HandlerStep
      <3>2. hnd'.ps = hnd.ps /\ hnd'.secret = cache.secret BY <1>h, <3>1 DEF Handler
      <3> QED BY <3>1, <3>2, Connections DEF Named
    <2>2. CASE cache.phase = "absent"
      BY <1>6, <2>2 DEF HandlerGetBinding, HandlerReturns, HandlerIdle
    <2> QED BY <2>1, <2>2
  <1>7. ASSUME NEW ok \in BOOLEAN, HandlerReportNoSecret(ok)
        PROVE  /\ hnd'.pc \notin {"idle", "prune"} => hnd'.ps \in Secrets
               /\ hnd'.pc \in {"bind", "status"} => hnd'.secret \in Secrets
    BY <1>h, <1>7
    DEF HandlerReportNoSecret, HandlerStep, HandlerReturns, HandlerIdle, Handler, Named
  <1>8. ASSUME NEW ok \in BOOLEAN, HandlerUnbind(ok) \/ HandlerBound(ok) \/ HandlerPrune(ok)
        PROVE  hnd'.pc = "idle"
    <2>1. hnd' = HandlerIdle
      BY <1>8 DEF HandlerUnbind, HandlerBound, HandlerPrune, HandlerReturns
    <2> QED BY <2>1 DEF HandlerIdle
  <1>9. ASSUME NEW ok \in BOOLEAN, HandlerBind(ok)
        PROVE  hnd'.ps \in Secrets /\ hnd'.secret \in Secrets
    BY <1>h, <1>9 DEF HandlerBind, HandlerStep, Handler, Named
  <1> QED BY <1>3, <1>4, <1>5, <1>6, <1>7, <1>8, <1>9 DEF Handle

TypeInv == TypeOK /\ Named

LEMMA InitTyped ==
  ASSUME Init PROVE TypeInv
  <1>1. binding \in Binding
    BY WorkloadAssumption DEF Init, NewBinding, Binding, Reasons
  <1>2. BindingTypes BY <1>1 DEF Init, BindingTypes
  <1>3. informer \in [on : BOOLEAN, secret : Secrets \cup {NoSecret}] BY DEF Init, Off
  <1>4. queued \in BOOLEAN /\ calm \in BOOLEAN BY DEF Init
  <1>5. AgentTypes BY <1>3, <1>4, IdleTyped DEF Init, AgentTypes
  <1>6. WorkTypes
    <2>1. NoWorkload \in Workload BY DEF NoWorkload, Workload
    <2>2. << >> \in Seq(EventKinds) /\ Len(<< >>) = 0 BY EmptySeq
    <2>3. Backlog \in Nat BY WorkloadAssumption
    <2>4. events \in [Workloads -> Seq(EventKinds)] /\ \A w \in Workloads : Len(events[w]) <= Backlog
      BY <2>2, <2>3 DEF Init, NoEvents
    <2> QED BY <2>1, <2>4 DEF Init, WorkTypes, Threads
  <1>7. Named BY DEF Init, Named, Idle, Off, HandlerIdle, NoEvents
  <1> QED BY <1>2, <1>5, <1>6, <1>7, Types DEF TypeInv

LEMMA NextTyped ==
  ASSUME TypeInv, Next PROVE TypeInv'
  <1>1. TypeOK /\ Named BY DEF TypeInv
  <1>2. CASE Users \/ SyncBinding \/ Restart \/ Collect \/ \E w \in Workloads : Resync(w)
    BY <1>1, <1>2, UsersTyped, WatchTyped, OthersNamed DEF TypeInv
  <1>3. CASE Reconcile
    <2>1. TypeOK'
      BY <1>1, <1>3, ReconcileStartTyped, ReconcileWritesTyped DEF Reconcile
    <2> QED BY <1>1, <1>3, <2>1, ReconcileNamed DEF TypeInv
  <1>4. CASE Handle BY <1>1, <1>4, HandlerTyped, HandlerNamed DEF TypeInv
  <1> QED BY <1>2, <1>3, <1>4 DEF Next

LEMMA TypeStutter ==
  ASSUME TypeInv, UNCHANGED vars PROVE TypeInv'
  <1>1. TypeOK /\ Named BY DEF TypeInv
  <1>2. TypeOK' BY <1>1, TypesStay, TypesNext DEF vars
  <1>3. Named' BY <1>1 DEF Named, vars
  <1> QED BY <1>2, <1>3 DEF TypeInv

(* TypeOK is always true: in particular the bound on the backlog is kept,  *)
(* and no thread projects a secret it does not know.                       *)
THEOREM WorkloadTypes == Spec => []TypeOK
  <1>1. Init => TypeInv BY InitTyped
  <1>2. TypeInv /\ [Next]_vars => TypeInv' BY NextTyped, TypeStutter
  <1>3. TypeInv => TypeOK BY DEF TypeInv
  <1> QED BY <1>1, <1>2, <1>3, PTL DEF Spec
-----------------------------------------------------------------------------
(* Copies and events. *)

(* A binding that is written leaves nothing to show. *)
LEMMA WrittenCopies ==
  ASSUME TypeOK, RecCopy, HndCopy, fresh' = {}, UNCHANGED <<informer>>,
         rec' = Idle \/ rec' = rec \/ (rec'.pc # "bind"),
         hnd' = HandlerIdle \/ hnd' = hnd \/ (hnd'.of = hnd.of /\ hnd'.ps = hnd.ps /\ hnd.pc = "malformed")
  PROVE  RecCopy' /\ HndCopy'
  <1>1. RecCopy' BY DEF RecCopy, Pending, Idle
  <1>2. HndCopy' BY DEF HndCopy, HandlerIdle
  <1> QED BY <1>1, <1>2

(* The reconciler goes on, or returns, and the binding is not written. *)
LEMMA RecGoesOn ==
  ASSUME RecCopy, UNCHANGED <<binding, cache>>,
         "cache" \in fresh' => "cache" \in fresh, ~queued' => ~queued,
         \/ rec' = Idle
         \/ /\ rec'.secret = rec.secret
            /\ rec'.pc = "bind" => rec'.todo \subseteq rec'.apps
            /\ \/ rec'.pc = rec.pc
               \/ rec.pc = "lookup" /\ rec'.pc = "finalize"
               \/ rec.pc \notin {"idle", "lookup", "finalize"} /\ rec'.pc \notin {"lookup", "finalize"}
  PROVE  RecCopy'
  BY DEF RecCopy, Live, Pending, Idle

(* The handler is left alone, and its copy not made current. *)
LEMMA HndLeft ==
  ASSUME HndCopy, UNCHANGED <<hnd, binding>>, hnd.pc # "idle" => informer' = informer,
         "hnd" \in fresh' => "hnd" \in fresh
  PROVE  HndCopy'
  BY DEF HndCopy

LEMMA WatchingStays ==
  ASSUME Watching, UNCHANGED <<workloads, events>>
  PROVE  Watching'
  BY DEF Watching, NewestOf

LEMMA StoreWatched ==
  ASSUME Watching, TypeOK, Named, NEW w \in Workloads, NEW o, StoreOf(w, o)
  PROVE  Watching'
  <1>1. \A v \in Workloads \ {w} : events'[v] = events[v] /\ workloads'[v] = workloads[v]
    BY DEF StoreOf, Telling
  <1>2. informer.on => events'[w][Len(events'[w])] = NewestOf(w)'
    BY DEF StoreOf, Telling
  <1>3. ~informer.on => events'[w] = << >>
    BY DEF StoreOf, Telling, Named
  <1> QED BY <1>1, <1>2, <1>3 DEF Watching, NewestOf

(* An event that is taken. *)
LEMMA TakenEvent ==
  ASSUME WorkTypes, NEW w \in Workloads, events[w] # << >>,
         events' = [events EXCEPT ![w] = Tail(@)]
  PROVE  /\ \A v \in Workloads \ {w} : events'[v] = events[v]
         /\ events'[w] # << >> => events'[w][Len(events'[w])] = events[w][Len(events[w])]
         /\ events'[w] = << >> => Head(events[w]) = events[w][Len(events[w])]
  <1> DEFINE q == events[w]
  <1>1. q \in Seq(EventKinds) /\ q # << >> BY DEF WorkTypes
  <1>2. events'[w] = Tail(q) /\ \A v \in Workloads \ {w} : events'[v] = events[v]
    BY DEF WorkTypes
  <1> HIDE DEF q
  <1>3. /\ Tail(q) \in Seq(EventKinds) /\ Len(Tail(q)) = Len(q) - 1 /\ Head(q) = q[1]
        /\ \A i \in 1 .. Len(Tail(q)) : Tail(q)[i] = q[i + 1]
    BY <1>1, HeadTailProperties
  <1>4. Len(q) \in Nat /\ Len(Tail(q)) \in Nat BY <1>1, <1>3, LenProperties
  <1>5. CASE Tail(q) = << >>
    <2>1. Len(Tail(q)) = 0
      <3>1. Len(<< >>) = 0 BY EmptySeq
      <3> QED BY <1>5, <3>1
    <2>2. Len(q) = 1
      <3>1. \A m, k \in Nat : k = m - 1 /\ k = 0 => m = 1 OBVIOUS
      <3> QED BY <1>3, <1>4, <2>1, <3>1
    <2> QED BY <1>2, <1>3, <1>5, <2>2 DEF q
  <1>6. CASE Tail(q) # << >>
    <2>1. Len(Tail(q)) # 0 BY <1>3, <1>6, EmptySeq
    <2>2. Len(Tail(q)) \in 1 .. Len(Tail(q)) /\ Len(Tail(q)) + 1 = Len(q)
      BY <1>3, <1>4, <2>1
    <2>3. Tail(q)[Len(Tail(q))] = q[Len(q)] BY <1>3, <2>2
    <2> QED BY <1>2, <1>6, <2>3 DEF q
  <1> QED BY <1>5, <1>6

OthersStep ==
  Users \/ SyncBinding \/ Restart \/ Collect \/ \E w \in Workloads : Resync(w)

LEMMA OthersCopies ==
  ASSUME TypeOK, Named, RecCopy, HndCopy, Watching, OthersStep
  PROVE  RecCopy' /\ HndCopy' /\ Watching'
  <1>b. WorkTypes BY Types
  <1>1. ASSUME fresh' = {}, UNCHANGED <<rec, hnd, informer, workloads, events>>
        PROVE  RecCopy' /\ HndCopy' /\ Watching'
    BY <1>1, WrittenCopies, WatchingStays
  <1>2. ASSUME NEW s, NEW st, StoreSecret(s, st), ~queued' => ~queued,
               UNCHANGED <<binding, cache, fresh, hnd, informer, workloads, events>>
        PROVE  RecCopy' /\ HndCopy' /\ Watching'
    <2>1. rec'.pc = rec.pc /\ rec'.secret = rec.secret /\ rec'.apps = rec.apps
          /\ rec'.todo = rec.todo
      BY <1>2, SecretNamed
    <2>2. RecCopy'
      BY <1>2, <2>1 DEF RecCopy, Live, Pending
    <2> QED BY <1>2, <2>2, HndLeft, WatchingStays
  <1>3. ASSUME NEW w \in Workloads, NEW o \in Workload, StoreWorkload(w, o),
               UNCHANGED <<binding, cache, fresh, agent>>
        PROVE  RecCopy' /\ HndCopy' /\ Watching'
    <2>1. StoreOf(w, o) BY <1>3, StoreEffect
    <2>2. Watching' BY <2>1, StoreWatched
    <2>3. RecCopy' BY <1>3 DEF RecCopy, Live, Pending, agent
    <2> QED BY <1>3, <2>2, <2>3, HndLeft DEF agent
  <1>4. CASE Users
    <2>1. ASSUME NEW s \in Secrets, CreateBinding(s) \/ EditBinding(s)
          PROVE  RecCopy' /\ HndCopy' /\ Watching'
      BY <1>1, <2>1 DEF CreateBinding, EditBinding, agent
    <2>2. CASE DeleteBinding BY <1>1, <2>2 DEF DeleteBinding, agent
    <2>3. ASSUME NEW s \in Secrets, CreateSecret(s) \/ DeleteSecret(s)
          PROVE  RecCopy' /\ HndCopy' /\ Watching'
      <3>1. ~queued' => ~queued BY <2>3 DEF CreateSecret, DeleteSecret
      <3>2. \E st : StoreSecret(s, st) BY <2>3 DEF CreateSecret, DeleteSecret
      <3> QED BY <1>2, <2>3, <3>1, <3>2 DEF CreateSecret, DeleteSecret
    <2>4. ASSUME NEW w \in Workloads, DeleteWorkload(w)
          PROVE  RecCopy' /\ HndCopy' /\ Watching'
      <3>1. NoWorkload \in Workload BY DEF NoWorkload, Workload
      <3> QED BY <1>3, <2>4, <3>1 DEF DeleteWorkload
    <2>5. ASSUME NEW w \in Workloads, NEW l \in Labels, NEW p \in BOOLEAN, ApplyWorkload(w, l, p)
          PROVE  RecCopy' /\ HndCopy' /\ Watching'
      BY <1>3, <2>5, AppliedWorkload DEF ApplyWorkload
    <2>6. CASE CalmDown
      <3>1. RecCopy' BY <2>6 DEF CalmDown, RecCopy, Live, Pending, agent
      <3> QED BY <2>6, <3>1, HndLeft, WatchingStays DEF CalmDown, agent
    <2> QED BY <1>4, <2>1, <2>2, <2>3, <2>4, <2>5, <2>6 DEF Users
  <1>5. CASE SyncBinding
    <2>1. RecCopy' BY <1>5 DEF SyncBinding, RecCopy, Live, Pending
    <2>2. "hnd" \in fresh' => "hnd" \in fresh BY <1>5 DEF SyncBinding
    <2> QED BY <1>5, <2>1, <2>2, HndLeft, WatchingStays DEF SyncBinding
  <1>6. CASE Restart
    <2>1. RecCopy' BY <1>6 DEF Restart, RecCopy, Idle
    <2>2. HndCopy' BY <1>6 DEF Restart, HndCopy, HandlerIdle
    <2>3. Watching' BY <1>6 DEF Restart, Watching, NoEvents
    <2> QED BY <2>1, <2>2, <2>3
  <1>7. CASE Collect BY <1>2, <1>7 DEF Collect, CollectSecret
  <1>8. ASSUME NEW w \in Workloads, Resync(w) PROVE RecCopy' /\ HndCopy' /\ Watching'
    <2>1. RecCopy' BY <1>8 DEF Resync, RecCopy, Live, Pending, agent
    <2>2. HndCopy' BY <1>8, HndLeft DEF Resync, agent
    <2>3. workloads[w].labels \in EventKinds BY <1>b DEF WorkTypes, Workload, EventKinds
    <2>4. events' = Notified(w, workloads[w].labels) /\ informer.on /\ workloads[w].exists
      BY <1>8 DEF Resync, Existing
    <2>5. Telling(events', w, workloads[w].labels) BY <2>3, <2>4, NotifiedTells
    <2>6. Watching' BY <1>8, <2>4, <2>5 DEF Watching, NewestOf, Telling, Resync
    <2> QED BY <2>1, <2>2, <2>6
  <1> QED BY <1>4, <1>5, <1>6, <1>7, <1>8 DEF OthersStep

LEMMA ReconcileCopies ==
  ASSUME TypeOK, Named, RecCopy, HndCopy, Watching, Reconcile
  PROVE  RecCopy' /\ HndCopy' /\ Watching'
  <1>r. rec \in Reconciler /\ WorkTypes BY Types DEF AgentTypes
  <1>t. "rec" \in Threads BY DEF Threads
  <1>1. CASE ReconcileNothing
    <2>1. RecCopy' BY <1>1 DEF ReconcileNothing, Step, RecCopy, Live, Pending
    <2> QED BY <1>1, <2>1, HndLeft, WatchingStays DEF ReconcileNothing
  <1>2. CASE ReconcileDeleted
    <2>1. rec'.pc = "lookup" BY <1>2 DEF ReconcileDeleted, Idle
    <2>2. "cache" \in fresh' => "cache" \in fresh BY <1>2 DEF ReconcileDeleted, Copied
    <2>3. RecCopy' BY <1>2, <2>1, <2>2 DEF ReconcileDeleted, Step, RecCopy, Live, Pending
    <2>4. HndCopy' BY <1>2 DEF ReconcileDeleted, HndCopy, HandlerIdle
    <2>5. Watching' BY <1>2 DEF ReconcileDeleted, Watching, NoEvents
    <2> QED BY <2>3, <2>4, <2>5
  <1>3. ASSUME NEW ok \in BOOLEAN, ReconcileLive(ok)
        PROVE  RecCopy' /\ HndCopy' /\ Watching'
    <2>1. CASE ok
      <3>1. rec'.secret = cache.secret /\ rec'.pc = "apps"
        BY <1>3, <2>1 DEF ReconcileLive, Idle
      <3>2. fresh' = Copied("rec", IF informer.on THEN fresh ELSE Copied("closure", fresh))
        BY <1>3, <2>1 DEF ReconcileLive
      <3>3. /\ "cache" \in fresh' => "cache" \in fresh
            /\ "hnd" \in fresh' => "hnd" \in fresh
        BY <3>2 DEF Copied
      <3>4. RecCopy' BY <1>3, <3>1, <3>3 DEF ReconcileLive, Step, RecCopy, Live, Pending
      <3>5. hnd.pc # "idle" => informer' = informer
        BY <1>3, <2>1 DEF ReconcileLive, Named
      <3> QED BY <1>3, <3>3, <3>4, <3>5, HndLeft, WatchingStays DEF ReconcileLive
    <2>2. CASE ~ok
      <3>1. UNCHANGED <<binding, cache, fresh, agent, workloads, events>>
        BY <1>3, <2>2 DEF ReconcileLive, Step
      <3>2. RecCopy' BY <3>1 DEF RecCopy, Live, Pending, agent
      <3> QED BY <3>1, <3>2, HndLeft, WatchingStays DEF agent
    <2> QED BY <2>1, <2>2
  <1>a. ASSUME UNCHANGED <<binding, cache, informer, hnd>>, fresh' \subseteq fresh,
               ~queued' => ~queued, Watching',
               \/ rec' = Idle
               \/ /\ rec'.secret = rec.secret
                  /\ rec'.pc = "bind" => rec'.todo \subseteq rec'.apps
                  /\ \/ rec'.pc = rec.pc
                     \/ rec.pc = "lookup" /\ rec'.pc = "finalize"
                     \/ /\ rec.pc \notin {"idle", "lookup", "finalize"}
                        /\ rec'.pc \notin {"lookup", "finalize"}
        PROVE  RecCopy' /\ HndCopy' /\ Watching'
    BY <1>a, RecGoesOn, HndLeft
  <1>4. CASE GetSecret
    <2>1. /\ rec'.secret = rec.secret /\ rec'.todo = rec'.apps
          /\ rec.pc = "secret" /\ rec'.pc \in {"bind", "malformed"}
      BY <1>4, <1>r DEF GetSecret, Step, Reconciler
    <2> QED BY <1>a, <1>4, <2>1, WatchingStays DEF GetSecret, Step
  <1>5. CASE UnbindReturns
    BY <1>a, <1>5, WatchingStays DEF UnbindReturns, Return
  <1>6. ASSUME NEW unread \in SUBSET Workloads, getBoundApplications(unread)
        PROVE  RecCopy' /\ HndCopy' /\ Watching'
    <2>1. rec'.secret = rec.secret /\ rec.pc = "lookup" /\ rec'.pc = "finalize"
      BY <1>6, <1>r DEF getBoundApplications, Step, Reconciler
    <2> QED BY <1>a, <1>6, <2>1, WatchingStays DEF getBoundApplications, Step
  <1>7. ASSUME NEW ok \in BOOLEAN, getApplication(ok)
        PROVE  RecCopy' /\ HndCopy' /\ Watching'
    <2>1. rec'.secret = rec.secret /\ rec.pc = "apps" /\ rec'.pc \in {"noApps", "secret"}
      BY <1>7, <1>r DEF getApplication, Step, Reconciler
    <2> QED BY <1>a, <1>7, <2>1, WatchingStays DEF getApplication, Step
  <1>s. ASSUME NEW st \in {"Malformed", "Ready"}, NEW reason \in ReasonsUsed,
               NEW conns \in SUBSET Workloads, NEW ok \in BOOLEAN,
               PutStatus("rec", st, reason, conns, ok),
               UNCHANGED <<cache, informer, hnd, workloads, events>>, ~queued' => ~queued,
               rec.pc \notin {"idle", "lookup", "finalize"},
               rec' = Idle \/ (rec'.secret = rec.secret /\ rec'.pc \in {"unbind", "own"})
        PROVE  RecCopy' /\ HndCopy' /\ Watching'
    <2>1. /\ binding' # binding => fresh' = {}
          /\ binding' = binding => fresh' = fresh \ {"rec"}
      <3>1. reason \in Reasons BY <1>s, Connections
      <3>2. PutStatus("rec", st, reason, conns, ok) BY <1>s
      <3>3. CASE ok = TRUE BY <1>s, <1>t, <3>1, <3>2, <3>3, StatusEffect
      <3>4. CASE ok = FALSE BY <1>s, <1>t, <3>1, <3>2, <3>4, StatusEffect
      <3> QED BY <1>s, <3>3, <3>4
    <2>2. Watching' BY <1>s, WatchingStays
    <2>3. CASE binding' = binding BY <1>a, <1>s, <2>1, <2>2, <2>3
    <2>4. CASE binding' # binding
      <3>1. rec' = Idle \/ rec'.pc # "bind" BY <1>s
      <3> QED BY <1>s, <2>1, <2>2, <2>4, <3>1, WrittenCopies
    <2> QED BY <2>3, <2>4
  <1>8. ASSUME NEW ok \in BOOLEAN, ReportNoApplications(ok)
        PROVE  RecCopy' /\ HndCopy' /\ Watching'
    BY <1>s, <1>8, Connections DEF ReportNoApplications, Step, Return, ReasonsUsed
  <1>9. ASSUME NEW ok \in BOOLEAN, ReportNoSecret(ok)
        PROVE  RecCopy' /\ HndCopy' /\ Watching'
    <2>1. rec' = Idle \/ (rec'.secret = rec.secret /\ rec'.pc = "unbind")
      BY <1>9, <1>r DEF ReportNoSecret, Return, Reconciler
    <2>2. ~queued' => ~queued BY <1>9 DEF ReportNoSecret, Return
    <2> QED BY <1>s, <1>9, <2>1, <2>2, Connections DEF ReportNoSecret, Step, ReasonsUsed
  <1>10. ASSUME NEW ok \in BOOLEAN, bindApplications(ok)
         PROVE  RecCopy' /\ HndCopy' /\ Watching'
    <2>1. rec' = Idle \/ (rec'.secret = rec.secret /\ rec'.pc = "own")
      BY <1>10, <1>r DEF bindApplications, Return, Reconciler
    <2>2. ~queued' => ~queued BY <1>10 DEF bindApplications, Return
    <2> QED BY <1>s, <1>10, <2>1, <2>2, Connections DEF bindApplications, Step, ReasonsUsed
  <1>11. ASSUME NEW ok \in BOOLEAN, SetOwner(ok)
         PROVE  RecCopy' /\ HndCopy' /\ Watching'
    <2>1. rec' = Idle BY <1>11 DEF SetOwner, Return
    <2>2. ~queued' => ~queued BY <1>11 DEF SetOwner, Return
    <2> QED BY <1>a, <1>11, <2>1, <2>2, WatchingStays DEF SetOwner, Step
  <1>12. ASSUME NEW ok \in BOOLEAN, RemoveFinalizer(ok)
         PROVE  RecCopy' /\ HndCopy' /\ Watching'
    <2>1. rec' = Idle /\ (~queued' => ~queued) BY <1>12 DEF RemoveFinalizer, Return
    <2>2. UNCHANGED <<cache, informer, hnd>> BY <1>12 DEF RemoveFinalizer, Step
    <2>3. Watching' BY <1>12, WatchingStays DEF RemoveFinalizer
    <2>4. fresh' = {} \/ (binding' = binding /\ fresh' \subseteq fresh)
      BY <1>12 DEF RemoveFinalizer
    <2> QED BY <1>a, <2>1, <2>2, <2>3, <2>4, WrittenCopies
  <1>13. ASSUME NEW ok \in BOOLEAN, NEW w \in Workloads, prepareContainerWithMounts(w, ok)
         PROVE  RecCopy' /\ HndCopy' /\ Watching'
    <2>1. /\ rec'.secret = rec.secret /\ rec'.pc = rec.pc /\ rec'.apps = rec.apps
          /\ rec'.todo = rec.todo \ {w} /\ rec.pc = "bind"
      BY <1>13, <1>r DEF prepareContainerWithMounts, Step, Reconciler
    <2>2. workloads[w] \in Workload BY <1>r DEF WorkTypes
    <2>3. rec.secret \in Secrets BY <2>1 DEF Named
    <2>4. PutWorkload("rec", w, Bound(workloads[w], rec.secret, rec.secret), ok)
      BY <1>13 DEF prepareContainerWithMounts
    <2>5. Watching'
      BY <1>t, <2>2, <2>3, <2>4, NewVolume, PutEffect, WatchingStays, StoreWatched
    <2>6. rec'.todo \subseteq rec'.apps BY <2>1 DEF RecCopy
    <2> QED BY <1>a, <1>13, <2>1, <2>5, <2>6 DEF prepareContainerWithMounts, Step
  <1>14. ASSUME NEW ok \in BOOLEAN, NEW w \in Workloads, unbindApplication(w, ok)
         PROVE  RecCopy' /\ HndCopy' /\ Watching'
    <2>1. rec'.secret = rec.secret /\ rec'.pc = rec.pc /\ rec.pc \in {"unbind", "finalize"}
      BY <1>14, <1>r DEF unbindApplication, Reconciler
    <2>2. workloads[w] \in Workload BY <1>r DEF WorkTypes
    <2>3. \/ UNCHANGED <<workloads, events>>
          \/ PutWorkload("rec", w, Unbound(workloads[w], rec.secret), ok)
      BY <1>14 DEF unbindApplication
    <2>4. Watching'
      BY <1>t, <2>2, <2>3, NoVolume, PutEffect, WatchingStays, StoreWatched
    <2> QED BY <1>a, <1>14, <2>1, <2>4 DEF unbindApplication
  <1> QED BY <1>1, <1>2, <1>3, <1>4, <1>5, <1>6, <1>7, <1>8, <1>9, <1>10, <1>11, <1>12,
             <1>13, <1>14 DEF Reconcile

LEMMA HandlerCopies ==
  ASSUME TypeOK, Named, RecCopy, HndCopy, Watching, Handle
  PROVE  RecCopy' /\ HndCopy' /\ Watching'
  <1>h. hnd \in Handler /\ WorkTypes BY Types DEF AgentTypes
  <1>t. "hnd" \in Threads BY DEF Threads
  <1>r. ASSUME UNCHANGED <<binding, cache, rec, queued>>, "cache" \in fresh' => "cache" \in fresh
        PROVE  RecCopy'
    BY <1>r DEF RecCopy, Live, Pending
  <1>1. ASSUME NEW w \in Workloads, HandleChange(w) \/ HandleDelete(w)
        PROVE  RecCopy' /\ HndCopy' /\ Watching'
    <2>1. /\ UNCHANGED <<binding, cache, rec, queued, informer, workloads>>
          /\ events[w] # << >> /\ events' = [events EXCEPT ![w] = Tail(@)] /\ hnd.pc = "idle"
      BY <1>1 DEF HandleChange, HandleDelete, HandlerStep
    <2>2. "cache" \in fresh' => "cache" \in fresh
      BY <1>1 DEF HandleChange, HandleDelete, Copied
    <2>3. \/ hnd' = hnd
          \/ hnd' = [HandlerIdle EXCEPT !.pc = "secret", !.of = {w}, !.ps = informer.secret]
          \/ hnd' = [HandlerIdle EXCEPT !.pc = "prune", !.of = {w}]
      BY <1>1 DEF HandleChange, HandleDelete
    <2>4. HndCopy'
      <3>1. CASE hnd' = hnd BY <2>1, <3>1 DEF HndCopy
      <3>2. CASE hnd' = [HandlerIdle EXCEPT !.pc = "secret", !.of = {w}, !.ps = informer.secret]
        <4>1. hnd'.pc = "secret" /\ hnd'.of = {w} /\ hnd'.ps = informer.secret
          BY <3>2 DEF HandlerIdle
        <4> QED BY <2>1, <4>1 DEF HndCopy
      <3>3. CASE hnd' = [HandlerIdle EXCEPT !.pc = "prune", !.of = {w}]
        <4>1. hnd'.pc = "prune" /\ hnd'.of = {w} BY <3>3 DEF HandlerIdle
        <4> QED BY <4>1 DEF HndCopy
      <3> QED BY <2>3, <3>1, <3>2, <3>3
    <2>5. Watching'
      <3>1. \A v \in Workloads \ {w} : events'[v] = events[v] BY <1>h, <2>1, TakenEvent
      <3>2. events'[w] # << >> => events'[w][Len(events'[w])] = events[w][Len(events[w])]
        BY <1>h, <2>1, TakenEvent
      <3>3. UNCHANGED workloads BY <2>1
      <3> QED BY <2>1, <3>1, <3>2, <3>3 DEF Watching, NewestOf
    <2> QED BY <1>r, <2>1, <2>2, <2>4, <2>5
  <1>2. CASE HandlerGetSecret
    <2>1. /\ hnd'.pc \in {"get", "malformed"} /\ hnd'.ps = hnd.ps /\ hnd'.of = hnd.of
          /\ hnd.pc = "secret"
      BY <1>2, <1>h DEF HandlerGetSecret, HandlerStep, Handler
    <2>2. "cache" \in fresh' => "cache" \in fresh BY <1>2 DEF HandlerGetSecret
    <2>3. HndCopy' BY <1>2, <2>1 DEF HndCopy, HandlerGetSecret, HandlerStep
    <2> QED BY <1>r, <1>2, <2>2, <2>3, WatchingStays DEF HandlerGetSecret, HandlerStep
  <1>3. CASE HandlerGetBinding
    <2>1. RecCopy'
      <3>1. "cache" \in fresh' => "cache" \in fresh BY <1>3 DEF HandlerGetBinding, Copied
      <3> QED BY <1>r, <1>3, <3>1 DEF HandlerGetBinding, HandlerStep
    <2>2. HndCopy'
      <3>1. CASE cache.phase # "absent"
        <4>1. /\ hnd' = [hnd EXCEPT !.pc = "bind", !.secret = cache.secret]
              /\ fresh' = Copied("hnd", fresh) /\ hnd.pc = "get" /\ UNCHANGED <<binding, informer>>
          BY <1>3, <3>1 DEF HandlerGetBinding, HandlerStep
        <4>2. hnd'.ps = hnd.ps /\ hnd'.of = hnd.of /\ hnd'.secret = cache.secret
          BY <1>h, <4>1 DEF Handler
        <4>3. "hnd" \in fresh' => cache = binding BY <4>1 DEF Copied, RecCopy
        <4> QED BY <4>1, <4>2, <4>3 DEF HndCopy
      <3>2. CASE cache.phase = "absent"
        <4>1. hnd' = HandlerIdle BY <1>3, <3>2 DEF HandlerGetBinding, HandlerReturns
        <4> QED BY <4>1 DEF HndCopy, HandlerIdle
      <3> QED BY <3>1, <3>2
    <2> QED BY <1>3, <2>1, <2>2, WatchingStays DEF HandlerGetBinding
  <1>s. ASSUME NEW st \in {"Malformed", "Ready"}, NEW reason \in ReasonsUsed,
               NEW conns \in SUBSET Workloads, NEW ok \in BOOLEAN,
               PutStatus("hnd", st, reason, conns, ok),
               UNCHANGED <<cache, queued, rec, informer, workloads, events>>,
               \/ hnd' = HandlerIdle
               \/ /\ hnd'.pc = "unbind" /\ hnd.pc = "malformed"
                  /\ hnd'.of = hnd.of /\ hnd'.ps = hnd.ps
        PROVE  RecCopy' /\ HndCopy' /\ Watching'
    <2>1. /\ binding' # binding => fresh' = {}
          /\ binding' = binding => fresh' = fresh \ {"hnd"}
      <3>1. reason \in Reasons BY <1>s, Connections
      <3> QED BY <1>s, <1>t, <3>1, StatusEffect
    <2>2. Watching' BY <1>s, WatchingStays
    <2>3. HndCopy' BY <1>s DEF HndCopy, HandlerIdle
    <2>4. CASE binding' = binding BY <1>r, <1>s, <2>1, <2>2, <2>3, <2>4
    <2>5. CASE binding' # binding BY <1>s, <2>1, <2>2, <2>5, WrittenCopies
    <2> QED BY <2>4, <2>5
  <1>4. ASSUME NEW ok \in BOOLEAN, HandlerReportNoSecret(ok)
        PROVE  RecCopy' /\ HndCopy' /\ Watching'
    <2>1. \/ hnd' = HandlerIdle
          \/ /\ hnd'.pc = "unbind" /\ hnd.pc = "malformed"
             /\ hnd'.of = hnd.of /\ hnd'.ps = hnd.ps
      BY <1>4, <1>h DEF HandlerReportNoSecret, HandlerStep, HandlerReturns, Handler
    <2> QED BY <1>s, <1>4, <2>1, Connections DEF HandlerReportNoSecret, HandlerStep, ReasonsUsed
  <1>5. ASSUME NEW ok \in BOOLEAN, HandlerBound(ok)
        PROVE  RecCopy' /\ HndCopy' /\ Watching'
    BY <1>s, <1>5, Connections DEF HandlerBound, HandlerStep, HandlerReturns, ReasonsUsed
  <1>6. ASSUME NEW ok \in BOOLEAN, HandlerPrune(ok)
        PROVE  RecCopy' /\ HndCopy' /\ Watching'
    <2>1. binding.connections \ hnd.of \in SUBSET Workloads BY Connections
    <2> QED BY <1>s, <1>6, <2>1 DEF HandlerPrune, HandlerStep, HandlerReturns, ReasonsUsed
  <1>7. ASSUME NEW ok \in BOOLEAN, HandlerUnbind(ok)
        PROVE  RecCopy' /\ HndCopy' /\ Watching'
    <2>1. PICK w \in hnd.of : PutWorkload("hnd", w, Unbound(workloads[w], hnd.ps), ok)
      BY <1>7 DEF HandlerUnbind
    <2>2. w \in Workloads BY Connections
    <2>3. workloads[w] \in Workload BY <1>h, <2>2 DEF WorkTypes
    <2>4. Watching'
      BY <1>t, <2>1, <2>2, <2>3, NoVolume, PutEffect, WatchingStays, StoreWatched
    <2>5. HndCopy' BY <1>7 DEF HandlerUnbind, HandlerReturns, HndCopy, HandlerIdle
    <2> QED BY <1>r, <1>7, <2>4, <2>5 DEF HandlerUnbind, HandlerStep
  <1>8. ASSUME NEW ok \in BOOLEAN, HandlerBind(ok)
        PROVE  RecCopy' /\ HndCopy' /\ Watching'
    <2>1. PICK w \in hnd.of :
             PutWorkload("hnd", w, Bound(workloads[w], hnd.secret, hnd.ps), ok)
      BY <1>8 DEF HandlerBind
    <2>2. w \in Workloads BY Connections
    <2>3. workloads[w] \in Workload BY <1>h, <2>2 DEF WorkTypes
    <2>4. hnd.secret \in Secrets /\ hnd.ps \in Secrets
      BY <1>8 DEF Named, HandlerBind, HandlerStep
    <2>5. Watching'
      BY <1>t, <2>1, <2>2, <2>3, <2>4, NewVolume, PutEffect, WatchingStays, StoreWatched
    <2>6. /\ hnd'.pc = "status" /\ hnd.pc = "bind"
          /\ hnd'.of = hnd.of /\ hnd'.ps = hnd.ps /\ hnd'.secret = hnd.secret
      BY <1>8, <1>h DEF HandlerBind, HandlerStep, Handler
    <2>7. HndCopy' BY <1>8, <2>6 DEF HandlerBind, HandlerStep, HndCopy
    <2> QED BY <1>r, <1>8, <2>5, <2>7 DEF HandlerBind, HandlerStep
  <1> QED BY <1>1, <1>2, <1>3, <1>4, <1>5, <1>6, <1>7, <1>8 DEF Handle
-----------------------------------------------------------------------------
(* Who sees to the workloads. *)

(* Without another reconciliation the binding's secret is owned. *)
LEMMA OwnedAtRest ==
  ASSUME TypeOK, RecCopy, Attended, Live, ~Due
  PROVE  /\ secrets[binding.secret] = "owned" /\ cache = binding
         /\ rec.pc \in {"idle", "apps", "secret", "bind", "own"}
  <1>1. rec.pc \in {"idle", "apps", "noApps", "secret", "malformed", "bind", "own",
                    "lookup", "unbind", "finalize"}
    BY Types DEF AgentTypes, Reconciler
  <1>2. ~Pending BY DEF Due
  <1>3. rec.pc \in {"idle", "apps", "secret", "bind", "own"}
    BY <1>1, <1>2 DEF Due, RecCopy
  <1>4. cache = binding BY <1>2 DEF RecCopy, Pending
  <1>5. CASE rec.pc = "idle" BY <1>3, <1>4, <1>5 DEF Attended, Stands
  <1>6. CASE rec.pc # "idle"
    <2>1. rec.secret = binding.secret BY <1>2, <1>3, <1>6 DEF RecCopy
    <2>2. secrets[rec.secret] = "owned" BY <1>3, <1>6 DEF Due
    <2> QED BY <1>3, <1>4, <2>1, <2>2
  <1> QED BY <1>5, <1>6

(* Every workload that is selected afterwards was so, and is still seen    *)
(* to, or is seen to anew.                                                 *)
LEMMA StillCovered ==
  ASSUME AllCovered, rec.pc # "apps", UNCHANGED <<binding, informer>>,
         \A v \in Selected' : Covered(v)' \/ (v \in Selected /\ (Covered(v) => Covered(v)'))
  PROVE  AllCovered'
  <1> SUFFICES ASSUME ClosureCurrent', NEW v \in Selected' PROVE Covered(v)'
    BY DEF AllCovered
  <1>1. ClosureCurrent BY DEF ClosureCurrent
  <1> QED BY <1>1 DEF AllCovered

(* A workload that is stored is seen to by its event. *)
LEMMA StoreCovered ==
  ASSUME TypeOK, informer.on, AllCovered, UNCHANGED <<binding, informer>>,
         NEW w \in Workloads, NEW o, StoreOf(w, o),
         rec'.pc = rec.pc, rec'.apps = rec.apps, rec.todo \ {w} \subseteq rec'.todo,
         \A v \in Workloads \ {w} : HandlerOn(v) => HandlerOn(v)'
  PROVE  AllCovered'
  <1>1. events'[w] # << >> /\ \A v \in Workloads \ {w} : events'[v] = events[v]
    BY DEF StoreOf, Telling
  <1>2. \A v \in Workloads \ {w} : workloads'[v] = workloads[v] BY DEF StoreOf
  <1>3. Covered(w)' BY <1>1 DEF Covered
  <1>4. ASSUME NEW v \in Selected', v # w
        PROVE  v \in Selected /\ (Covered(v) => Covered(v)')
    <2>1. v \in Workloads \ {w} BY <1>4 DEF Selected, Existing
    <2>2. v \in Selected BY <1>2, <1>4, <2>1 DEF Selected, Existing
    <2>3. ReconcilerOn(v) => ReconcilerOn(v)' BY <1>2, <2>1 DEF ReconcilerOn
    <2>4. Served(v) => Served(v)' BY <1>2, <2>1 DEF Served
    <2> QED BY <1>1, <2>1, <2>2, <2>3, <2>4 DEF Covered
  <1>5. CASE rec.pc # "apps" BY <1>3, <1>4, <1>5, StillCovered
  <1>6. CASE rec.pc = "apps" BY <1>6 DEF AllCovered
  <1> QED BY <1>5, <1>6

(* Nothing that matters to a workload happens to it. *)
LEMMA SameCovered ==
  ASSUME AllCovered, UNCHANGED <<binding, informer, workloads>>,
         rec'.pc = rec.pc, rec'.apps = rec.apps, rec.todo \subseteq rec'.todo,
         \A v \in Selected : events[v] # << >> => Covered(v)',
         \A v \in Selected : HandlerOn(v) => Covered(v)'
  PROVE  AllCovered'
  <1>1. CASE rec.pc = "apps" BY <1>1 DEF AllCovered
  <1>2. CASE rec.pc # "apps"
    <2>1. Selected' = Selected BY DEF Selected, Existing
    <2>2. ASSUME NEW v \in Selected PROVE Covered(v) => Covered(v)'
      <3>1. ReconcilerOn(v) => ReconcilerOn(v)' BY DEF ReconcilerOn
      <3>2. Served(v) => Served(v)' BY DEF Served
      <3> QED BY <3>1, <3>2 DEF Covered
    <2> QED BY <1>2, <2>1, <2>2, StillCovered
  <1> QED BY <1>1, <1>2

LEMMA StandsStill ==
  ASSUME Stands, UNCHANGED <<binding>>, rec'.pc = rec.pc,
         secrets[binding.secret] = "owned" => secrets'[binding.secret] = "owned"
  PROVE  Stands'
  BY DEF Stands

LEMMA OthersAttended ==
  ASSUME TypeOK, Named, RecCopy, Attended, OthersStep
  PROVE  Attended'
  <1>b. WorkTypes /\ rec \in Reconciler /\ BindingTypes BY Types DEF AgentTypes
  <1>1. ASSUME fresh' = {} \/ queued' PROVE Attended'
    BY <1>1 DEF Attended, Due, Pending
  <1>2. ASSUME NEW s \in Secrets, NEW st \in {"free", "absent"}, StoreSecret(s, st),
               secrets[s] \in {"free", "absent"},
               UNCHANGED <<binding, fresh, queued, workloads, held, informer, events, hnd>>
        PROVE  Attended'
    <2>1. rec'.pc = rec.pc /\ rec'.secret = rec.secret /\ rec'.apps = rec.apps
          /\ rec'.todo = rec.todo /\ rec'.err = rec.err
      BY <1>2, SecretNamed
    <2>2. \A x : secrets'[x] = secrets[x] \/ (x = s /\ secrets'[x] = st)
      BY <1>2, <1>b DEF StoreSecret, BindingTypes
    <2>3. \A x : secrets[x] = "owned" => secrets'[x] = "owned" BY <1>2, <2>2
    <2>4. Due => Due'
      <3>1. rec.pc \in {"apps", "secret", "bind", "own"} => rec.secret \in Secrets
        BY DEF Named
      <3>2. \A x \in Secrets : secrets[x] # "owned" => secrets'[x] # "owned"
        BY <1>2, <2>2
      <3> QED BY <1>2, <2>1, <3>1, <3>2 DEF Due, Pending
    <2> SUFFICES ASSUME Live, ~Due PROVE informer'.on /\ Stands' /\ AllCovered'
      BY <1>2, <2>4 DEF Attended, Live
    <2>5. informer.on /\ Stands /\ AllCovered BY DEF Attended
    <2>6. Stands' BY <1>2, <2>1, <2>3, <2>5, StandsStill
    <2>7. \A v : HandlerOn(v) => HandlerOn(v)' BY <1>2 DEF HandlerOn
    <2>8. AllCovered' BY <1>2, <2>1, <2>5, <2>7, SameCovered DEF Covered
    <2> QED BY <1>2, <2>5, <2>6, <2>8
  <1>3. ASSUME NEW w \in Workloads, NEW o \in Workload, StoreWorkload(w, o),
               UNCHANGED <<binding, fresh, secrets, agent>>
        PROVE  Attended'
    <2>1. Due' = Due BY <1>3 DEF Due, Pending, agent
    <2> SUFFICES ASSUME Live, ~Due PROVE informer'.on /\ Stands' /\ AllCovered'
      BY <1>3, <2>1 DEF Attended, Live
    <2>2. informer.on /\ Stands /\ AllCovered BY DEF Attended
    <2>3. StoreOf(w, o) BY <1>3, StoreEffect
    <2>4. \A v \in Workloads \ {w} : HandlerOn(v) => HandlerOn(v)'
      BY <1>3, <2>3 DEF HandlerOn, StoreOf, agent, Threads
    <2>5. AllCovered' BY <1>3, <2>2, <2>3, <2>4, StoreCovered DEF agent
    <2>6. Stands' BY <1>3, <2>2, StandsStill DEF agent
    <2> QED BY <1>3, <2>2, <2>5, <2>6 DEF agent
  <1>4. CASE Users
    <2>1. ASSUME NEW s \in Secrets, CreateBinding(s) \/ EditBinding(s) PROVE Attended'
      BY <1>1, <2>1 DEF CreateBinding, EditBinding
    <2>2. CASE DeleteBinding BY <1>1, <2>2 DEF DeleteBinding
    <2>3. ASSUME NEW s \in Secrets, CreateSecret(s) PROVE Attended'
      BY <1>2, <2>3 DEF CreateSecret
    <2>4. ASSUME NEW s \in Secrets, DeleteSecret(s) PROVE Attended'
      <3>1. CASE secrets[s] # "free" BY <1>1, <2>4, <3>1 DEF DeleteSecret
      <3>2. CASE secrets[s] = "free"
        <4>1. queued' = queued BY <2>4, <3>2, Types DEF DeleteSecret, AgentTypes
        <4> QED BY <1>2, <2>4, <3>2, <4>1 DEF DeleteSecret
      <3> QED BY <3>1, <3>2
    <2>5. ASSUME NEW w \in Workloads, DeleteWorkload(w) PROVE Attended'
      <3>1. NoWorkload \in Workload BY DEF NoWorkload, Workload
      <3> QED BY <1>3, <2>5, <3>1 DEF DeleteWorkload
    <2>6. ASSUME NEW w \in Workloads, NEW l \in Labels, NEW p \in BOOLEAN, ApplyWorkload(w, l, p)
          PROVE  Attended'
      BY <1>3, <2>6, AppliedWorkload DEF ApplyWorkload
    <2>7. CASE CalmDown
      BY <2>7 DEF CalmDown, agent, Attended, Live, Due, Pending, Stands, AllCovered, Selected,
          Existing, ClosureCurrent, Covered, HandlerOn, ReconcilerOn, Served
    <2> QED BY <1>4, <2>1, <2>2, <2>3, <2>4, <2>5, <2>6, <2>7 DEF Users
  <1>5. CASE SyncBinding BY <1>1, <1>5 DEF SyncBinding
  <1>6. CASE Restart BY <1>6 DEF Restart, Attended, Live, Due, Pending
  <1>7. CASE Collect BY <1>1, <1>7 DEF Collect, CollectSecret
  <1>8. ASSUME NEW w \in Workloads, Resync(w) PROVE Attended'
    <2>1. Due' = Due BY <1>8 DEF Resync, Due, Pending, agent
    <2> SUFFICES ASSUME Live, ~Due PROVE informer'.on /\ Stands' /\ AllCovered'
      BY <1>8, <2>1 DEF Attended, Live, Resync
    <2>2. informer.on /\ Stands /\ AllCovered BY DEF Attended
    <2>3. workloads[w].labels \in EventKinds BY <1>b DEF WorkTypes, Workload, EventKinds
    <2>4. events' = Notified(w, workloads[w].labels) BY <1>8 DEF Resync
    <2>5. Telling(events', w, workloads[w].labels) BY <2>3, <2>4, NotifiedTells
    <2>6. \A v \in Selected : events[v] # << >> => events'[v] # << >>
      BY <2>2, <2>5 DEF Telling, Selected, Existing
    <2>7. \A v : HandlerOn(v) => HandlerOn(v)' BY <1>8 DEF HandlerOn, Resync, agent
    <2>8. AllCovered' BY <1>8, <2>2, <2>6, <2>7, SameCovered DEF Covered, Resync, agent
    <2>9. Stands' BY <1>8, <2>2, StandsStill DEF Resync, agent
    <2> QED BY <1>8, <2>2, <2>8, <2>9 DEF Resync, agent
  <1> QED BY <1>4, <1>5, <1>6, <1>7, <1>8 DEF OthersStep

LEMMA ReconcileAttended ==
  ASSUME ~MayFail, TypeOK, Named, RecCopy, Attended, Reconcile
  PROVE  Attended'
  <1>f. ~Fails BY DEF Fails
  <1>r. rec \in Reconciler /\ WorkTypes /\ BindingTypes BY Types DEF AgentTypes
  <1>t. "rec" \in Threads BY DEF Threads
  <1>d. ASSUME Live' => Due' PROVE Attended' BY <1>d DEF Attended
  <1>q. ASSUME NEW e \in BOOLEAN, Return(e), e PROVE Attended'
    BY <1>d, <1>q DEF Return, Due, Pending
  <1>1. CASE ReconcileNothing
    <2>1. Live' => Due' BY <1>1 DEF ReconcileNothing, Step, RecCopy, Live, Due, Pending
    <2> QED BY <1>d, <2>1
  <1>2. CASE ReconcileDeleted
    <2>1. "cache" \in fresh' => "cache" \in fresh BY <1>2 DEF ReconcileDeleted, Copied
    <2>2. Live' => Due' BY <1>2, <2>1 DEF ReconcileDeleted, Step, RecCopy, Live, Due, Pending
    <2> QED BY <1>d, <2>2
  <1>3. ASSUME NEW ok \in BOOLEAN, ReconcileLive(ok) PROVE Attended'
    <2>1. ok BY <1>f, <1>3 DEF ReconcileLive
    <2>2. rec'.pc = "apps" BY <1>3, <2>1 DEF ReconcileLive, Idle
    <2>3. informer'.on BY <1>3, <2>1 DEF ReconcileLive
    <2> QED BY <2>2, <2>3 DEF Attended, Stands, AllCovered
  <1>4. ASSUME NEW ok \in BOOLEAN, getApplication(ok) PROVE Attended'
    <2>1. ok BY <1>f, <1>4 DEF getApplication
    <2>2. /\ rec.pc = "apps" /\ rec'.pc = (IF Selected = {} THEN "noApps" ELSE "secret")
          /\ rec'.apps = Selected /\ rec'.secret = rec.secret
      BY <1>4, <1>r, <2>1 DEF getApplication, Step, Reconciler
    <2>3. UNCHANGED <<binding, fresh, secrets, workloads, queued, informer>>
      BY <1>4 DEF getApplication
    <2> SUFFICES ASSUME Live', ~Due' PROVE informer'.on /\ Stands' /\ AllCovered'
      BY DEF Attended
    <2>4. rec'.pc = "secret" BY <2>2 DEF Due
    <2>5. Live /\ ~Due BY <2>2, <2>3, <2>4 DEF Live, Due, Pending
    <2>6. informer'.on BY <2>3, <2>5 DEF Attended
    <2>7. Selected' = Selected BY <2>3 DEF Selected, Existing
    <2>8. AllCovered' BY <2>2, <2>4, <2>7 DEF AllCovered, Covered, ReconcilerOn
    <2> QED BY <2>4, <2>6, <2>8 DEF Stands
  <1>5. CASE GetSecret
    <2>1. /\ rec.pc = "secret" /\ rec'.pc \in {"bind", "malformed"}
          /\ rec'.apps = rec.apps /\ rec'.todo = rec.apps /\ rec'.secret = rec.secret
      BY <1>5, <1>r DEF GetSecret, Step, Reconciler
    <2>2. UNCHANGED <<binding, fresh, secrets, workloads, held, queued, informer, events, hnd>>
      BY <1>5 DEF GetSecret
    <2> SUFFICES ASSUME Live', ~Due' PROVE informer'.on /\ Stands' /\ AllCovered'
      BY DEF Attended
    <2>3. rec'.pc = "bind" BY <2>1 DEF Due
    <2>4. Live /\ ~Due BY <2>1, <2>2, <2>3 DEF Live, Due, Pending
    <2>5. informer.on /\ AllCovered BY <2>4 DEF Attended
    <2>6. Selected' = Selected BY <2>2 DEF Selected, Existing
    <2>7. ASSUME NEW v \in Selected, Covered(v) PROVE Covered(v)'
      <3>1. ReconcilerOn(v) => ReconcilerOn(v)' BY <2>1, <2>3 DEF ReconcilerOn
      <3>2. HandlerOn(v) => HandlerOn(v)' BY <2>2 DEF HandlerOn
      <3>3. Served(v) => Served(v)' BY <2>2 DEF Served
      <3> QED BY <2>2, <2>7, <3>1, <3>2, <3>3 DEF Covered
    <2>8. AllCovered' BY <2>1, <2>2, <2>5, <2>6, <2>7, StillCovered
    <2> QED BY <2>2, <2>3, <2>5, <2>8 DEF Stands
  <1>6. ASSUME NEW ok \in BOOLEAN, ReportNoApplications(ok) PROVE Attended'
    BY <1>q, <1>6 DEF ReportNoApplications
  <1>7. ASSUME NEW ok \in BOOLEAN, ReportNoSecret(ok) PROVE Attended'
    <2>1. CASE ok
      <3>1. rec'.pc = "unbind" BY <1>7, <1>r, <2>1 DEF ReportNoSecret, Reconciler
      <3> QED BY <1>d, <3>1 DEF Due
    <2>2. CASE ~ok BY <1>q, <1>7, <2>2 DEF ReportNoSecret
    <2> QED BY <2>1, <2>2
  <1>8. CASE UnbindReturns BY <1>q, <1>8 DEF UnbindReturns
  <1>9. ASSUME NEW unread \in SUBSET Workloads, getBoundApplications(unread) PROVE Attended'
    <2>1. Live' => Due'
      BY <1>9 DEF getBoundApplications, Step, RecCopy, Live, Due, Pending
    <2> QED BY <1>d, <2>1
  <1>10. ASSUME NEW ok \in BOOLEAN, NEW w \in Workloads, unbindApplication(w, ok)
         PROVE  Attended'
    <2>1. rec'.pc = rec.pc /\ rec.pc \in {"unbind", "finalize"}
      BY <1>10, <1>r DEF unbindApplication, Reconciler
    <2>2. Live' => Due'
      BY <1>10, <2>1 DEF unbindApplication, RecCopy, Live, Due, Pending
    <2> QED BY <1>d, <2>2
  <1>11. ASSUME NEW ok \in BOOLEAN, RemoveFinalizer(ok) PROVE Attended'
    <2>1. CASE ok
      <3>1. fresh' = {} BY <1>11, <2>1 DEF RemoveFinalizer
      <3> QED BY <1>d, <3>1 DEF Due, Pending
    <2>2. CASE ~ok BY <1>q, <1>11, <2>2 DEF RemoveFinalizer
    <2> QED BY <2>1, <2>2
  <1>12. ASSUME NEW ok \in BOOLEAN, SetOwner(ok) PROVE Attended'
    <2> DEFINE st == secrets[rec.secret]
    <2>1. CASE ~ok BY <1>q, <1>12, <2>1 DEF SetOwner
    <2>2. CASE ok /\ st # "owned" BY <1>q, <1>12, <2>2 DEF SetOwner
    <2>3. CASE ok /\ st = "owned"
      <3>1. /\ rec.pc = "own" /\ rec.secret \in Secrets
            /\ UNCHANGED <<binding, fresh, workloads, held, informer, events, hnd>>
        BY <1>12 DEF SetOwner, Step, Named
      <3>2. secrets' = [secrets EXCEPT ![rec.secret] = "owned"] /\ Return(FALSE)
        BY <1>12, <2>3 DEF SetOwner
      <3>3. secrets' = secrets BY <1>r, <2>3, <3>1, <3>2 DEF BindingTypes
      <3>4. rec' = Idle /\ (queued' <=> queued) BY <3>2 DEF Return
      <3> SUFFICES ASSUME Live', ~Due' PROVE informer'.on /\ Stands' /\ AllCovered'
        BY DEF Attended
      <3>5. Live /\ ~Due BY <2>3, <3>1, <3>4 DEF Live, Due, Pending
      <3>6. informer.on /\ Stands /\ AllCovered BY <3>5 DEF Attended
      <3>7. secrets[binding.secret] = "owned" BY <3>5, OwnedAtRest
      <3>8. Stands' BY <3>1, <3>3, <3>6, <3>7 DEF Stands
      <3>9. Selected' = Selected BY <3>1 DEF Selected, Existing
      <3>10. ASSUME NEW v \in Selected, Covered(v) PROVE Covered(v)'
        <4>1. ~ReconcilerOn(v) BY <3>1 DEF ReconcilerOn
        <4>2. HandlerOn(v) => HandlerOn(v)' BY <3>1 DEF HandlerOn
        <4>3. Served(v) => Served(v)' BY <3>1 DEF Served
        <4> QED BY <3>1, <3>10, <4>1, <4>2, <4>3 DEF Covered
      <3>11. AllCovered' BY <3>1, <3>6, <3>9, <3>10, StillCovered
      <3> QED BY <3>1, <3>6, <3>8, <3>11
    <2> QED BY <2>1, <2>2, <2>3
  <1>13. ASSUME NEW ok \in BOOLEAN, bindApplications(ok) PROVE Attended'
    <2>1. CASE ~(ok /\ ~rec.err) BY <1>q, <1>13, <2>1 DEF bindApplications
    <2>2. CASE ok /\ ~rec.err
      <3>1. /\ rec.pc = "bind" /\ rec.todo = {} /\ rec'.pc = "own"
            /\ rec'.secret = rec.secret /\ rec'.apps = rec.apps
            /\ UNCHANGED <<queued, secrets, workloads, held, informer, events, hnd>>
        BY <1>13, <1>r, <2>2 DEF bindApplications, Step, Reconciler
      <3>2. ok = TRUE /\ PutStatus("rec", "Ready", "Successful", rec.apps, TRUE)
        <4>1. ok = TRUE BY <2>2
        <4> QED BY <1>13, <2>2, <4>1 DEF bindApplications
      <3>3. /\ binding' # binding => fresh' = {}
            /\ binding' = binding => fresh' = fresh \ {"rec"}
            /\ binding'.state = "Ready" /\ binding'.reason = "Successful"
            /\ binding'.connections = rec.apps
        <4>1. "Successful" \in Reasons /\ rec.apps \in SUBSET Workloads
          BY Connections DEF ReasonsUsed
        <4> QED BY <1>t, <3>2, <4>1, StatusEffect
      <3> SUFFICES ASSUME Live', ~Due' PROVE informer'.on /\ Stands' /\ AllCovered'
        BY DEF Attended
      <3>4. binding' = binding BY <3>3 DEF Due, Pending
      <3>5. Live /\ ~Due BY <2>2, <3>1, <3>3, <3>4 DEF Live, Due, Pending
      <3>6. informer.on /\ AllCovered BY <3>5 DEF Attended
      <3>7. Stands' BY <3>1, <3>3 DEF Stands
      <3>8. Selected' = Selected BY <3>1 DEF Selected, Existing
      <3>9. ASSUME NEW v \in Selected, Covered(v) PROVE Covered(v)'
        <4>1. ReconcilerOn(v) => Served(v)' BY <3>1, <3>3, <3>4 DEF ReconcilerOn, Served
        <4>2. HandlerOn(v) => HandlerOn(v)' BY <3>1, <3>3, <3>4 DEF HandlerOn
        <4>3. Served(v) => Served(v)' BY <3>1, <3>4 DEF Served
        <4> QED BY <3>1, <3>9, <4>1, <4>2, <4>3 DEF Covered
      <3>10. AllCovered' BY <3>1, <3>4, <3>6, <3>8, <3>9, StillCovered
      <3> QED BY <3>1, <3>6, <3>7, <3>10
    <2> QED BY <2>1, <2>2
  <1>14. ASSUME NEW ok \in BOOLEAN, NEW w \in Workloads, prepareContainerWithMounts(w, ok)
         PROVE  Attended'
    <2>1. /\ rec'.secret = rec.secret /\ rec'.pc = rec.pc /\ rec'.apps = rec.apps
          /\ rec'.todo = rec.todo \ {w} /\ rec.pc = "bind" /\ w \in rec.todo
          /\ rec'.err = (rec.err \/ ~ok)
          /\ UNCHANGED <<binding, fresh, secrets, queued, informer, hnd>>
      BY <1>14, <1>r DEF prepareContainerWithMounts, Step, Reconciler
    <2>2. workloads[w] \in Workload /\ rec.secret \in Secrets BY <1>r, <2>1 DEF WorkTypes, Named
    <2> DEFINE o == Bound(workloads[w], rec.secret, rec.secret)
    <2>3. PutWorkload("rec", w, o, ok) BY <1>14 DEF prepareContainerWithMounts
    <2>4. o \in Workload /\ o.volume = rec.secret BY <2>2, NewVolume
    <2> HIDE DEF o
    <2> SUFFICES ASSUME Live', ~Due' PROVE informer'.on /\ Stands' /\ AllCovered'
      BY DEF Attended
    <2>5. ok /\ ~rec.err BY <2>1 DEF Due
    <2>6. Live /\ ~Due BY <2>1, <2>5 DEF Live, Due, Pending
    <2>7. informer.on /\ AllCovered BY <2>6 DEF Attended
    <2>8. Stands' BY <2>1 DEF Stands
    <2>9. AllCovered'
      <3>1. CASE StoreOf(w, o)
        <4>1. \A v \in Workloads \ {w} : HandlerOn(v) => HandlerOn(v)'
          BY <2>1, <3>1 DEF HandlerOn, StoreOf, Threads
        <4> QED BY <2>1, <2>7, <3>1, <4>1, StoreCovered
      <3>2. CASE /\ UNCHANGED <<workloads, events>> /\ held'["hnd"] = held["hnd"]
                 /\ workloads[w] = o
        <4>1. Selected' = Selected BY <3>2 DEF Selected, Existing
        <4>2. rec.secret = binding.secret BY <2>1, <2>6 DEF RecCopy, Due
        <4>3. w \in rec.apps BY <2>1 DEF RecCopy
        <4>4. ReconcilerOn(w)' BY <2>1, <2>4, <3>2, <4>2, <4>3 DEF ReconcilerOn
        <4>5. ASSUME NEW v \in Selected, Covered(v), v # w PROVE Covered(v)'
          <5>1. ReconcilerOn(v) => ReconcilerOn(v)' BY <2>1, <3>2, <4>5 DEF ReconcilerOn
          <5>2. HandlerOn(v) => HandlerOn(v)' BY <2>1, <3>2 DEF HandlerOn
          <5>3. Served(v) => Served(v)' BY <2>1, <3>2 DEF Served
          <5> QED BY <3>2, <4>5, <5>1, <5>2, <5>3 DEF Covered
        <4>6. Covered(w)' BY <4>4 DEF Covered
        <4> QED BY <2>1, <2>7, <4>1, <4>5, <4>6, StillCovered
      <3>3. ok = TRUE /\ PutWorkload("rec", w, o, TRUE)
        <4>1. ok = TRUE BY <2>5
        <4> QED BY <2>3, <4>1
      <3> QED BY <1>t, <2>4, <3>1, <3>2, <3>3, PutEffect DEF Threads
    <2> QED BY <2>1, <2>7, <2>8, <2>9
  <1> QED BY <1>1, <1>2, <1>3, <1>4, <1>5, <1>6, <1>7, <1>8, <1>9, <1>10, <1>11, <1>12,
             <1>13, <1>14 DEF Reconcile

(* A step of the handler leaves to the reconciler what is due. *)
LEMMA HandlerDue ==
  ASSUME TypeOK, Named, Attended, UNCHANGED <<queued, rec, secrets, informer>>,
         "cache" \in fresh' => "cache" \in fresh,
         Live' => Live,
         Live /\ ~Due /\ informer.on /\ Stands /\ AllCovered => Stands' /\ AllCovered'
  PROVE  Attended'
  <1> SUFFICES ASSUME Live', ~Due' PROVE informer'.on /\ Stands' /\ AllCovered'
    BY DEF Attended
  <1>1. ~Due BY DEF Due, Pending
  <1> QED BY <1>1 DEF Attended

(* A status the handler writes is either new, and another reconciliation   *)
(* follows, or changes nothing.                                            *)
LEMMA HandlerStatus ==
  ASSUME TypeOK, Named, Attended, NEW st \in {"Malformed", "Ready"}, NEW reason \in Reasons,
         NEW conns \in SUBSET Workloads, NEW ok \in BOOLEAN,
         PutStatus("hnd", st, reason, conns, ok),
         UNCHANGED <<queued, rec, secrets, informer, workloads, events>>,
         \A v \in Workloads : HandlerOn(v) => ok /\ workloads[v].volume = binding.secret
                                                 /\ v \in conns
  PROVE  Attended'
  <1>1. /\ binding' # binding => fresh' = {}
        /\ binding' = binding => fresh' = fresh \ {"hnd"}
        /\ ok => binding'.connections = conns
    <2>1. "hnd" \in Threads BY DEF Threads
    <2>2. CASE ok = TRUE
      <3>1. PutStatus("hnd", st, reason, conns, TRUE) BY <2>2
      <3> QED BY <2>1, <3>1, StatusWritten
    <2>3. CASE ok = FALSE BY <2>1, <2>3, StatusEffect
    <2> QED BY <2>2, <2>3
  <1>2. CASE binding' # binding BY <1>1, <1>2 DEF Attended, Due, Pending
  <1>3. CASE binding' = binding
    <2>1. ASSUME informer.on, Stands, AllCovered PROVE Stands' /\ AllCovered'
      <3>1. Stands' BY <1>3, <2>1, StandsStill
      <3>2. ASSUME NEW v \in Selected, HandlerOn(v) PROVE Covered(v)'
        <4>1. v \in Workloads BY DEF Selected, Existing
        <4> QED BY <1>1, <1>3, <3>2, <4>1 DEF Covered, Served
      <3>3. \A v \in Selected : events[v] # << >> => Covered(v)' BY DEF Covered
      <3> QED BY <1>3, <2>1, <3>1, <3>2, <3>3, SameCovered
    <2>2. "cache" \in fresh' => "cache" \in fresh BY <1>1, <1>3
    <2> QED BY <1>3, <2>1, <2>2, HandlerDue DEF Live
  <1> QED BY <1>2, <1>3

LEMMA HandlerAttended ==
  ASSUME ~MayFail, TypeOK, Named, RecCopy, HndCopy, Watching, Attended, Handle
  PROVE  Attended'
  <1>f. ~Fails BY DEF Fails
  <1>h. hnd \in Handler /\ WorkTypes BY Types DEF AgentTypes
  <1>t. "hnd" \in Threads BY DEF Threads
  <1>1. ASSUME NEW w \in Workloads, HandleChange(w) PROVE Attended'
    <2>1. /\ UNCHANGED <<binding, fresh, secrets, workloads, queued, rec, informer>>
          /\ hnd.pc = "idle" /\ events[w] # << >> /\ events' = [events EXCEPT ![w] = Tail(@)]
      BY <1>1 DEF HandleChange, HandlerStep
    <2>2. \A v \in Workloads \ {w} : events'[v] = events[v] BY <1>h, <2>1, TakenEvent
    <2>3. ASSUME w \in Selected PROVE Covered(w)'
      <3>1. CASE events'[w] # << >> BY <3>1 DEF Covered
      <3>2. CASE events'[w] = << >>
        <4>1. Head(events[w]) = events[w][Len(events[w])] BY <1>h, <2>1, <3>2, TakenEvent
        <4>2. events[w][Len(events[w])] = NewestOf(w) BY <2>1 DEF Watching
        <4>3. Head(events[w]) = "all" BY <2>3, <4>1, <4>2 DEF NewestOf, Selected, Existing
        <4>4. /\ hnd' = [HandlerIdle EXCEPT !.pc = "secret", !.of = {w}, !.ps = informer.secret]
              /\ held' = [held EXCEPT !["hnd"] = {w}]
          BY <1>1, <3>2, <4>3
          DEF HandleChange, verifyApplicationSatisfiesServiceBindingSpec
        <4>5. hnd'.pc = "secret" /\ hnd'.of = {w} BY <4>4 DEF HandlerIdle
        <4>6. held'["hnd"] = {w} BY <1>h, <1>t, <4>4 DEF WorkTypes
        <4> QED BY <4>5, <4>6 DEF Covered, HandlerOn
      <3> QED BY <3>1, <3>2
    <2>4. \A v : ~HandlerOn(v) BY <2>1 DEF HandlerOn
    <2>5. \A v \in Selected : events[v] # << >> => Covered(v)'
      BY <2>2, <2>3 DEF Covered, Selected, Existing
    <2>6. Stands /\ AllCovered => Stands' /\ AllCovered'
      BY <2>1, <2>4, <2>5, StandsStill, SameCovered
    <2> QED BY <2>1, <2>6, HandlerDue DEF Live
  <1>2. ASSUME NEW w \in Workloads, HandleDelete(w) PROVE Attended'
    <2>1. /\ UNCHANGED <<binding, secrets, workloads, queued, rec, informer>>
          /\ hnd.pc = "idle" /\ events[w] # << >> /\ events' = [events EXCEPT ![w] = Tail(@)]
          /\ Head(events[w]) = "deleted"
      BY <1>2 DEF HandleDelete, HandlerStep
    <2>2. \A v \in Workloads \ {w} : events'[v] = events[v] BY <1>h, <2>1, TakenEvent
    <2>3. ASSUME w \in Selected PROVE events'[w] # << >>
      <3> SUFFICES ASSUME events'[w] = << >> PROVE FALSE OBVIOUS
      <3>1. Head(events[w]) = events[w][Len(events[w])] BY <1>h, <2>1, TakenEvent
      <3>2. events[w][Len(events[w])] = NewestOf(w) BY <2>1 DEF Watching
      <3> QED BY <2>1, <2>3, <3>1, <3>2 DEF NewestOf, Selected, Existing
    <2>4. \A v : ~HandlerOn(v) BY <2>1 DEF HandlerOn
    <2>5. \A v \in Selected : events[v] # << >> => Covered(v)'
      BY <2>2, <2>3 DEF Covered, Selected, Existing
    <2>6. Stands /\ AllCovered => Stands' /\ AllCovered'
      BY <2>1, <2>4, <2>5, StandsStill, SameCovered
    <2>7. "cache" \in fresh' => "cache" \in fresh BY <1>2 DEF HandleDelete, Copied
    <2> QED BY <2>1, <2>6, <2>7, HandlerDue DEF Live
  <1>3. CASE HandlerGetSecret
    <2>1. /\ UNCHANGED <<binding, secrets, workloads, held, events, queued, rec, informer>>
          /\ hnd.pc = "secret" /\ ("cache" \in fresh' => "cache" \in fresh)
      BY <1>3 DEF HandlerGetSecret, HandlerStep
    <2>2. ASSUME Live, ~Due, informer.on, Stands, AllCovered PROVE Stands' /\ AllCovered'
      <3>1. Stands' BY <2>1, <2>2, StandsStill
      <3>2. CASE ~ClosureCurrent
        <4>1. ~ClosureCurrent' BY <2>1, <3>2 DEF ClosureCurrent
        <4> QED BY <3>1, <4>1 DEF AllCovered
      <3>3. CASE ClosureCurrent
        <4>1. secrets[hnd.ps] = "owned"
          BY <2>1, <2>2, <3>3, OwnedAtRest DEF HndCopy, ClosureCurrent
        <4>2. hnd'.pc = "get" /\ hnd'.of = hnd.of
          BY <1>3, <1>h, <4>1 DEF HandlerGetSecret, Handler
        <4>3. \A v \in Selected : HandlerOn(v) => Covered(v)'
          BY <2>1, <4>2 DEF HandlerOn, Covered
        <4>4. \A v \in Selected : events[v] # << >> => Covered(v)' BY <2>1 DEF Covered
        <4> QED BY <2>1, <2>2, <3>1, <4>3, <4>4, SameCovered
      <3> QED BY <3>2, <3>3
    <2> QED BY <2>1, <2>2, HandlerDue DEF Live
  <1>4. CASE HandlerGetBinding
    <2>1. /\ UNCHANGED <<binding, secrets, workloads, events, queued, rec, informer>>
          /\ hnd.pc = "get"
      BY <1>4 DEF HandlerGetBinding, HandlerStep
    <2>2. "cache" \in fresh' => "cache" \in fresh BY <1>4 DEF HandlerGetBinding, Copied
    <2>3. ASSUME Live, ~Due, informer.on, Stands, AllCovered PROVE Stands' /\ AllCovered'
      <3>1. Stands' BY <2>1, <2>3, StandsStill
      <3>2. cache = binding /\ "cache" \in fresh BY <2>3, OwnedAtRest DEF Due, Pending
      <3>3. /\ hnd' = [hnd EXCEPT !.pc = "bind", !.secret = cache.secret]
            /\ fresh' = Copied("hnd", fresh) /\ UNCHANGED held
        BY <1>4, <2>3, <3>2 DEF HandlerGetBinding, Live
      <3>4. hnd'.pc = "bind" /\ hnd'.of = hnd.of /\ "hnd" \in fresh'
        BY <1>h, <3>2, <3>3 DEF Handler, Copied
      <3>5. \A v \in Selected : HandlerOn(v) => Covered(v)'
        BY <2>1, <3>3, <3>4 DEF HandlerOn, Covered
      <3>6. \A v \in Selected : events[v] # << >> => Covered(v)' BY <2>1 DEF Covered
      <3> QED BY <2>1, <2>3, <3>1, <3>5, <3>6, SameCovered
    <2> QED BY <2>1, <2>2, <2>3, HandlerDue DEF Live
  <1>5. ASSUME NEW ok \in BOOLEAN, HandlerReportNoSecret(ok) PROVE Attended'
    <2>1. /\ PutStatus("hnd", "Malformed", "ErrorFetchSecret", binding.connections, ok)
          /\ UNCHANGED <<queued, rec, secrets, informer, workloads, events>>
          /\ hnd.pc = "malformed"
      BY <1>5 DEF HandlerReportNoSecret, HandlerStep
    <2>2. \A v : ~HandlerOn(v) BY <2>1 DEF HandlerOn
    <2> QED BY <2>1, <2>2, HandlerStatus, Connections DEF ReasonsUsed
  <1>6. ASSUME NEW ok \in BOOLEAN, HandlerPrune(ok) PROVE Attended'
    <2>1. /\ PutStatus("hnd", "Ready", "NoMatchingWorkloads", binding.connections \ hnd.of, ok)
          /\ UNCHANGED <<queued, rec, secrets, informer, workloads, events>>
          /\ hnd.pc = "prune"
      BY <1>6 DEF HandlerPrune, HandlerStep
    <2>2. \A v : ~HandlerOn(v) BY <2>1 DEF HandlerOn
    <2>3. binding.connections \ hnd.of \in SUBSET Workloads BY Connections
    <2> QED BY <2>1, <2>2, <2>3, HandlerStatus, Connections DEF ReasonsUsed
  <1>7. ASSUME NEW ok \in BOOLEAN, HandlerBound(ok) PROVE Attended'
    <2>1. /\ UNCHANGED <<queued, rec, secrets, informer, workloads, events>>
          /\ hnd.pc = "status" /\ hnd.of \in SUBSET Workloads
      BY <1>7, Connections DEF HandlerBound, HandlerStep
    <2>2. PICK st \in {"Malformed", "Ready"}, reason \in ReasonsUsed :
             PutStatus("hnd", st, reason, hnd.of, ok)
      BY <1>7 DEF HandlerBound, ReasonsUsed
    <2>3. reason \in Reasons BY Connections
    <2>4. ASSUME NEW v \in Workloads, HandlerOn(v)
          PROVE  ok /\ workloads[v].volume = binding.secret /\ v \in hnd.of
      <3>1. "hnd" \in fresh /\ workloads[v].volume = binding.secret /\ v \in hnd.of
        BY <2>1, <2>4 DEF HandlerOn
      <3>2. ok BY <1>f, <2>2, <3>1 DEF PutStatus
      <3> QED BY <3>1, <3>2
    <2> QED BY <2>1, <2>2, <2>3, <2>4, HandlerStatus
  <1>8. ASSUME NEW ok \in BOOLEAN, HandlerUnbind(ok) PROVE Attended'
    <2>1. PICK w \in hnd.of : PutWorkload("hnd", w, Unbound(workloads[w], hnd.ps), ok)
      BY <1>8 DEF HandlerUnbind
    <2>2. w \in Workloads BY Connections
    <2>3. workloads[w] \in Workload BY <1>h, <2>2 DEF WorkTypes
    <2> DEFINE o == Unbound(workloads[w], hnd.ps)
    <2>4. o \in Workload BY <2>3, NoVolume
    <2> HIDE DEF o
    <2>5. StoreOf(w, o) \/ UNCHANGED <<workloads, events>>
      <3>1. PutWorkload("hnd", w, o, ok) BY <2>1 DEF o
      <3> QED BY <1>t, <2>2, <2>4, <3>1, PutEffect
    <2>6. UNCHANGED <<binding, fresh, secrets, queued, rec, informer>> /\ hnd.pc = "unbind"
      BY <1>8 DEF HandlerUnbind, HandlerStep
    <2>7. \A v : ~HandlerOn(v) BY <2>6 DEF HandlerOn
    <2>8. ASSUME informer.on, Stands, AllCovered PROVE Stands' /\ AllCovered'
      <3>1. Stands' BY <2>6, <2>8, StandsStill
      <3>2. CASE StoreOf(w, o) BY <2>2, <2>6, <2>7, <2>8, <3>1, <3>2, StoreCovered
      <3>3. CASE UNCHANGED <<workloads, events>>
        <4>1. \A v \in Selected : events[v] # << >> => Covered(v)' BY <3>3 DEF Covered
        <4> QED BY <2>6, <2>7, <2>8, <3>1, <3>3, <4>1, SameCovered
      <3> QED BY <2>5, <3>2, <3>3
    <2> QED BY <2>6, <2>8, HandlerDue DEF Live
  <1>9. ASSUME NEW ok \in BOOLEAN, HandlerBind(ok) PROVE Attended'
    <2>1. PICK w \in hnd.of :
             PutWorkload("hnd", w, Bound(workloads[w], hnd.secret, hnd.ps), ok)
      BY <1>9 DEF HandlerBind
    <2>2. w \in Workloads BY Connections
    <2>3. workloads[w] \in Workload BY <1>h, <2>2 DEF WorkTypes
    <2>4. UNCHANGED <<binding, fresh, secrets, queued, rec, informer>> /\ hnd.pc = "bind"
      BY <1>9 DEF HandlerBind, HandlerStep
    <2>5. hnd.secret \in Secrets /\ hnd.ps \in Secrets BY <2>4 DEF Named
    <2> DEFINE o == Bound(workloads[w], hnd.secret, hnd.ps)
    <2>6. o \in Workload /\ o.volume = hnd.secret BY <2>3, <2>5, NewVolume
    <2> HIDE DEF o
    <2>7. \/ StoreOf(w, o)
          \/ /\ UNCHANGED <<workloads, events>>
             /\ ok => workloads[w] = o
             /\ ~ok => w \notin held["hnd"]
      <3>1. PutWorkload("hnd", w, o, ok) BY <2>1 DEF o
      <3>2. CASE ok = TRUE
        <4>1. PutWorkload("hnd", w, o, TRUE) BY <3>1, <3>2
        <4>2. StoreOf(w, o) \/ (UNCHANGED <<workloads, events>> /\ workloads[w] = o)
          BY <1>t, <2>2, <2>6, <4>1, PutDone DEF Threads
        <4> QED BY <3>2, <4>2
      <3>3. CASE ok = FALSE BY <1>f, <1>t, <2>2, <2>6, <3>1, <3>3, PutEffect
      <3> QED BY <3>2, <3>3
    <2>8. hnd'.pc = "status" /\ hnd'.of = hnd.of /\ hnd'.err = ~ok
      BY <1>9, <1>h DEF HandlerBind, Handler
    <2>9. \A v : HandlerOn(v) => v = w BY <2>1 DEF HandlerOn, HndCopy
    <2>10. ASSUME informer.on, Stands, AllCovered PROVE Stands' /\ AllCovered'
      <3>1. Stands' BY <2>4, <2>10, StandsStill
      <3>2. CASE StoreOf(w, o)
        <4>1. \A v \in Workloads \ {w} : HandlerOn(v) => HandlerOn(v)' BY <2>9
        <4> QED BY <2>2, <2>4, <2>10, <3>1, <3>2, <4>1, StoreCovered
      <3>3. CASE /\ UNCHANGED <<workloads, events>>
                 /\ ok => workloads[w] = o
                 /\ ~ok => w \notin held["hnd"]
        <4>1. \A v \in Selected : events[v] # << >> => Covered(v)' BY <3>3 DEF Covered
        <4>2. ASSUME HandlerOn(w) PROVE HandlerOn(w)'
          <5>1. w \in held["hnd"] /\ "hnd" \in fresh BY <2>4, <4>2 DEF HandlerOn
          <5>2. ok /\ workloads[w].volume = hnd.secret BY <2>6, <3>3, <5>1
          <5>3. hnd.secret = binding.secret BY <2>4, <5>1 DEF HndCopy
          <5> QED BY <2>1, <2>4, <2>8, <3>3, <5>1, <5>2, <5>3 DEF HandlerOn
        <4>3. \A v \in Selected : HandlerOn(v) => Covered(v)' BY <2>9, <4>2 DEF Covered
        <4> QED BY <2>4, <2>10, <3>1, <3>3, <4>1, <4>3, SameCovered
      <3> QED BY <2>7, <3>2, <3>3
    <2> QED BY <2>4, <2>10, HandlerDue DEF Live
  <1> QED BY <1>1, <1>2, <1>3, <1>4, <1>5, <1>6, <1>7, <1>8, <1>9 DEF Handle
-----------------------------------------------------------------------------
LEMMA InitAttended ==
  ASSUME Init PROVE RestInv
  <1>1. RecCopy BY DEF Init, RecCopy, Idle
  <1>2. HndCopy BY DEF Init, HndCopy, HandlerIdle
  <1>3. Watching BY DEF Init, Watching, NoEvents
  <1>4. ~Live BY DEF Init, Live, NewBinding
  <1> QED BY <1>1, <1>2, <1>3, <1>4 DEF RestInv, Attended

LEMMA NextAttended ==
  ASSUME ~MayFail, TypeInv, RestInv, Next PROVE RestInv'
  <1>1. TypeOK /\ Named /\ RecCopy /\ HndCopy /\ Watching /\ Attended
    BY DEF TypeInv, RestInv
  <1>2. CASE OthersStep BY <1>1, <1>2, OthersCopies, OthersAttended DEF RestInv
  <1>3. CASE Reconcile BY <1>1, <1>3, ReconcileCopies, ReconcileAttended DEF RestInv
  <1>4. CASE Handle BY <1>1, <1>4, HandlerCopies, HandlerAttended DEF RestInv
  <1> QED BY <1>2, <1>3, <1>4 DEF Next, OthersStep

LEMMA RestStutter ==
  ASSUME RestInv, UNCHANGED vars PROVE RestInv'
  <1>1. RecCopy' BY DEF RestInv, RecCopy, Live, Pending, vars
  <1>2. HndCopy' BY DEF RestInv, HndCopy, vars
  <1>3. Watching' BY WatchingStays DEF RestInv, vars
  <1>4. Attended'
    BY DEF RestInv, vars, Attended, Live, Due, Pending, Stands, AllCovered, Selected,
           Existing, ClosureCurrent, Covered, HandlerOn, ReconcilerOn, Served
  <1> QED BY <1>1, <1>2, <1>3, <1>4 DEF RestInv

(* Nobody sees to a workload of an agent at rest: it has been seen to. *)
LEMMA AtRest ==
  ASSUME TypeInv, RestInv PROVE RestIsSettled
  <1> SUFFICES ASSUME Live, Quiescent, ClosureCurrent PROVE Settled
    BY DEF RestIsSettled
  <1>1. ~Due BY DEF Due, Pending, Quiescent
  <1>2. Stands /\ AllCovered /\ rec.pc = "idle" /\ hnd.pc = "idle"
    BY <1>1 DEF RestInv, Attended, Quiescent
  <1>3. ASSUME NEW w \in Selected PROVE Served(w)
    <2>1. Covered(w) BY <1>2 DEF AllCovered
    <2>2. events[w] = << >> BY DEF Quiescent, Selected, Existing
    <2> QED BY <1>2, <2>1, <2>2 DEF Covered, HandlerOn, ReconcilerOn
  <1> QED BY <1>2, <1>3 DEF Settled, Stands, Served

(* The agent never rests on unfinished work, if no call to the API server  *)
(* fails: for any workloads, secrets and labels, whatever users do, with   *)
(* or without finalizers, and however often the agent is restarted.  (When *)
(* calls fail it may: the handlers drop their errors, and only a resync    *)
(* brings the workload back.)                                              *)
THEOREM WorkloadsSettle == ~MayFail => (Spec => []RestIsSettled)
  <1> SUFFICES ASSUME ~MayFail PROVE Spec => []RestIsSettled
    OBVIOUS
  <1>1. Init => TypeInv /\ RestInv BY InitTyped, InitAttended
  <1>2. TypeInv /\ RestInv /\ [Next]_vars => (TypeInv /\ RestInv)'
    BY NextTyped, TypeStutter, NextAttended, RestStutter
  <1>3. TypeInv /\ RestInv => RestIsSettled BY AtRest
  <1> QED BY <1>1, <1>2, <1>3, PTL DEF Spec
=============================================================================
