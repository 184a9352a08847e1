---------------------------- MODULE CatalogProofs ----------------------------
(***************************************************************************)
(* A catalog lists a service once, for any services, environments and      *)
(* ClusterEnvironments.  The RegisteredService worker adds an entry to a   *)
(* catalog on the word of a copy; what makes that safe is that the API     *)
(* server takes the update only while the copy is the current version, and *)
(* then the copy and the catalog agree on whether the service is listed.   *)
(***************************************************************************)
EXTENDS Catalog, TLAPS, SequenceTheorems, FiniteSetTheorems

(* The entries of a list have different names. *)
Distinct(q) == \A i, j \in DOMAIN q : q[i].name = q[j].name => i = j
-----------------------------------------------------------------------------
(* The inductive invariant. *)

(* The manager's cache: copies of the three kinds of objects, and a copy   *)
(* of a catalog that is not stale is the catalog.                          *)
CacheInv ==
  /\ cache = [svc |-> cache.svc, cat |-> cache.cat, ce |-> cache.ce]
  /\ cache.svc \in [Services -> Service]
  /\ cache.ce \in [Clusters -> ClusterState]
  /\ cache.cat \in [Environments -> ServiceCatalog]
  /\ \A e \in Environments \ stale : cache.cat[e] = cat[e]

(* The RegisteredService worker: of a catalog it has not come to yet and   *)
(* has a current copy of, it knows whether the service is listed.          *)
ServiceWorkerInv ==
  /\ v.pc # "idle" => /\ v.s \in Services /\ v.rev \in {0, 1}
                      /\ v.state \in {"gone", "Claimed", "Available"}
  /\ v.pc = "list" => v = [pc |-> "list", s |-> v.s, rev |-> v.rev, fresh |-> v.fresh,
                           state |-> v.state]
  /\ v.pc = "catalogs" =>
       /\ v = [pc |-> "catalogs", s |-> v.s, rev |-> v.rev, fresh |-> v.fresh,
               state |-> v.state, todo |-> v.todo, current |-> v.current,
               has |-> v.has, err |-> v.err]
       /\ v.todo \subseteq Environments
       /\ \A e \in v.todo \cap v.current :
            cat[e].exists /\ (e \in v.has <=> Lists(cat[e], v.s))

(* The ClusterEnvironment worker creates a catalog with different entries. *)
ClusterWorkerInv ==
  /\ x.pc # "idle" => x.k \in Clusters
  /\ x.pc \in {"finalizer", "status"} => x = [pc |-> x.pc, k |-> x.k]
  /\ x.pc = "create" => x.entries \in Seq(Entry) /\ Distinct(x.entries)

(* The ServiceCatalog worker. *)
CatalogWorkerInv ==
  u.pc = "push" => {"pc", "e"} \subseteq DOMAIN u /\ u.e \in Environments

CatInv == TypeOK /\ CacheInv /\ ServiceWorkerInv /\ ClusterWorkerInv
          /\ CatalogWorkerInv /\ NoDuplicates
-----------------------------------------------------------------------------
(* Lists of entries. *)

(* An entry with a new name keeps the names different.                     *)
LEMMA DistinctAppend ==
  ASSUME NEW q \in Seq(Entry), Distinct(q), NEW en \in Entry,
         \A i \in DOMAIN q : q[i].name # en.name
  PROVE  Append(q, en) \in Seq(Entry) /\ Distinct(Append(q, en))
<1>1. /\ Append(q, en) \in Seq(Entry)
      /\ Len(Append(q, en)) = Len(q) + 1
      /\ \A i \in 1 .. Len(q) : Append(q, en)[i] = q[i]
      /\ Append(q, en)[Len(q) + 1] = en
  BY AppendProperties
<1>2. Len(q) \in Nat /\ DOMAIN q = 1 .. Len(q)
  BY LenProperties
<1>3. DOMAIN Append(q, en) = 1 .. Len(q) + 1
  BY <1>1, LenProperties
<1>4. ASSUME NEW i \in DOMAIN Append(q, en)
      PROVE  \/ i \in DOMAIN q /\ Append(q, en)[i] = q[i]
             \/ i = Len(q) + 1 /\ Append(q, en)[i] = en
  BY <1>1, <1>2, <1>3
<1> QED BY <1>1, <1>4 DEF Distinct

(* So does the removal of an entry.                                        *)
LEMMA DistinctRemove ==
  ASSUME NEW q \in Seq(Entry), Distinct(q), NEW i \in 1 .. Len(q)
  PROVE  RemoveAt(q, i) \in Seq(Entry) /\ Distinct(RemoveAt(q, i))
<1> DEFINE left == SubSeq(q, 1, i - 1)
           right == SubSeq(q, i + 1, Len(q))
           r == RemoveAt(q, i)
<1>1. /\ Len(q) \in Nat /\ DOMAIN q = 1 .. Len(q) /\ i \in Int
      /\ \A j \in 1 .. Len(q) : q[j] \in Entry
  BY LenProperties
<1>2. /\ left \in Seq(Entry) /\ Len(left) = i - 1
      /\ \A j \in 1 .. i - 1 : left[j] = q[j]
  <2>1. \A j \in 1 .. i - 1 : q[j] \in Entry
    BY <1>1
  <2>2. 1 \in Int /\ i - 1 \in Int
    BY <1>1
  <2> HIDE DEF left
  <2>3. /\ left \in Seq(Entry) /\ Len(left) = IF 1 <= i - 1 THEN i - 1 - 1 + 1 ELSE 0
        /\ \A j \in 1 .. i - 1 - 1 + 1 : left[j] = q[1 + j - 1]
    BY <2>1, <2>2, SubSeqProperties DEF left
  <2>4. i - 1 - 1 + 1 = i - 1 /\ \A j \in 1 .. i - 1 : 1 + j - 1 = j
    BY <1>1
  <2> QED BY <2>3, <2>4, <1>1
<1>3. /\ right \in Seq(Entry) /\ Len(right) = Len(q) - i
      /\ \A j \in 1 .. Len(q) - i : right[j] = q[i + j]
  <2>1. \A j \in i + 1 .. Len(q) : q[j] \in Entry
    BY <1>1
  <2>2. i + 1 \in Int /\ Len(q) \in Int
    BY <1>1
  <2> HIDE DEF right
  <2>3. /\ right \in Seq(Entry)
        /\ Len(right) = IF i + 1 <= Len(q) THEN Len(q) - (i + 1) + 1 ELSE 0
        /\ \A j \in 1 .. Len(q) - (i + 1) + 1 : right[j] = q[(i + 1) + j - 1]
    BY <2>1, <2>2, SubSeqProperties DEF right
  <2>4. /\ Len(q) - (i + 1) + 1 = Len(q) - i
        /\ \A j \in 1 .. Len(q) - i : (i + 1) + j - 1 = i + j
    BY <1>1
  <2>5. Len(right) = Len(q) - i
    <3>1. \A m \in Nat : \A k \in 1 .. m : k + 1 <= m \/ m - k = 0
      OBVIOUS
    <3> QED BY <1>1, <2>3, <2>4, <3>1
  <2>6. ASSUME NEW j \in 1 .. Len(q) - i PROVE right[j] = q[i + j]
    BY <2>3, <2>4
  <2> QED BY <2>3, <2>5, <2>6
<1>4. r = left \o right
  BY DEF RemoveAt
<1> HIDE DEF left, right, r
<1>5. /\ r \in Seq(Entry) /\ Len(r) = Len(left) + Len(right)
      /\ \A j \in 1 .. Len(left) + Len(right) :
           r[j] = IF j <= Len(left) THEN left[j] ELSE right[j - Len(left)]
  BY <1>2, <1>3, <1>4, ConcatProperties
<1>6. Len(left) + Len(right) = Len(q) - 1
  BY <1>1, <1>2, <1>3
<1>7. DOMAIN r = 1 .. Len(q) - 1
  BY <1>5, <1>6, LenProperties
<1>8. ASSUME NEW j \in 1 .. Len(q) - 1
      PROVE  r[j] = IF j < i THEN q[j] ELSE q[j + 1]
  <2>1. CASE j < i
    <3>1. j \in 1 .. i - 1 /\ j <= Len(left) /\ j \in 1 .. Len(left) + Len(right)
      BY <2>1, <1>1, <1>2, <1>6
    <3> QED BY <3>1, <2>1, <1>2, <1>5
  <2>2. CASE ~(j < i)
    <3>1. /\ j - Len(left) \in 1 .. Len(q) - i /\ ~(j <= Len(left))
          /\ j \in 1 .. Len(left) + Len(right)
          /\ i + (j - Len(left)) = j + 1
      BY <2>2, <1>1, <1>2, <1>6
    <3> QED BY <3>1, <2>2, <1>3, <1>5
  <2> QED BY <2>1, <2>2
<1>9. Distinct(r)
  <2> SUFFICES ASSUME NEW a \in 1 .. Len(q) - 1, NEW b \in 1 .. Len(q) - 1,
                      r[a].name = r[b].name
               PROVE  a = b
    BY <1>7 DEF Distinct
  <2> DEFINE at(j) == IF j < i THEN j ELSE j + 1
  <2>1. /\ at(a) \in DOMAIN q /\ at(b) \in DOMAIN q
        /\ r[a] = q[at(a)] /\ r[b] = q[at(b)]
    BY <1>1, <1>8
  <2>2. at(a) = at(b)
    BY <2>1 DEF Distinct
  <2> QED BY <2>2, <1>1
<1> QED BY <1>5, <1>9 DEF r

(* ServiceInCatalog finds the one entry with the name, if there is one.    *)
LEMMA FoundIsListed ==
  ASSUME NEW sc \in ServiceCatalog, Distinct(sc.services), NEW s
  PROVE  /\ ServiceInCatalog(sc, s) # 0 <=> Lists(sc, s)
         /\ Lists(sc, s) => ServiceInCatalog(sc, s) \in 1 .. Len(sc.services)
<1> DEFINE at == {i \in DOMAIN sc.services : sc.services[i].name = s}
<1>1. sc.services \in Seq(Entry)
  BY DEF ServiceCatalog
<1>2. Len(sc.services) \in Nat /\ DOMAIN sc.services = 1 .. Len(sc.services)
  BY <1>1, LenProperties
<1>3. CASE at = {}
  BY <1>3 DEF ServiceInCatalog, Lists
<1>4. CASE at # {}
  <2>1. PICK i \in at : TRUE
    BY <1>4
  <2>2. \A j \in at : i = j
    BY DEF Distinct
  <2>3. i \in Nat
    BY <1>2
  <2>4. \E k \in at : \A j \in at : k <= j
    BY <2>2, <2>3
  <2>5. (CHOOSE k \in at : \A j \in at : k <= j) \in at
    BY <2>4
  <2>6. ServiceInCatalog(sc, s) \in at
    BY <1>4, <2>5 DEF ServiceInCatalog
  <2> QED BY <2>6, <1>2 DEF Lists
<1> QED BY <1>3, <1>4

(* A catalog is created with one entry for each service that was found.    *)
LEMMA ListingEntries ==
  ASSUME NEW found \in SUBSET Services, NEW q \in SetToSeqs(found),
         NEW copy \in [Services -> Service]
  PROVE  LET entries == [i \in DOMAIN q |-> [name |-> q[i], rev |-> copy[q[i]].rev]]
         IN  entries \in Seq(Entry) /\ Distinct(entries)
<1> DEFINE n == Cardinality(found)
           entries == [i \in DOMAIN q |-> [name |-> q[i], rev |-> copy[q[i]].rev]]
<1>1. n \in Nat
  BY CatalogAssumption, FS_Subset, FS_CardinalityType
<1>2. /\ q \in [1 .. n -> found]
      /\ \A i, j \in 1 .. n : i # j => q[i] # q[j]
  BY DEF SetToSeqs
<1>3. entries \in [1 .. n -> Entry]
  BY <1>2 DEF Entry, Service
<1>4. entries \in Seq(Entry)
  BY <1>1, <1>3, SeqDef
<1>5. Distinct(entries)
  BY <1>2 DEF Distinct
<1> QED BY <1>4, <1>5
-----------------------------------------------------------------------------
(* The invariant holds at first. *)
LEMMA CatInit == Init => CatInv
<1> SUFFICES ASSUME Init PROVE CatInv
  OBVIOUS
<1>1. NoCatalog \in ServiceCatalog /\ NoCatalog.services = << >>
  BY EmptySeq DEF NoCatalog, ServiceCatalog
<1>2. /\ cat \in [Environments -> ServiceCatalog]
      /\ \A e \in Environments : cat[e] = NoCatalog
  BY <1>1 DEF Init
<1>3. svc \in [Services -> Service] /\ ce \in [Clusters -> ClusterState]
  BY DEF Init, Service, ClusterState, Missing
<1>4. v.pc = "idle" /\ x.pc = "idle" /\ u.pc = "idle"
  BY DEF Init, Idle
<1>5. claims \in 0 .. MaxClaims
  BY CatalogAssumption DEF Init
<1>6. TypeOK
  BY <1>2, <1>3, <1>4, <1>5 DEF Init, TypeOK
<1>7. CacheInv
  BY <1>2, <1>3 DEF Init, CacheInv
<1>8. ServiceWorkerInv /\ ClusterWorkerInv /\ CatalogWorkerInv
  BY <1>4 DEF ServiceWorkerInv, ClusterWorkerInv, CatalogWorkerInv
<1>9. NoDuplicates
  BY <1>1, <1>2 DEF NoDuplicates
<1> QED BY <1>6, <1>7, <1>8, <1>9 DEF CatInv

(* A service is written by someone else: the RegisteredService worker only *)
(* notices when it writes the status.                                      *)
LEMMA StoreServiceKeeps ==
  ASSUME CatInv, NEW s \in Services, NEW o \in Service, StoreService(s, o),
         claims' \in 0 .. MaxClaims, UNCHANGED <<cat, ce, cache, queue, x, u>>
  PROVE  CatInv'
<1> USE DEF CatInv
<1>1. svc' \in [Services -> Service] /\ stale' = stale \cup {s}
  BY DEF StoreService, TypeOK
<1>2. v' = v \/ (v.pc # "idle" /\ v' = [v EXCEPT !.fresh = FALSE])
  BY DEF StoreService
<1>3. v'.pc = v.pc /\ ServiceWorkerInv'
  BY <1>2 DEF TypeOK, ServiceWorkerInv, Lists
<1>4. TypeOK'
  BY <1>1, <1>3 DEF TypeOK, Names
<1>5. CacheInv'
  BY <1>1 DEF CacheInv
<1>6. ClusterWorkerInv' /\ CatalogWorkerInv' /\ NoDuplicates'
  BY DEF ClusterWorkerInv, CatalogWorkerInv, NoDuplicates
<1> QED BY <1>3, <1>4, <1>5, <1>6

(* What users do to services, and the claims.                              *)
LEMMA ServiceUsersKeep ==
  ASSUME CatInv, NEW s \in Services,
         CreateService(s) \/ EditService(s) \/ DeleteService(s) \/ changeServiceState(s)
  PROVE  CatInv'
<1>1. svc[s] \in Service
  BY DEF CatInv, TypeOK
<1>2. /\ \A st \in Missing \cup {"", "Available", "Claimed"} :
           [svc[s] EXCEPT !.state = st] \in Service
      /\ [svc[s] EXCEPT !.rev = 1] \in Service
  BY <1>1 DEF Service
<1>3. claims \in 0 .. MaxClaims /\ (claims < MaxClaims => claims + 1 \in 0 .. MaxClaims)
  BY CatalogAssumption DEF CatInv, TypeOK
<1>4. CASE CreateService(s)
  BY <1>2, <1>3, <1>4, StoreServiceKeeps DEF CreateService
<1>5. CASE EditService(s)
  BY <1>2, <1>3, <1>5, StoreServiceKeeps DEF EditService
<1>6. CASE DeleteService(s)
  BY <1>2, <1>3, <1>6, StoreServiceKeeps DEF DeleteService, Missing
<1>7. CASE changeServiceState(s)
  BY <1>2, <1>3, <1>7, StoreServiceKeeps DEF changeServiceState
<1> QED BY <1>4, <1>5, <1>6, <1>7

(* A ClusterEnvironment is written, by a user or by its worker.            *)
LEMMA StoreClusterKeeps ==
  ASSUME CatInv, NEW k \in Clusters, NEW o \in ClusterState, StoreCluster(k, o),
         UNCHANGED <<svc, cat, cache, v, u, claims>>, queue' = queue,
         \/ x' = x
         \/ x' = Idle
         \/ x.pc = "finalizer" /\ x' = [x EXCEPT !.pc = "status"]
  PROVE  CatInv'
<1> USE DEF CatInv
<1>1. ce' \in [Clusters -> ClusterState] /\ stale' = stale \cup {k}
  BY DEF StoreCluster, TypeOK
<1>2. x'.pc \in {x.pc, "idle", "status"} /\ ClusterWorkerInv'
  BY DEF TypeOK, ClusterWorkerInv, Idle, Distinct
<1>3. TypeOK'
  BY <1>1, <1>2 DEF TypeOK, Names
<1>4. CacheInv'
  BY <1>1 DEF CacheInv
<1>5. ServiceWorkerInv' /\ CatalogWorkerInv' /\ NoDuplicates'
  BY DEF ServiceWorkerInv, CatalogWorkerInv, NoDuplicates, Lists
<1> QED BY <1>2, <1>3, <1>4, <1>5

LEMMA ClusterUsersKeep ==
  ASSUME CatInv, NEW k \in Clusters, CreateCluster(k) \/ DeleteCluster(k)
  PROVE  CatInv'
  BY StoreClusterKeeps DEF CreateCluster, DeleteCluster, ClusterState, Missing

(* The cache takes over the current version of an object.                  *)
LEMMA SyncKeeps ==
  ASSUME CatInv, NEW n \in Names, Sync(n) \/ Resync(n)
  PROVE  CatInv'
<1> USE DEF CatInv
<1>1. CASE Sync(n)
  <2>1. cache' = [svc |-> cache'.svc, cat |-> cache'.cat, ce |-> cache'.ce]
    BY <1>1 DEF Sync
  <2>2. /\ cache'.svc \in [Services -> Service]
        /\ cache'.ce \in [Clusters -> ClusterState]
        /\ cache'.cat \in [Environments -> ServiceCatalog]
    BY <1>1 DEF Sync, CacheInv, TypeOK
  <2>3. \A e \in Environments \ stale' : cache'.cat[e] = cat'[e]
    BY <1>1 DEF Sync, CacheInv
  <2>4. CacheInv'
    BY <2>1, <2>2, <2>3 DEF CacheInv
  <2>5. TypeOK'
    BY <1>1 DEF Sync, TypeOK
  <2>6. ServiceWorkerInv' /\ ClusterWorkerInv' /\ CatalogWorkerInv' /\ NoDuplicates'
    BY <1>1 DEF Sync, ServiceWorkerInv, ClusterWorkerInv, CatalogWorkerInv, NoDuplicates,
                Lists, Distinct
  <2> QED BY <2>4, <2>5, <2>6
<1>2. CASE Resync(n)
  <2>1. TypeOK'
    BY <1>2 DEF Resync, TypeOK
  <2>2. CacheInv'
    BY <1>2 DEF Resync, CacheInv
  <2>3. ServiceWorkerInv' /\ ClusterWorkerInv' /\ CatalogWorkerInv' /\ NoDuplicates'
    BY <1>2 DEF Resync, ServiceWorkerInv, ClusterWorkerInv, CatalogWorkerInv, NoDuplicates,
                Lists, Distinct
  <2> QED BY <2>1, <2>2, <2>3
<1> QED BY <1>1, <1>2
-----------------------------------------------------------------------------
(* The RegisteredService worker. *)

(* Steps of the worker leave the other workers and the cache alone.        *)
LEMMA ServiceWorkerFrame ==
  ASSUME CatInv, UNCHANGED <<ce, cache, x, u, claims>>,
         queue' \subseteq Names,
         stale' \subseteq Names, stale \subseteq stale',
         \A e \in Environments \ stale' : cat'[e] = cat[e],
         svc' \in [Services -> Service],
         cat' \in [Environments -> ServiceCatalog],
         \A e \in Environments : cat'[e].exists \/ cat'[e] = NoCatalog,
         v'.pc \in {"idle", "list", "catalogs"},
         ServiceWorkerInv', NoDuplicates'
  PROVE  CatInv'
<1>1. TypeOK'
  BY DEF CatInv, TypeOK
<1>2. CacheInv'
  BY DEF CatInv, CacheInv
<1>3. ClusterWorkerInv' /\ CatalogWorkerInv'
  BY DEF CatInv, ClusterWorkerInv, CatalogWorkerInv, Distinct
<1> QED BY <1>1, <1>2, <1>3 DEF CatInv

LEMMA ReconcileServiceKeeps ==
  ASSUME CatInv, NEW s \in Services, ReconcileService(s)
  PROVE  CatInv'
<1>1. cache.svc[s] \in Service
  BY DEF CatInv, CacheInv
<1>2. v'.pc = "list" /\ ServiceWorkerInv'
  BY <1>1 DEF ReconcileService, ServiceWorkerInv, Service
<1> QED BY <1>2, ServiceWorkerFrame DEF ReconcileService, CatInv, TypeOK, NoDuplicates

(* The worker lists the catalogs: of those that are current it sees what   *)
(* they list.                                                              *)
LEMMA ListKeeps ==
  ASSUME CatInv, getServiceCatalogs
  PROVE  CatInv'
<1> DEFINE listed == {e \in Environments : cache.cat[e].exists}
<1>1. v' = [pc |-> "catalogs", s |-> v.s, rev |-> v.rev, fresh |-> v.fresh,
            state |-> v.state, todo |-> listed, current |-> listed \ stale,
            has |-> {e \in listed : ServiceInCatalog(cache.cat[e], v.s) # 0},
            err |-> FALSE]
  BY DEF getServiceCatalogs
<1>2. ASSUME NEW e \in listed \ stale
      PROVE  /\ cat[e].exists
             /\ ServiceInCatalog(cache.cat[e], v.s) # 0 <=> Lists(cat[e], v.s)
  <2>1. cache.cat[e] = cat[e] /\ cat[e] \in ServiceCatalog /\ Distinct(cat[e].services)
    BY DEF CatInv, TypeOK, CacheInv, NoDuplicates, Distinct
  <2> QED BY <2>1, FoundIsListed
<1>3. v.s \in Services /\ v.rev \in {0, 1} /\ v.state \in {"gone", "Claimed", "Available"}
  BY DEF CatInv, getServiceCatalogs, ServiceWorkerInv
<1>4. cat' = cat
  BY DEF getServiceCatalogs
<1>5. \A e \in v'.todo \cap v'.current :
        cat'[e].exists /\ (e \in v'.has <=> Lists(cat'[e], v'.s))
  BY <1>1, <1>2, <1>4
<1>6. v'.pc = "catalogs" /\ ServiceWorkerInv'
  <2> HIDE DEF listed
  <2>1. v'.todo \subseteq Environments
    BY <1>1 DEF listed
  <2> QED BY <1>1, <1>3, <1>5, <2>1 DEF ServiceWorkerInv
<1> QED BY <1>6, ServiceWorkerFrame DEF getServiceCatalogs, CatInv, TypeOK, NoDuplicates

(* A round of the loop that writes what keeps the names different: the     *)
(* other catalogs are not touched, and the worker does not come back.      *)
LEMMA UpdateKeeps ==
  ASSUME CatInv, v.pc = "catalogs", NEW e \in v.todo, NEW sc \in ServiceCatalog,
         e \in v.current => sc.exists /\ Distinct(sc.services),
         UpdateCatalog(e, sc), UNCHANGED <<svc, ce, cache, queue, x, u, claims>>
  PROVE  CatInv'
<1>0. e \in Environments
  BY DEF CatInv, ServiceWorkerInv
<1>1. \/ v' = [v EXCEPT !.todo = @ \ {e}]
      \/ v' = [v EXCEPT !.todo = @ \ {e}, !.err = TRUE]
  BY DEF UpdateCatalog
<1>2. /\ v'.pc = "catalogs" /\ v'.s = v.s /\ v'.rev = v.rev /\ v'.state = v.state
      /\ v'.todo = v.todo \ {e} /\ v'.current = v.current /\ v'.has = v.has
      /\ v' = [pc |-> "catalogs", s |-> v'.s, rev |-> v'.rev, fresh |-> v'.fresh,
               state |-> v'.state, todo |-> v'.todo, current |-> v'.current,
               has |-> v'.has, err |-> v'.err]
  BY <1>1 DEF CatInv, ServiceWorkerInv
<1>3. \A d \in Environments \ {e} : cat'[d] = cat[d]
  BY DEF UpdateCatalog, CatInv, TypeOK
<1>4. ServiceWorkerInv'
  <2>1. \A d \in v'.todo \cap v'.current :
          cat'[d].exists /\ (d \in v'.has <=> Lists(cat'[d], v'.s))
    BY <1>2, <1>3 DEF CatInv, ServiceWorkerInv
  <2> QED BY <1>2, <2>1 DEF CatInv, ServiceWorkerInv
<1>5. CASE e \in v.current
  <2>1. cat' = [cat EXCEPT ![e] = sc] /\ stale' = stale \cup {e}
    BY <1>5 DEF UpdateCatalog
  <2>2. /\ cat' \in [Environments -> ServiceCatalog] /\ cat'[e] = sc
        /\ \A d \in Environments : cat'[d].exists \/ cat'[d] = NoCatalog
    BY <1>0, <1>3, <1>5, <2>1 DEF CatInv, TypeOK
  <2>3. NoDuplicates'
    BY <1>3, <1>5, <2>2 DEF CatInv, NoDuplicates, Distinct
  <2>4. stale' \subseteq Names
    BY <1>0, <2>1 DEF CatInv, TypeOK, Names
  <2> QED BY <1>2, <1>3, <1>4, <2>1, <2>2, <2>3, <2>4, ServiceWorkerFrame
             DEF CatInv, TypeOK
<1>6. CASE e \notin v.current
  <2>1. cat' = cat /\ stale' = stale
    BY <1>6 DEF UpdateCatalog
  <2> QED BY <1>2, <1>4, <2>1, ServiceWorkerFrame DEF CatInv, TypeOK, NoDuplicates
<1> QED BY <1>5, <1>6

LEMMA SkipKeeps ==
  ASSUME CatInv, v.pc = "catalogs", NEW e \in v.todo,
         SkipCatalog(e), UNCHANGED <<svc, ce, cache, queue, x, u, claims>>
  PROVE  CatInv'
<1>1. v'.pc = "catalogs" /\ ServiceWorkerInv'
  BY DEF SkipCatalog, CatInv, ServiceWorkerInv, Lists
<1> QED BY <1>1, ServiceWorkerFrame DEF SkipCatalog, CatInv, TypeOK, NoDuplicates

(* The service is added to a catalog that does not list it.                *)
LEMMA AddKeeps ==
  ASSUME CatInv, v.pc = "catalogs", NEW e \in v.todo,
         addServiceToCatalog(e), UNCHANGED <<svc, ce, cache, queue, x, u, claims>>
  PROVE  CatInv'
<1>1. CASE e \in v.has
  BY <1>1, SkipKeeps DEF addServiceToCatalog
<1>2. CASE e \notin v.has
  <2> DEFINE en == [name |-> v.s, rev |-> v.rev]
             sc == [cat[e] EXCEPT !.services = Append(@, en)]
  <2>1. UpdateCatalog(e, sc)
    BY <1>2 DEF addServiceToCatalog
  <2>2. /\ e \in Environments /\ cat[e] \in ServiceCatalog
        /\ cat[e].services \in Seq(Entry) /\ Distinct(cat[e].services)
        /\ en \in Entry
    BY DEF CatInv, TypeOK, ServiceWorkerInv, NoDuplicates, Distinct, ServiceCatalog, Entry
  <2>3. /\ sc \in ServiceCatalog /\ sc.exists = cat[e].exists
        /\ sc.services = Append(cat[e].services, en)
    BY <2>2, AppendProperties DEF ServiceCatalog
  <2>4. ASSUME e \in v.current PROVE sc.exists /\ Distinct(sc.services)
    <3>1. cat[e].exists /\ ~Lists(cat[e], v.s)
      BY <1>2, <2>4 DEF CatInv, ServiceWorkerInv
    <3>2. \A i \in DOMAIN cat[e].services : cat[e].services[i].name # en.name
      BY <3>1 DEF Lists
    <3> QED BY <2>2, <2>3, <3>1, <3>2, DistinctAppend
  <2> HIDE DEF sc
  <2> QED BY <2>1, <2>3, <2>4, UpdateKeeps
<1> QED BY <1>1, <1>2

(* The service is removed from a catalog that lists it.                    *)
LEMMA RemoveKeeps ==
  ASSUME CatInv, v.pc = "catalogs", NEW e \in v.todo,
         removeServiceFromCatalog(e), UNCHANGED <<svc, ce, cache, queue, x, u, claims>>
  PROVE  CatInv'
<1>1. CASE e \notin v.has
  BY <1>1, SkipKeeps DEF removeServiceFromCatalog
<1>2. CASE e \in v.has
  <2> DEFINE i == ServiceInCatalog(cat[e], v.s)
             q == RemoveAt(cat[e].services, i)
  <2>1. PICK labelled \in {v.s \in Labelled, FALSE} :
          UpdateCatalog(e, [cat[e] EXCEPT !.services = q,
                              !.claimedBy = IF labelled THEN @ \cup {v.s} ELSE @])
    BY <1>2 DEF removeServiceFromCatalog
  <2> DEFINE sc == [cat[e] EXCEPT !.services = q,
                      !.claimedBy = IF labelled THEN @ \cup {v.s} ELSE @]
  <2>2. /\ e \in Environments /\ cat[e] \in ServiceCatalog
        /\ cat[e].services \in Seq(Entry) /\ Distinct(cat[e].services)
        /\ v.s \in Services
    BY DEF CatInv, TypeOK, ServiceWorkerInv, NoDuplicates, Distinct, ServiceCatalog
  <2>3. CASE e \in v.current
    <3>1. cat[e].exists /\ Lists(cat[e], v.s)
      BY <1>2, <2>3 DEF CatInv, ServiceWorkerInv
    <3>2. q \in Seq(Entry) /\ Distinct(q)
      BY <2>2, <3>1, FoundIsListed, DistinctRemove
    <3> HIDE DEF q
    <3>3. sc \in ServiceCatalog /\ sc.exists /\ sc.services = q
      BY <2>2, <3>1, <3>2 DEF ServiceCatalog
    <3> HIDE DEF sc
    <3>4. UpdateCatalog(e, sc)
      BY <2>1 DEF sc, q
    <3> QED BY <3>2, <3>3, <3>4, UpdateKeeps
  <2>4. CASE e \notin v.current
    <3>1. UpdateCatalog(e, cat[e])
      BY <2>1, <2>4 DEF UpdateCatalog
    <3> QED BY <2>2, <2>4, <3>1, UpdateKeeps
  <2> QED BY <2>3, <2>4
<1> QED BY <1>1, <1>2

(* The loop, and the status at its end.                                    *)
LEMMA ServiceWorkerKeeps ==
  ASSUME CatInv, ServiceWorker
  PROVE  CatInv'
<1>1. CASE reconcileCatalogs
  <2>1. /\ v.pc = "catalogs"
        /\ \E e \in v.todo : addServiceToCatalog(e) \/ removeServiceFromCatalog(e)
        /\ UNCHANGED <<svc, ce, cache, queue, x, u, claims>>
    BY <1>1 DEF reconcileCatalogs
  <2> QED BY <2>1, AddKeeps, RemoveKeeps
<1>2. CASE UpdateServiceStatus
  <2>1. v'.pc = "idle" /\ ServiceWorkerInv'
    BY <1>2 DEF UpdateServiceStatus, Idle, ServiceWorkerInv
  <2>2. v.s \in Services /\ v.state \in {"gone", "Claimed", "Available"}
    BY <1>2 DEF UpdateServiceStatus, CatInv, ServiceWorkerInv
  <2>3. svc' \in [Services -> Service]
    BY <1>2, <2>2 DEF UpdateServiceStatus, CatInv, TypeOK, Service
  <2>4. /\ queue' \subseteq Names /\ stale' \subseteq Names /\ stale \subseteq stale'
        /\ UNCHANGED <<cat, ce, cache, x, u, claims>>
    BY <1>2, <2>2 DEF UpdateServiceStatus, CatInv, TypeOK, Names
  <2> QED BY <2>1, <2>3, <2>4, ServiceWorkerFrame DEF CatInv, TypeOK, NoDuplicates
<1> QED BY <1>1, <1>2, ListKeeps DEF ServiceWorker
-----------------------------------------------------------------------------
(* The ClusterEnvironment worker. *)

(* A step that writes no object but its own worker and the queues.         *)
LEMMA ClusterWorkerFrame ==
  ASSUME CatInv, UNCHANGED <<svc, cat, ce, cache, stale, v, u, claims>>,
         queue' \subseteq Names,
         x'.pc \in {"idle", "finalizer", "status", "get", "create", "getAgain", "push",
                    "related", "removeFinalizer"},
         ClusterWorkerInv'
  PROVE  CatInv'
<1>1. TypeOK'
  BY DEF CatInv, TypeOK
<1>2. CacheInv' /\ CatalogWorkerInv' /\ NoDuplicates'
  BY DEF CatInv, CacheInv, CatalogWorkerInv, NoDuplicates
<1>3. ServiceWorkerInv'
  BY DEF CatInv, ServiceWorkerInv, Lists
<1> QED BY <1>1, <1>2, <1>3 DEF CatInv

LEMMA ReconcileClusterKeeps ==
  ASSUME CatInv, NEW k \in Clusters, ReconcileCluster(k)
  PROVE  CatInv'
<1>1. cache.ce[k] \in ClusterState
  BY DEF CatInv, CacheInv
<1>2. \/ x' = x
      \/ \E pc \in {"related", "finalizer", "status"} : x' = [pc |-> pc, k |-> k]
  BY <1>1 DEF ReconcileCluster, ClusterState, Missing
<1>3. x'.pc \in {"idle", "related", "finalizer", "status"} /\ ClusterWorkerInv'
  <2>1. CASE x' = x
    BY <2>1 DEF ReconcileCluster, ClusterWorkerInv
  <2>2. ASSUME NEW pc \in {"related", "finalizer", "status"}, x' = [pc |-> pc, k |-> k]
        PROVE  x'.pc = pc /\ ClusterWorkerInv'
    BY <2>2 DEF ClusterWorkerInv
  <2> QED BY <1>2, <2>1, <2>2 DEF ReconcileCluster
<1> QED BY <1>3, ClusterWorkerFrame DEF ReconcileCluster, CatInv, TypeOK

(* The steps that read: a catalog to push, or the services to list.        *)
LEMMA ClusterReadsKeep ==
  ASSUME CatInv, UpdateClusterStatus \/ GetCatalog \/ GetCatalogAgain \/ PushFromCluster
  PROVE  CatInv'
<1>1. x.k \in Clusters /\ x.k \in Names
  BY DEF UpdateClusterStatus, GetCatalog, GetCatalogAgain, PushFromCluster, CatInv,
         ClusterWorkerInv, Names
<1>2. CASE UpdateClusterStatus
  <2>1. x'.pc \in {"idle", "get"} /\ ClusterWorkerInv' /\ queue' \subseteq Names
    BY <1>1, <1>2 DEF UpdateClusterStatus, Requeue, Idle, CatInv, TypeOK, ClusterWorkerInv
  <2> QED BY <1>2, <2>1, ClusterWorkerFrame DEF UpdateClusterStatus
<1>3. CASE GetCatalog
  <2> DEFINE found == Listing(EnvOf[x.k])
  <2>1. CASE x' = [pc |-> "push", k |-> x.k, copy |-> cache.cat[EnvOf[x.k]]]
    <3>1. x'.pc = "push" /\ ClusterWorkerInv'
      BY <1>1, <2>1 DEF ClusterWorkerInv
    <3> QED BY <1>3, <3>1, ClusterWorkerFrame DEF GetCatalog, CatInv, TypeOK
  <2>2. CASE \E q \in SetToSeqs(found) :
               x' = [pc |-> "create", k |-> x.k,
                     entries |-> [i \in DOMAIN q |->
                        [name |-> q[i], rev |-> cache.svc[q[i]].rev]]]
    <3>1. PICK q \in SetToSeqs(found) :
               x' = [pc |-> "create", k |-> x.k,
                     entries |-> [i \in DOMAIN q |->
                        [name |-> q[i], rev |-> cache.svc[q[i]].rev]]]
      BY <2>2
    <3> DEFINE entries == [i \in DOMAIN q |-> [name |-> q[i], rev |-> cache.svc[q[i]].rev]]
    <3>2. found \in SUBSET Services /\ cache.svc \in [Services -> Service]
      BY DEF Listing, CatInv, CacheInv
    <3> HIDE DEF found
    <3>3. entries \in Seq(Entry) /\ Distinct(entries)
      BY <3>2, ListingEntries
    <3>4. x' = [pc |-> "create", k |-> x.k, entries |-> entries]
      BY <3>1
    <3> HIDE DEF entries
    <3>5. x'.pc = "create" /\ ClusterWorkerInv'
      BY <1>1, <3>3, <3>4 DEF ClusterWorkerInv
    <3> QED BY <1>3, <3>5, ClusterWorkerFrame DEF GetCatalog, CatInv, TypeOK
  <2> QED BY <1>3, <2>1, <2>2 DEF GetCatalog
<1>4. CASE GetCatalogAgain
  <2>1. x'.pc \in {"idle", "push"} /\ ClusterWorkerInv' /\ queue' \subseteq Names
    BY <1>1, <1>4 DEF GetCatalogAgain, Requeue, Idle, CatInv, TypeOK, ClusterWorkerInv
  <2> QED BY <1>4, <2>1, ClusterWorkerFrame DEF GetCatalogAgain
<1>5. CASE PushFromCluster
  <2>1. x' = Idle /\ queue' \subseteq Names
    BY <1>1, <1>5 DEF PushFromCluster, Requeue, CatInv, TypeOK
  <2>2. x'.pc = "idle" /\ ClusterWorkerInv'
    BY <2>1 DEF Idle, ClusterWorkerInv
  <2> QED BY <1>5, <2>1, <2>2, ClusterWorkerFrame DEF PushFromCluster
<1> QED BY <1>2, <1>3, <1>4, <1>5

(* A catalog is created or deleted: the copy the RegisteredService worker  *)
(* has of it is no longer current.                                         *)
LEMMA StoreCatalogKeeps ==
  ASSUME CatInv, NEW e \in Environments, NEW sc \in ServiceCatalog,
         StoreCatalog(e, sc) \/ UNCHANGED <<cat, stale, v>>,
         sc.exists \/ sc = NoCatalog, Distinct(sc.services),
         UNCHANGED <<svc, ce, cache, u, claims>>, queue' \subseteq Names,
         x'.pc \in {"idle", "getAgain", "removeFinalizer"}, ClusterWorkerInv'
  PROVE  CatInv'
<1>1. CASE UNCHANGED <<cat, stale, v>>
  BY <1>1, ClusterWorkerFrame
<1>2. CASE StoreCatalog(e, sc)
  <2>1. cat' = [cat EXCEPT ![e] = sc] /\ stale' = stale \cup {e}
    BY <1>2 DEF StoreCatalog
  <2>2. /\ cat' \in [Environments -> ServiceCatalog] /\ cat'[e] = sc
        /\ \A d \in Environments \ {e} : cat'[d] = cat[d]
    BY <2>1 DEF CatInv, TypeOK
  <2>3. v' = IF v.pc = "catalogs" THEN [v EXCEPT !.current = @ \ {e}] ELSE v
    BY <1>2 DEF StoreCatalog
  <2>4. v'.pc = v.pc /\ ServiceWorkerInv'
    <3>1. CASE v.pc = "catalogs"
      <4>1. /\ v'.pc = "catalogs" /\ v'.s = v.s /\ v'.rev = v.rev /\ v'.state = v.state
            /\ v'.todo = v.todo /\ v'.current = v.current \ {e} /\ v'.has = v.has
            /\ v' = [pc |-> "catalogs", s |-> v'.s, rev |-> v'.rev, fresh |-> v'.fresh,
                     state |-> v'.state, todo |-> v'.todo, current |-> v'.current,
                     has |-> v'.has, err |-> v'.err]
        BY <2>3, <3>1 DEF CatInv, ServiceWorkerInv
      <4>2. \A d \in v'.todo \cap v'.current :
              cat'[d].exists /\ (d \in v'.has <=> Lists(cat'[d], v'.s))
        BY <2>2, <3>1, <4>1 DEF CatInv, ServiceWorkerInv
      <4> QED BY <3>1, <4>1, <4>2 DEF CatInv, ServiceWorkerInv
    <3>2. CASE v.pc # "catalogs"
      BY <2>3, <3>2 DEF CatInv, ServiceWorkerInv
    <3> QED BY <3>1, <3>2
  <2>5. TypeOK'
    BY <2>1, <2>2, <2>4 DEF CatInv, TypeOK, Names
  <2>6. CacheInv'
    BY <2>1, <2>2 DEF CatInv, CacheInv
  <2>7. NoDuplicates'
    BY <2>2 DEF CatInv, NoDuplicates, Distinct
  <2>8. CatalogWorkerInv'
    BY DEF CatInv, CatalogWorkerInv
  <2> QED BY <2>4, <2>5, <2>6, <2>7, <2>8 DEF CatInv
<1> QED BY <1>1, <1>2

LEMMA CreateCatalogKeeps ==
  ASSUME CatInv, CreateServiceCatalog
  PROVE  CatInv'
<1> DEFINE e == EnvOf[x.k]
           sc == [exists |-> TRUE, services |-> x.entries, claimedBy |-> {}]
<1>1. /\ x.k \in Clusters /\ e \in Environments
      /\ x.entries \in Seq(Entry) /\ Distinct(x.entries)
  BY CatalogAssumption DEF CreateServiceCatalog, CatInv, ClusterWorkerInv
<1>2. sc \in ServiceCatalog /\ sc.exists /\ sc.services = x.entries
  BY <1>1 DEF ServiceCatalog
<1>3. x'.pc = "getAgain" /\ ClusterWorkerInv'
  BY <1>1 DEF CreateServiceCatalog, ClusterWorkerInv
<1>4. StoreCatalog(e, sc) \/ UNCHANGED <<cat, stale, v>>
  BY DEF CreateServiceCatalog
<1>5. UNCHANGED <<svc, ce, cache, u, claims>> /\ queue' \subseteq Names
  BY DEF CreateServiceCatalog, CatInv, TypeOK
<1> HIDE DEF e, sc
<1> QED BY <1>1, <1>2, <1>3, <1>4, <1>5, StoreCatalogKeeps

LEMMA FinalizeKeeps ==
  ASSUME CatInv, finalizeClusterEnvironment
  PROVE  CatInv'
<1> DEFINE e == EnvOf[x.k]
<1>1. x.k \in Clusters /\ x.k \in Names /\ e \in Environments
  BY CatalogAssumption DEF finalizeClusterEnvironment, CatInv, ClusterWorkerInv, Names
<1>2. NoCatalog \in ServiceCatalog /\ Distinct(NoCatalog.services)
  BY EmptySeq DEF NoCatalog, ServiceCatalog, Distinct
<1>3. x' = Idle \/ x' = [pc |-> "removeFinalizer", k |-> x.k]
  BY DEF finalizeClusterEnvironment, Requeue
<1>4. x'.pc \in {"idle", "removeFinalizer"} /\ ClusterWorkerInv'
  BY <1>1, <1>3 DEF Idle, ClusterWorkerInv
<1>5. queue' \subseteq Names /\ UNCHANGED <<svc, ce, cache, u, claims>>
  BY <1>1 DEF finalizeClusterEnvironment, Requeue, CatInv, TypeOK
<1>6. StoreCatalog(e, NoCatalog) \/ UNCHANGED <<cat, stale, v>>
  BY DEF finalizeClusterEnvironment
<1> HIDE DEF e
<1> QED BY <1>1, <1>2, <1>4, <1>5, <1>6, StoreCatalogKeeps

LEMMA FinalizersKeep ==
  ASSUME CatInv, AddFinalizer \/ RemoveFinalizer
  PROVE  CatInv'
<1>1. x.k \in Clusters /\ x.k \in Names
  BY DEF AddFinalizer, RemoveFinalizer, CatInv, ClusterWorkerInv, Names
<1>2. ASSUME Requeue(x.k), UNCHANGED <<svc, cat, ce, cache, stale, v, u, claims>>
      PROVE  CatInv'
  <2>1. x'.pc = "idle" /\ ClusterWorkerInv' /\ queue' \subseteq Names
    BY <1>1, <1>2 DEF Requeue, Idle, ClusterWorkerInv, CatInv, TypeOK
  <2> QED BY <1>2, <2>1, ClusterWorkerFrame
<1>3. "live" \in ClusterState /\ "gone" \in ClusterState
  BY DEF ClusterState, Missing
<1>4. CASE AddFinalizer
  BY <1>1, <1>2, <1>3, <1>4, StoreClusterKeeps DEF AddFinalizer
<1>5. CASE RemoveFinalizer
  BY <1>1, <1>2, <1>3, <1>5, StoreClusterKeeps DEF RemoveFinalizer
<1> QED BY <1>4, <1>5
-----------------------------------------------------------------------------
(* The ServiceCatalog worker writes nothing but copies. *)
LEMMA CatalogWorkerKeeps ==
  ASSUME CatInv, (\E e \in Environments : ReconcileCatalog(e)) \/ PushServiceCatalog
  PROVE  CatInv'
<1>1. /\ UNCHANGED <<svc, cat, ce, cache, stale, v, x, claims>>
  BY DEF ReconcileCatalog, PushServiceCatalog
<1>2. ASSUME NEW e \in Environments, ReconcileCatalog(e)
      PROVE  /\ u'.pc \in {"idle", "push"} /\ CatalogWorkerInv'
             /\ queue' \subseteq Names
  BY <1>2 DEF ReconcileCatalog, CatInv, TypeOK, CatalogWorkerInv
<1>3. ASSUME PushServiceCatalog
      PROVE  /\ u'.pc \in {"idle", "push"} /\ CatalogWorkerInv'
             /\ queue' \subseteq Names
  <2>1. {"pc", "e"} \subseteq DOMAIN u /\ u.e \in Environments
    BY <1>3 DEF PushServiceCatalog, CatInv, CatalogWorkerInv
  <2>2. u'.pc \in {"idle", "push"} /\ CatalogWorkerInv'
    <3>1. CASE u' = Idle
      BY <3>1 DEF Idle, CatalogWorkerInv
    <3>2. ASSUME NEW k, u' = [u EXCEPT !.todo = @ \ {k}]
          PROVE  u'.pc \in {"idle", "push"} /\ CatalogWorkerInv'
      BY <1>3, <2>1, <3>2 DEF PushServiceCatalog, CatalogWorkerInv
    <3>3. ASSUME NEW k, u' = [u EXCEPT !.todo = @ \ {k}, !.err = TRUE]
          PROVE  u'.pc \in {"idle", "push"} /\ CatalogWorkerInv'
      <4>1. DOMAIN u' = DOMAIN u /\ u'.pc = u.pc /\ u'.e = u.e
        BY <2>1, <3>3
      <4> QED BY <1>3, <2>1, <4>1 DEF PushServiceCatalog, CatalogWorkerInv
    <3> QED BY <1>3, <3>1, <3>2, <3>3 DEF PushServiceCatalog
  <2>3. queue' \subseteq Names
    BY <1>3, <2>1 DEF PushServiceCatalog, CatInv, TypeOK, Names
  <2> QED BY <2>2, <2>3
<1>4. TypeOK'
  BY <1>1, <1>2, <1>3 DEF CatInv, TypeOK
<1>5. CacheInv' /\ ServiceWorkerInv' /\ ClusterWorkerInv' /\ NoDuplicates'
  BY <1>1 DEF CatInv, CacheInv, ServiceWorkerInv, ClusterWorkerInv, NoDuplicates, Lists,
              Distinct
<1> QED BY <1>2, <1>3, <1>4, <1>5 DEF CatInv

LEMMA CatStep == CatInv /\ [Next]_vars => CatInv'
<1> SUFFICES ASSUME CatInv, [Next]_vars PROVE CatInv'
  OBVIOUS
<1>1. CASE UNCHANGED vars
  <2>1. TypeOK' /\ CacheInv'
    BY <1>1 DEF vars, CatInv, TypeOK, CacheInv
  <2> QED BY <1>1, <2>1 DEF vars, CatInv, ServiceWorkerInv, ClusterWorkerInv,
                            CatalogWorkerInv, NoDuplicates, Lists, Distinct
<1>2. CASE \E s \in Services : \/ CreateService(s) \/ EditService(s) \/ DeleteService(s)
                               \/ changeServiceState(s) \/ ReconcileService(s)
  BY <1>2, ServiceUsersKeep, ReconcileServiceKeeps
<1>3. CASE \E k \in Clusters : CreateCluster(k) \/ DeleteCluster(k) \/ ReconcileCluster(k)
  BY <1>3, ClusterUsersKeep, ReconcileClusterKeeps
<1>4. CASE \E n \in Names : Sync(n) \/ Resync(n)
  BY <1>4, SyncKeeps
<1>5. CASE ClusterWorker
  BY <1>5, FinalizersKeep, ClusterReadsKeep, CreateCatalogKeeps, FinalizeKeeps
     DEF ClusterWorker
<1> QED BY <1>1, <1>2, <1>3, <1>4, <1>5, ServiceWorkerKeeps, CatalogWorkerKeeps DEF Next
-----------------------------------------------------------------------------
(* The inductive invariant: the copy the RegisteredService worker goes by  *)
(* and the catalog agree whenever the API server would take its update.    *)
THEOREM CatInvHolds == Spec => []CatInv
  BY CatInit, CatStep, PTL DEF Spec

(* Type correctness: catalogs are lists of entries, and one that does not  *)
(* exist is never written to.                                              *)
THEOREM CatalogType == Spec => []TypeOK
<1>1. CatInv => TypeOK
  BY DEF CatInv
<1> QED BY <1>1, CatInvHolds, PTL

(* No catalog ever lists a service twice, although it is looked up in a    *)
(* copy of any age and the catalog is created, deleted and created again   *)
(* meanwhile.                                                              *)
THEOREM ListedOnce == Spec => []NoDuplicates
<1>1. CatInv => NoDuplicates
  BY DEF CatInv
<1> QED BY <1>1, CatInvHolds, PTL
=============================================================================
