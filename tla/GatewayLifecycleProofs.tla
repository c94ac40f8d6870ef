----------------------- MODULE GatewayLifecycleProofs -----------------------
(***************************************************************************)
(* Safety of GatewayLifecycle for any set of instances, any capacity and   *)
(* any sets of requests.                                                   *)
(***************************************************************************)
EXTENDS GatewayLifecycle, TLAPS

-----------------------------------------------------------------------------
(* One connection for each worker                                           *)

\* A connection is opened exactly when the scheduler enters the cache.
ConnectionsCached ==
  \A i \in Ids : connections[i] = IF i \in schedulers THEN 1 ELSE 0

\* Who holds the write guard is alone, and what it looked up is still missing.
OneLocked ==
  \A u \in Commands : upc[u] = "locked" =>
    /\ target[u] \in Ids \ schedulers
    /\ \A w \in Commands : upc[w] = "locked" => u = w

\* A request past its authorisation has named an instance.
ClientTargets ==
  \A u \in Clients : upc[u] # "idle" => target[u] \in Ids

CacheInv ==
  /\ upc \in [Clients -> ClientPcs]
  /\ target \in [Destroys \cup Clients -> Ids \cup {NoId}]
  /\ schedulers \subseteq Ids
  /\ connections \in [Ids -> Nat]
  /\ ClientTargets
  /\ OneLocked
  /\ ConnectionsCached

LEMMA CacheInit == Init => CacheInv
BY DEF Init, CacheInv, ClientPcs, ClientTargets, OneLocked, ConnectionsCached, Clients

LEMMA CacheStep ==
  ASSUME CacheInv, [Next]_vars
  PROVE  CacheInv'
<1> USE DEF CacheInv, ClientTargets, OneLocked, ConnectionsCached, Clients, ClientPcs, cacheVars
<1>1. ASSUME NEW i \in Ids, BeginCreate(i) \/ CreateStep(i) \/ DropCreate(i) \/ IngestEnds(i)
      PROVE  CacheInv'
  BY <1>1 DEF BeginCreate, CreateStep, EndCreate, Grant, RegisterHub, SpawnIngest, StoreTask,
              DropCreate, IngestEnds
<1>2. ASSUME NEW d \in Destroys, DestroyStep(d) \/ DropDestroy(d)
      PROVE  CacheInv'
  BY <1>2 DEF DestroyStep, BeginDestroy, EndDestroy, AbortTask, UnregisterHub, DropDestroy
<1>3. ASSUME NEW d \in Destroys, NEW i \in Ids, Lookup(d, i)
      PROVE  CacheInv'
  BY <1>3, RequestsDisjoint DEF Lookup
<1>4. ASSUME NEW u \in Clients, GiveUp(u)
      PROVE  CacheInv'
  BY <1>4 DEF GiveUp, Client
<1>5. ASSUME NEW u \in Clients, NEW i \in Ids, Authorise(u, i)
      PROVE  CacheInv'
  BY <1>5 DEF Authorise, Client
<1>6. ASSUME NEW u \in Streams, OpenStream(u)
      PROVE  CacheInv'
  BY <1>6 DEF OpenStream, Client
<1>7. ASSUME NEW u \in Commands, FindInstance(u) \/ ReadCached(u)
      PROVE  CacheInv'
  BY <1>7 DEF FindInstance, ReadCached, Client
<1>8. ASSUME NEW u \in Commands, LockSchedulers(u)
      PROVE  CacheInv'
  BY <1>8 DEF LockSchedulers, SchedulersFree, Client
<1>9. ASSUME NEW u \in Commands, Connect(u)
      PROVE  CacheInv'
  <2>1. CASE upc'[u] = "submitted"
    BY <1>9, <2>1 DEF Connect, Client
  <2>2. CASE upc'[u] = "failed"
    BY <1>9, <2>2 DEF Connect, Client
  <2> QED
    BY <1>9, <2>1, <2>2 DEF Connect, Client
<1>10. CASE UNCHANGED vars
  BY <1>10 DEF vars
<1> QED
  BY <1>1, <1>2, <1>3, <1>4, <1>5, <1>6, <1>7, <1>8, <1>9, <1>10 DEF Next, CommandStep

\* However many requests miss the scheduler cache together, one of them opens
\* the connection and the others find it (command_service.rs:60-77).
THEOREM OneConnectionEach == Spec => []OneConnection
<1>1. CacheInv => OneConnection
  BY DEF CacheInv, ConnectionsCached, OneConnection
<1> QED
  BY <1>1, CacheInit, CacheStep, PTL DEF Spec

-----------------------------------------------------------------------------
(* Type correctness, refused viewers and leaks                              *)

\* A destroy past its lookup names an instance that was listed.
Listed(i) == Registering(i) \/ cpc[i] \in {"answered", "gone"}

DestroyTargets ==
  \A d \in Destroys : dpc[d] # "idle" => target[d] \in Ids /\ Listed(target[d])

\* A listed instance leaves the registry only by a destroy.
Gone(i) == \E d \in Destroys :
             target[d] = i /\ dpc[d] \in {"stopped", "untasked", "answered", "gone"}

ListingExplained ==
  \A i \in Ids : /\ i \in live => Listed(i)
                 /\ Registering(i) \/ cpc[i] = "answered" => i \in live \/ Gone(i)

\* A destroy that did not overtake the create handler found it ended, and what
\* it has taken down stays down.
TakenDown ==
  \A d \in Destroys :
    target[d] \notin overtaken =>
      /\ dpc[d] \in {"stopped", "untasked", "answered"}
           => cpc[target[d]] \in {"answered", "gone"}
      /\ dpc[d] \in {"untasked", "answered"} => target[d] \notin tasks
      /\ dpc[d] = "answered" => target[d] \notin channels

\* A running ingest task of an ended create handler can be aborted.
TasksStored ==
  \A i \in Ids : cpc[i] = "answered" /\ ingest[i] = "running" => i \in tasks

\* A grant is visible once the channel is open, until a destroy closes it.
Closed(i) == \E d \in Destroys : target[d] = i /\ dpc[d] = "answered"

GrantsServed ==
  /\ \A i \in granted : cpc[i] \in {"granted", "registered", "spawned", "answered", "gone"}
  /\ \A i \in granted : cpc[i] \in {"registered", "spawned", "answered"}
                        => i \in channels \/ Closed(i)
  /\ \A u \in Streams : upc[u] = "authorised" =>
       target[u] \in granted /\ cpc[target[u]] \in {"answered", "gone"}

HandlersInv ==
  /\ TypeOK
  /\ ClientTargets
  /\ DestroyTargets
  /\ ListingExplained
  /\ TakenDown
  /\ TasksStored
  /\ GrantsServed
  /\ RefusalExplained

LEMMA HandlersInit == Init => HandlersInv
BY DEF Init, Manager!Init, HandlersInv, TypeOK, CreatePcs, DestroyPcs, ClientPcs, Clients,
       ClientTargets, DestroyTargets, ListingExplained, Registering, TakenDown, TasksStored,
       GrantsServed, RefusalExplained

LEMMA HandlersCreate ==
  ASSUME HandlersInv, NEW i \in Ids,
         BeginCreate(i) \/ CreateStep(i) \/ DropCreate(i) \/ IngestEnds(i)
  PROVE  HandlersInv'
<1> USE DEF HandlersInv, TypeOK, CreatePcs, Clients, Create, Listed, Registering,
            ClientTargets, DestroyTargets, ListingExplained, Gone, TakenDown, TasksStored,
            GrantsServed, Closed, RefusalExplained,
            poolVars, streamVars, cacheVars, history
<1>1. CASE BeginCreate(i)
  BY <1>1 DEF BeginCreate, Manager!Reserve
<1>2. CASE EndCreate(i)
  BY <1>2 DEF EndCreate, Manager!Commit, Manager!Cancel
<1>3. CASE Grant(i)
  BY <1>3 DEF Grant
<1>4. CASE RegisterHub(i)
  BY <1>4 DEF RegisterHub
<1>5. CASE SpawnIngest(i)
  BY <1>5 DEF SpawnIngest
<1>6. CASE StoreTask(i)
  BY <1>6 DEF StoreTask
<1>7. CASE DropCreate(i)
  BY <1>7 DEF DropCreate, Manager!Cancel
<1>8. CASE IngestEnds(i)
  BY <1>8 DEF IngestEnds
<1> QED
  BY <1>1, <1>2, <1>3, <1>4, <1>5, <1>6, <1>7, <1>8 DEF CreateStep

LEMMA HandlersDestroy ==
  ASSUME HandlersInv, NEW d \in Destroys,
         DestroyStep(d) \/ DropDestroy(d) \/ \E i \in Ids : Lookup(d, i)
  PROVE  HandlersInv'
<1> USE RequestsDisjoint
    DEF HandlersInv, TypeOK, DestroyPcs, Clients, Destroy, Listed, Registering,
        ClientTargets, DestroyTargets, ListingExplained, Gone, TakenDown, TasksStored,
        GrantsServed, Closed, RefusalExplained,
        poolVars, streamVars, cacheVars, history
<1>1. ASSUME NEW i \in Ids, Lookup(d, i) PROVE HandlersInv'
  BY <1>1 DEF Lookup
<1>2. CASE BeginDestroy(d)
  BY <1>2 DEF BeginDestroy
<1>3. CASE EndDestroy(d)
  BY <1>3 DEF EndDestroy, Manager!Free
<1>4. CASE AbortTask(d)
  BY <1>4 DEF AbortTask
<1>5. CASE UnregisterHub(d)
  BY <1>5 DEF UnregisterHub
<1>6. CASE DropDestroy(d)
  BY <1>6 DEF DropDestroy
<1> QED
  BY <1>1, <1>2, <1>3, <1>4, <1>5, <1>6 DEF DestroyStep

LEMMA HandlersClient ==
  ASSUME HandlersInv, NEW u \in Clients,
         \/ GiveUp(u) \/ \E i \in Ids : Authorise(u, i)
         \/ u \in Streams /\ OpenStream(u)
         \/ u \in Commands /\ CommandStep(u)
  PROVE  HandlersInv'
<1> USE RequestsDisjoint
    DEF HandlersInv, TypeOK, ClientPcs, Clients, Client, Listed, Registering,
        ClientTargets, DestroyTargets, ListingExplained, Gone, TakenDown, TasksStored,
        GrantsServed, Closed, RefusalExplained,
        poolVars, streamVars, cacheVars, history
<1>1. CASE GiveUp(u)
  BY <1>1 DEF GiveUp
<1>2. ASSUME NEW i \in Ids, Authorise(u, i) PROVE HandlersInv'
  BY <1>2 DEF Authorise, AclFree, HoldsAcl
<1>3. CASE u \in Streams /\ OpenStream(u)
  BY <1>3 DEF OpenStream
<1>4. CASE u \in Commands /\ (FindInstance(u) \/ ReadCached(u) \/ LockSchedulers(u))
  BY <1>4 DEF FindInstance, ReadCached, LockSchedulers
<1>5. CASE u \in Commands /\ Connect(u)
  BY <1>5 DEF Connect
<1> QED
  BY <1>1, <1>2, <1>3, <1>4, <1>5 DEF CommandStep

LEMMA HandlersInvariant == Spec => []HandlersInv
<1>1. ASSUME HandlersInv, [Next]_vars PROVE HandlersInv'
  <2>1. CASE UNCHANGED vars
    BY <1>1, <2>1
    DEF vars, HandlersInv, TypeOK, Listed, Registering, ClientTargets, DestroyTargets,
        ListingExplained, Gone, TakenDown, TasksStored, GrantsServed, Closed,
        RefusalExplained, poolVars, streamVars, cacheVars, history
  <2>2. CASE Next
    BY <1>1, <2>2, HandlersCreate, HandlersDestroy, HandlersClient DEF Next, Clients
  <2> QED
    BY <1>1, <2>1, <2>2
<1> QED
  BY <1>1, HandlersInit, PTL DEF Spec

\* The gateway's shared state keeps its shape.
THEOREM GatewayTypes == Spec => []TypeOK
BY HandlersInvariant, PTL DEF HandlersInv

\* A viewer with an accepted token is turned away only after a destroy or a
\* create handler that was cut short (admin.rs:92-113, broadcast.rs:83).
THEOREM RefusalsExplained == Spec => []RefusalExplained
BY HandlersInvariant, PTL DEF HandlersInv

\* What a destroyed instance leaves behind is due to a destroy that overtook
\* its create handler, or to a client that disconnected (admin.rs:165-178).
THEOREM LeaksAreExplained == Spec => []LeaksExplained
<1>1. HandlersInv => LeaksExplained
  BY DEF HandlersInv, TypeOK, ListingExplained, Gone, TakenDown, TasksStored, LeaksExplained
<1> QED
  BY <1>1, HandlersInvariant, PTL
=============================================================================
