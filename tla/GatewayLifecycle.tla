-------------------------- MODULE GatewayLifecycle --------------------------
(***************************************************************************)
(* The gateway around the instance manager: the admin handlers that create *)
(* and destroy an instance (crates/gateway/src/admin.rs) and the session   *)
(* handlers that use one (lib.rs, command_service.rs), over the state they *)
(* share: grants, hub channels, ingest tasks, cached schedulers.  The      *)
(* manager itself is InstancePool, which InstanceManager implements.       *)
(* Instance, session and principal are created together and are one id.    *)
(***************************************************************************)
EXTENDS Naturals, FiniteSets

CONSTANTS Ids,         \* create requests, and the instances they create
          Capacity,    \* max_instances
          Destroys,    \* DELETE requests
          Streams,     \* requests for a session's frame stream
          Commands,    \* requests that send a session's worker a command
          NoId         \* of a request that has not named an instance yet

Clients == Streams \cup Commands

ASSUME IdsFinite == IsFiniteSet(Ids)
ASSUME CapacityPositive == Capacity \in Nat \ {0}
ASSUME RequestsDisjoint ==
  Streams \cap Commands = {} /\ Destroys \cap Clients = {}

VARIABLES
  reserved, live,  \* the manager, as InstancePool sees it
  cpc,        \* where each create handler is
  dpc,        \* where each destroy handler is
  upc,        \* where each session request is
  target,     \* the instance a destroy or a session request names
  granted,    \* sessions whose token and Owner grant are in the ACL
  channels,   \* sessions with a channel in the FrameHub
  ingest,     \* state of each spawn_frame_ingest task
  tasks,      \* frame_ingest_tasks: ids whose handle is stored
  schedulers, \* sessions with a cached scheduler
  connections,\* history: connections opened to each worker
  dropped,    \* history: instances one of whose handlers was dropped midway
  overtaken   \* history: instances destroyed before their create handler ended

poolVars    == <<reserved, live>>
streamVars  == <<channels, ingest, tasks>>
cacheVars   == <<schedulers, connections>>
history     == <<dropped, overtaken>>
vars == <<poolVars, cpc, dpc, upc, target, granted, streamVars, cacheVars, history>>

Manager == INSTANCE InstancePool

CreatePcs  == {"idle", "creating", "listed", "granted", "registered", "spawned",
               "answered", "refused", "gone"}
DestroyPcs == {"idle", "looked", "stopping", "stopped", "untasked", "answered",
               "notfound", "gone"}
ClientPcs  == {"idle", "authorised", "denied", "streaming", "refused", "found",
               "missed", "locked", "submitted", "failed", "gone"}

Create(i, from, to) ==
  /\ cpc[i] = from
  /\ cpc' = [cpc EXCEPT ![i] = to]

Destroy(d, from, to) ==
  /\ dpc[d] = from
  /\ dpc' = [dpc EXCEPT ![d] = to]

Client(u, from, to) ==
  /\ upc[u] = from
  /\ upc' = [upc EXCEPT ![u] = to]

-----------------------------------------------------------------------------
(* admin create_instance                                                    *)

\* The instance is listed and its create handler has not ended.
Registering(i) == cpc[i] \in {"listed", "granted", "registered", "spawned"}

\* The guard of state.acl.write() lives to the end of the handler.
\* Mutation: the guard is a temporary that ends with the grant.
AclReleased(i) == FALSE
HoldsAcl(i) == cpc[i] \in {"granted", "registered", "spawned"}

AclFree == \A i \in Ids : ~HoldsAcl(i)

\* manager.create, as the pool sees it: a slot, and then an instance or not.
BeginCreate(i) ==
  /\ \/ Manager!Reserve(i) /\ Create(i, "idle", "creating")
     \/ Create(i, "idle", "refused") /\ UNCHANGED poolVars
  /\ UNCHANGED <<dpc, upc, target, granted, streamVars, cacheVars, history>>

EndCreate(i) ==
  /\ \/ Manager!Commit(i) /\ Create(i, "creating", "listed")
     \/ Manager!Cancel(i) /\ Create(i, "creating", "refused")
  /\ UNCHANGED <<dpc, upc, target, granted, streamVars, cacheVars, history>>

\* acl.write().await, register_principal_token, grant.
Grant(i) ==
  /\ AclFree
  /\ Create(i, "listed", "granted")
  /\ granted' = granted \cup {i}
  /\ UNCHANGED <<poolVars, dpc, upc, target, streamVars, cacheVars, history>>

RegisterHub(i) ==
  /\ Create(i, "granted", "registered")
  /\ channels' = channels \cup {i}
  /\ UNCHANGED <<poolVars, dpc, upc, target, granted, ingest, tasks, cacheVars, history>>

SpawnIngest(i) ==
  /\ Create(i, "registered", "spawned")
  /\ ingest' = [ingest EXCEPT ![i] = "running"]
  /\ UNCHANGED <<poolVars, dpc, upc, target, granted, channels, tasks, cacheVars, history>>

\* frame_ingest_tasks.write().await.insert, and the answer.
StoreTask(i) ==
  /\ Create(i, "spawned", "answered")
  /\ tasks' = tasks \cup {i}
  /\ UNCHANGED <<poolVars, dpc, upc, target, granted, channels, ingest, cacheVars, history>>

\* The client of the POST goes away.
DropCreate(i) ==
  /\ \/ Create(i, "creating", "gone") /\ Manager!Cancel(i)
     \/ /\ Registering(i)
        /\ Create(i, cpc[i], "gone")
        /\ UNCHANGED poolVars
  /\ dropped' = dropped \cup {i}
  /\ UNCHANGED overtaken
  /\ UNCHANGED <<dpc, upc, target, granted, streamVars, cacheVars>>

-----------------------------------------------------------------------------
(* admin destroy_instance.  An id is known only once it is listed.          *)

Lookup(d, i) ==
  /\ i \in live
  /\ Destroy(d, "idle", "looked")
  /\ target' = [target EXCEPT ![d] = i]
  /\ UNCHANGED <<poolVars, cpc, upc, granted, streamVars, cacheVars, history>>

\* manager.destroy looks the id up again.
BeginDestroy(d) ==
  /\ Destroy(d, "looked", IF target[d] \in live THEN "stopping" ELSE "notfound")
  /\ UNCHANGED <<poolVars, cpc, upc, target, granted, streamVars, cacheVars, history>>

EndDestroy(d) ==
  /\ Destroy(d, "stopping", "stopped")
  /\ Manager!Free({target[d]})
  /\ overtaken' = overtaken \cup {i \in {target[d]} : Registering(i)}
  /\ UNCHANGED <<cpc, upc, target, granted, streamVars, cacheVars, dropped>>

\* Mutation: the handle is taken out of the map and not aborted.
TakeTaskOnly(d) ==
  /\ Destroy(d, "stopped", "untasked")
  /\ tasks' = tasks \ {target[d]}
  /\ UNCHANGED <<poolVars, cpc, upc, target, granted, channels, ingest, cacheVars, history>>

\* frame_ingest_tasks.write().await.remove(&id), handle.abort()
AbortTask(d) ==
  LET i == target[d] IN
  /\ Destroy(d, "stopped", "untasked")
  /\ tasks' = tasks \ {i}
  /\ ingest' = IF i \in tasks THEN [ingest EXCEPT ![i] = "ended"] ELSE ingest
  /\ UNCHANGED <<poolVars, cpc, upc, target, granted, channels, cacheVars, history>>

UnregisterHub(d) ==
  /\ Destroy(d, "untasked", "answered")
  /\ channels' = channels \ {target[d]}
  /\ UNCHANGED <<poolVars, cpc, upc, target, granted, ingest, tasks, cacheVars, history>>

\* The client of the DELETE goes away.
DropDestroy(d) ==
  /\ \E p \in {"looked", "stopping", "stopped", "untasked"} : Destroy(d, p, "gone")
  /\ dropped' = dropped \cup {target[d]}
  /\ UNCHANGED overtaken
  /\ UNCHANGED <<poolVars, cpc, upc, target, granted, streamVars, cacheVars>>

\* The ingest task gives up connecting, or the worker closes the frame socket:
\* the task returns and never reconnects.  Its handle stays in the map.
IngestEnds(i) ==
  /\ ingest[i] = "running"
  /\ ingest' = [ingest EXCEPT ![i] = "ended"]
  /\ UNCHANGED <<poolVars, cpc, dpc, upc, target, granted, channels, tasks, cacheVars, history>>

-----------------------------------------------------------------------------
(* Session handlers.  A token is known once it is granted or was answered.  *)

Authorise(u, i) ==
  /\ AclFree
  /\ i \in live \cup granted
  /\ Client(u, "idle", IF i \in granted THEN "authorised" ELSE "denied")
  /\ target' = [target EXCEPT ![u] = i]
  /\ UNCHANGED <<poolVars, cpc, dpc, granted, streamVars, cacheVars, history>>

\* handle_instance_stream: without a channel the socket is closed.
OpenStream(u) ==
  /\ u \in Streams
  /\ Client(u, "authorised", IF target[u] \in channels THEN "streaming" ELSE "refused")
  /\ UNCHANGED <<poolVars, cpc, dpc, target, granted, streamVars, cacheVars, history>>

\* IpcSessionCommandService::send finds the instance of the session.
FindInstance(u) ==
  /\ u \in Commands
  /\ Client(u, "authorised", IF target[u] \in live THEN "found" ELSE "failed")
  /\ UNCHANGED <<poolVars, cpc, dpc, target, granted, streamVars, cacheVars, history>>

\* The write guard is held over connect; the read guard of read_cached_scheduler
\* ends before the write guard is asked for.
\* Mutation: the read guard is kept (if let on schedulers.read().await).
ReadGuardKept == \A u \in Commands : upc[u] \notin {"missed", "locked"}
SchedulersFree == \A u \in Commands : upc[u] # "locked"

\* read_cached_scheduler
ReadCached(u) ==
  /\ SchedulersFree
  /\ Client(u, "found", IF target[u] \in schedulers THEN "submitted" ELSE "missed")
  /\ UNCHANGED <<poolVars, cpc, dpc, target, granted, streamVars, cacheVars, history>>

\* Mutation: the cache is not looked at again under the write lock.
LockBlindly(u) ==
  /\ SchedulersFree
  /\ Client(u, "missed", "locked")
  /\ UNCHANGED <<poolVars, cpc, dpc, target, granted, streamVars, cacheVars, history>>

\* schedulers.write().await and the second look; the lock is kept over connect.
LockSchedulers(u) ==
  /\ SchedulersFree
  /\ Client(u, "missed", IF target[u] \in schedulers THEN "submitted" ELSE "locked")
  /\ UNCHANGED <<poolVars, cpc, dpc, target, granted, streamVars, cacheVars, history>>

Connect(u) ==
  LET i == target[u] IN
  /\ \/ /\ Client(u, "locked", "submitted")
        /\ schedulers' = schedulers \cup {i}
        /\ connections' = [connections EXCEPT ![i] = @ + 1]
     \/ Client(u, "locked", "failed") /\ UNCHANGED cacheVars
  /\ UNCHANGED <<poolVars, cpc, dpc, target, granted, streamVars, history>>

\* The 5 s timeout around send, or a client that goes away.
GiveUp(u) ==
  /\ \E p \in {"authorised", "found", "missed", "locked"} : Client(u, p, "gone")
  /\ UNCHANGED <<poolVars, cpc, dpc, target, granted, streamVars, cacheVars, history>>

-----------------------------------------------------------------------------
Init ==
  /\ Manager!Init
  /\ cpc = [i \in Ids |-> "idle"]
  /\ dpc = [d \in Destroys |-> "idle"]
  /\ upc = [u \in Clients |-> "idle"]
  /\ target = [x \in Destroys \cup Clients |-> NoId]
  /\ granted = {} /\ channels = {} /\ tasks = {} /\ schedulers = {}
  /\ ingest = [i \in Ids |-> "none"]
  /\ connections = [i \in Ids |-> 0]
  /\ dropped = {} /\ overtaken = {}

CreateStep(i) ==
  \/ EndCreate(i) \/ Grant(i) \/ RegisterHub(i) \/ SpawnIngest(i) \/ StoreTask(i)

DestroyStep(d) ==
  \/ BeginDestroy(d) \/ EndDestroy(d) \/ AbortTask(d) \/ UnregisterHub(d)

CommandStep(u) ==
  \/ FindInstance(u) \/ ReadCached(u) \/ LockSchedulers(u) \/ Connect(u)

Next ==
  \/ \E i \in Ids : BeginCreate(i) \/ CreateStep(i) \/ DropCreate(i) \/ IngestEnds(i)
  \/ \E d \in Destroys : DestroyStep(d) \/ DropDestroy(d) \/ \E i \in Ids : Lookup(d, i)
  \/ \E u \in Clients : GiveUp(u) \/ \E i \in Ids : Authorise(u, i)
  \/ \E u \in Streams : OpenStream(u)
  \/ \E u \in Commands : CommandStep(u)

Spec == Init /\ [][Next]_vars

\* Tokio's locks are fair queues and every await of a started handler is
\* bounded.  A client need not come, go away or be timed out.
FairSpec ==
  /\ Spec
  /\ \A i \in Ids : WF_vars(CreateStep(i))
  /\ \A d \in Destroys : WF_vars(DestroyStep(d))
  /\ \A u \in Commands : WF_vars(CommandStep(u))

-----------------------------------------------------------------------------
TypeOK ==
  /\ reserved \subseteq Ids /\ live \subseteq Ids
  /\ cpc \in [Ids -> CreatePcs]
  /\ dpc \in [Destroys -> DestroyPcs]
  /\ upc \in [Clients -> ClientPcs]
  /\ target \in [Destroys \cup Clients -> Ids \cup {NoId}]
  /\ granted \subseteq Ids /\ channels \subseteq Ids /\ tasks \subseteq Ids
  /\ ingest \in [Ids -> {"none", "running", "ended"}]
  /\ schedulers \subseteq Ids
  /\ connections \in [Ids -> Nat]
  /\ dropped \subseteq Ids /\ overtaken \subseteq Ids

\* A viewer whose token is accepted finds the channel of its session, unless a
\* destroy closed it or the create handler was cut short: the ACL guard, held
\* to the end of that handler, covers the time between the grant and the
\* registration in the hub.
RefusalExplained ==
  \A u \in Streams : upc[u] = "refused" =>
     \/ cpc[target[u]] = "gone"
     \/ \E d \in Destroys : target[d] = target[u] /\ dpc[d] = "answered"

\* A destroyed instance leaves no channel, no running ingest task and no stored
\* handle behind once no handler works on it, except when the destroy overtook
\* the rest of its create handler or a client disconnected midway.
LeaksExplained ==
  \A i \in Ids :
     /\ cpc[i] = "answered" /\ i \notin live
     /\ \A d \in Destroys : target[d] = i => dpc[d] \in {"answered", "notfound"}
     /\ i \in channels \cup tasks \/ ingest[i] = "running"
     => i \in overtaken

\* A worker serves one connection at a time (crates/ipc/src/transport.rs:9):
\* however many requests arrive together, the session's commands share one.
OneConnection == \A i \in Ids : connections[i] <= 1

\* A command request that found its instance is submitted or fails, with no
\* help from a timeout: no request waits for a guard that it holds itself or
\* that is never given back.
CommandsAnswered ==
  \A u \in Commands : upc[u] = "found" ~> upc[u] \in {"submitted", "failed", "gone"}
=============================================================================
