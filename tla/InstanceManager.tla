-------------------------- MODULE InstanceManager ---------------------------
(***************************************************************************)
(* crates/instances: the InstanceManager (registry, reservation counter,   *)
(* health refresh) over the ProcessBackend (one worker process per         *)
(* instance).  A create call is identified with the uuid it draws, so a    *)
(* member of Creates is both the call and the instance.  A member of       *)
(* Sweeps is one call of destroy, destroy_all or reconstruct.  Every       *)
(* `.await` at which another task can run is a point between two actions.  *)
(***************************************************************************)
EXTENDS Naturals, FiniteSets

CONSTANTS Creates,       \* create calls, and the uuids they draw
          Sweeps,        \* destroy / destroy_all / reconstruct calls
          MaxInstances   \* config.max_instances

ASSUME CreatesAssumption == IsFiniteSet(Creates)
ASSUME MaxAssumption == MaxInstances \in Nat \ {0}

VARIABLES
  cpc,       \* where each create call is
  seen,      \* its local `current`: instances.len() read under the mutex (0 when
             \* the block that declares it is left)
  pending,   \* pending_creates
  status,    \* the registry: InstanceStatus of a listed id, or "absent"
  children,  \* ids in ProcessBackend.children
  proc,      \* the worker process of each id
  sock,      \* whether its command socket file exists
  kind,      \* which operation each sweep runs
  spc,       \* where each sweep is
  todo,      \* ids it has not reached yet
  target,    \* the ids it is stopping: a singleton, or {} between two ids
  checks,    \* ids the running refresh_health_once has still to inspect
  dead       \* ids it found dead and has still to mark

createVars == <<cpc, seen, pending>>
workerVars == <<children, proc, sock>>
sweepVars  == <<kind, spc, todo, target>>
healthVars == <<checks, dead>>
vars == <<createVars, status, workerVars, sweepVars, healthVars>>

-----------------------------------------------------------------------------
(* Program points.  "reserved", "spawned" and "built" own a slot that no    *)
(* listed instance shows yet; "leaked" is a call whose future was dropped   *)
(* after the reservation, so that nothing will ever give it back.           *)

HoldingPcs == {"reserved", "spawned", "built"}
CountedPcs == HoldingPcs \cup {"listed", "failed", "leaked"}
SettledPcs == {"accepted", "refused", "errored", "dropped", "leaked"}
CreatePcs  == {"idle", "counting"} \cup CountedPcs \cup SettledPcs

SweepPcs   == {"idle", "next", "found", "waiting", "reaping", "stopped",
               "done", "dropped"}
SweepKinds == {"destroy", "destroy_all", "reconstruct"}

Statuses   == {"absent", "Running", "Error"}
LiveStates == {"starting", "serving"}
ProcStates == {"none", "dead", "terming", "killed"} \cup LiveStates

Instances == {i \in Creates : status[i] # "absent"}
Holding   == {c \in Creates : cpc[c] \in HoldingPcs}
Counted   == {c \in Creates : cpc[c] \in CountedPcs}
Occupied  == {i \in Creates : status[i] # "absent" \/ cpc[i] \in HoldingPcs}

Goto(c, from, to) ==
  /\ cpc[c] = from
  /\ cpc' = [cpc EXCEPT ![c] = to]

SweepGoto(d, from, to) ==
  /\ spc[d] \in from
  /\ spc' = [spc EXCEPT ![d] = to]

-----------------------------------------------------------------------------
(* InstanceManager::create                                                  *)

\* Mutation: the reservation counter without its mutex.
AlwaysFree == TRUE

\* Only the check-and-reserve block keeps the pending_creates mutex over an
\* await; the two decrements take and release it in one step.
MutexFree == \A c \in Creates : cpc[c] # "counting"

\* let mut pending = self.pending_creates.lock().await;
\* let current = self.instances.read().await.len();
CountInstances(c) ==
  /\ MutexFree
  /\ Goto(c, "idle", "counting")
  /\ seen' = [seen EXCEPT ![c] = Cardinality(Instances)]
  /\ UNCHANGED <<pending, status, workerVars, sweepVars, healthVars>>

\* Mutation: `>` instead of `>=` in the limit check.
HasRoomOffByOne(c) == seen[c] + pending <= MaxInstances

HasRoom(c) == seen[c] + pending < MaxInstances

\* Mutation: the reservation is not counted.
ReserveUncounted(c) ==
  /\ HasRoom(c)
  /\ Goto(c, "counting", "reserved")
  /\ seen' = [seen EXCEPT ![c] = 0]
  /\ UNCHANGED <<pending, status, workerVars, sweepVars, healthVars>>

Reserve(c) ==
  /\ HasRoom(c)
  /\ Goto(c, "counting", "reserved")
  /\ seen' = [seen EXCEPT ![c] = 0]
  /\ pending' = pending + 1
  /\ UNCHANGED <<status, workerVars, sweepVars, healthVars>>

Refuse(c) ==
  /\ ~HasRoom(c)
  /\ Goto(c, "counting", "refused")
  /\ seen' = [seen EXCEPT ![c] = 0]
  /\ UNCHANGED <<pending, status, workerVars, sweepVars, healthVars>>

\* ProcessBackend::create_instance up to cmd.spawn(): the process runs, but
\* only the future knows it.
Spawn(c) ==
  /\ Goto(c, "reserved", "spawned")
  /\ proc' = [proc EXCEPT ![c] = "starting"]
  /\ UNCHANGED <<seen, pending, status, children, sock, sweepVars, healthVars>>

\* create_dir_all or spawn failed.
SpawnFails(c) ==
  /\ Goto(c, "reserved", "failed")
  /\ UNCHANGED <<seen, pending, status, workerVars, sweepVars, healthVars>>

\* Mutation: the process is started but its handle is never stored.
ForgetChild(c) ==
  /\ sock[c]
  /\ Goto(c, "spawned", "built")
  /\ UNCHANGED <<seen, pending, status, workerVars, sweepVars, healthVars>>

\* The poll finds the socket file; the child is stored.
AdoptChild(c) ==
  /\ sock[c]
  /\ Goto(c, "spawned", "built")
  /\ children' = children \cup {c}
  /\ UNCHANGED <<seen, pending, status, proc, sock, sweepVars, healthVars>>

\* Mutation: no deadline, the poll ends only when the worker has died.
PollUntilDeath(c) ==
  /\ ~sock[c] /\ proc[c] = "dead"
  /\ Goto(c, "spawned", "failed")
  /\ UNCHANGED <<seen, pending, status, workerVars, sweepVars, healthVars>>

\* The poll gives up after 10 s: the Child is dropped, the process is not
\* killed.
SocketTimeout(c) ==
  /\ ~sock[c]
  /\ Goto(c, "spawned", "failed")
  /\ UNCHANGED <<seen, pending, status, workerVars, sweepVars, healthVars>>

\* self.instances.write().await.insert(instance_id, info)
List(c) ==
  /\ Goto(c, "built", "listed")
  /\ status' = [status EXCEPT ![c] = "Running"]
  /\ UNCHANGED <<seen, pending, workerVars, sweepVars, healthVars>>

\* Mutation: the error path returns without giving the reservation back.
KeepReservation(c) ==
  /\ MutexFree
  /\ \/ Goto(c, "listed", "accepted") /\ pending' = pending - 1
     \/ Goto(c, "failed", "errored") /\ UNCHANGED pending
  /\ UNCHANGED <<seen, status, workerVars, sweepVars, healthVars>>

\* *self.pending_creates.lock().await -= 1, on the success and error paths.
GiveBack(c) ==
  /\ MutexFree
  /\ \/ Goto(c, "listed", "accepted")
     \/ Goto(c, "failed", "errored")
  /\ pending' = pending - 1
  /\ UNCHANGED <<seen, status, workerVars, sweepVars, healthVars>>

\* The client goes away: the handler future is dropped at an await.  Before
\* the reservation nothing is lost, after it the counter is never lowered.
AbandonCreate(c) ==
  /\ \/ Goto(c, "counting", "dropped")
     \/ \E p \in {"reserved", "spawned", "built", "listed", "failed"} :
          Goto(c, p, "leaked")
  /\ seen' = [seen EXCEPT ![c] = 0]
  /\ UNCHANGED <<pending, status, workerVars, sweepVars, healthVars>>

-----------------------------------------------------------------------------
(* destroy, destroy_all, reconstruct over ProcessBackend::stop_instance     *)

Begin(d, k, ids) ==
  /\ SweepGoto(d, {"idle"}, "next")
  /\ kind' = [kind EXCEPT ![d] = k]
  /\ todo' = [todo EXCEPT ![d] = ids]
  /\ UNCHANGED <<createVars, status, workerVars, target, healthVars>>

BeginDestroy(d, i)  == Begin(d, "destroy", {i})
BeginDestroyAll(d)  == Begin(d, "destroy_all", Instances)
BeginReconstruct(d) == Begin(d, "reconstruct", children)

\* destroy first looks the id up and answers NotFound without it (destroy_all
\* goes on with the next id); reconstruct stops what it listed blindly.
Pick(d, i) ==
  /\ i \in todo[d]
  /\ todo' = [todo EXCEPT ![d] = @ \ {i}]
  /\ \/ /\ kind[d] = "reconstruct" \/ i \in Instances
        /\ SweepGoto(d, {"next"}, "found")
        /\ target' = [target EXCEPT ![d] = {i}]
     \/ /\ kind[d] # "reconstruct" /\ i \notin Instances
        /\ SweepGoto(d, {"next"}, "next")
        /\ UNCHANGED target
  /\ UNCHANGED <<createVars, status, workerVars, kind, healthVars>>

\* Mutation: the handle is removed, the worker is never signalled.
Unsignalled(S) == proc

\* SIGTERM: the worker installs no handler, so a running one is now dying.
Signalled(S) == [p \in Creates |-> IF p \in S /\ proc[p] \in LiveStates
                                   THEN "terming" ELSE proc[p]]

\* children.write().await.remove(id), then SIGTERM; without a child the call
\* is already over.
TakeChild(d) ==
  /\ \/ /\ target[d] \subseteq children
        /\ SweepGoto(d, {"found"}, "waiting")
        /\ children' = children \ target[d]
        /\ proc' = Signalled(target[d])
     \/ /\ ~(target[d] \subseteq children)
        /\ SweepGoto(d, {"found"}, "stopped")
        /\ UNCHANGED <<children, proc>>
  /\ UNCHANGED <<createVars, status, sock, kind, todo, target, healthVars>>

\* Mutation: the escalation repeats SIGTERM.
KillSoftly(d) ==
  /\ \A i \in target[d] : proc[i] # "dead"
  /\ SweepGoto(d, {"waiting"}, "reaping")
  /\ UNCHANGED <<createVars, status, workerVars, kind, todo, target, healthVars>>

\* worker_shutdown_timeout_ms elapsed: SIGKILL, then wait without a limit.
Kill(d) ==
  /\ \A i \in target[d] : proc[i] # "dead"
  /\ SweepGoto(d, {"waiting"}, "reaping")
  /\ proc' = [p \in Creates |-> IF p \in target[d] THEN "killed" ELSE proc[p]]
  /\ UNCHANGED <<createVars, status, children, sock, kind, todo, target, healthVars>>

\* child.wait() returned; both socket files are removed.
Reap(d) ==
  /\ \A i \in target[d] : proc[i] = "dead"
  /\ SweepGoto(d, {"waiting", "reaping"}, "stopped")
  /\ sock' = [p \in Creates |-> sock[p] /\ p \notin target[d]]
  /\ UNCHANGED <<createVars, status, children, proc, kind, todo, target, healthVars>>

\* instances.write().await.remove(id); reconstruct goes on with the next id.
Unlist(d) ==
  /\ SweepGoto(d, {"stopped"}, "next")
  /\ status' = IF kind[d] = "reconstruct" THEN status
               ELSE [i \in Creates |-> IF i \in target[d] THEN "absent" ELSE status[i]]
  /\ target' = [target EXCEPT ![d] = {}]
  /\ UNCHANGED <<createVars, workerVars, kind, todo, healthVars>>

\* The loop is over; reconstruct clears the registry.
Finish(d) ==
  /\ todo[d] = {}
  /\ SweepGoto(d, {"next"}, "done")
  /\ status' = IF kind[d] = "reconstruct" THEN [i \in Creates |-> "absent"] ELSE status
  /\ UNCHANGED <<createVars, workerVars, kind, todo, target, healthVars>>

\* The client of a DELETE goes away.  destroy_all and reconstruct are called
\* by the program itself.
AbandonDestroy(d) ==
  /\ kind[d] = "destroy"
  /\ SweepGoto(d, {"found", "waiting", "reaping", "stopped"}, "dropped")
  /\ target' = [target EXCEPT ![d] = {}]
  /\ UNCHANGED <<createVars, status, workerVars, kind, todo, healthVars>>

-----------------------------------------------------------------------------
(* refresh_health_once                                                      *)

HealthSnapshot ==
  /\ checks = {} /\ dead = {}
  /\ checks' = {i \in Creates : status[i] = "Running"}
  /\ UNCHANGED <<createVars, status, workerVars, sweepVars, dead>>

\* inspect_running, then Ping over a fresh connection.  The answer can be
\* "alive" only from a serving worker whose handle and socket file are there;
\* it can be "dead" for any worker, for one that does not answer in 2 s too.
Inspect(i) ==
  /\ i \in checks /\ dead = {}
  /\ checks' = checks \ {i}
  /\ \/ /\ i \in children /\ sock[i]
        /\ proc[i] \in {"serving", "terming", "killed"}
        /\ UNCHANGED dead
     \/ dead' = {i}
  /\ UNCHANGED <<createVars, status, workerVars, sweepVars>>

\* Mutation: an upsert instead of get_mut.
Upsert(S) == [i \in Creates |-> IF i \in S THEN "Error" ELSE status[i]]

\* if let Some(info) = map.get_mut(instance_id)
MarkedError(S) == [i \in Creates |-> IF i \in S /\ status[i] # "absent"
                                     THEN "Error" ELSE status[i]]

MarkError ==
  /\ dead # {}
  /\ status' = MarkedError(dead)
  /\ dead' = {}
  /\ UNCHANGED <<createVars, workerVars, sweepVars, checks>>

\* stop_health_checks aborts the task wherever it is.
StopHealth ==
  /\ checks # {} \/ dead # {}
  /\ checks' = {} /\ dead' = {}
  /\ UNCHANGED <<createVars, status, workerVars, sweepVars>>

\* cleanup_stale_sockets removes every .sock file, those of live workers too.
CleanupSockets ==
  /\ sock' = [i \in Creates |-> FALSE]
  /\ UNCHANGED <<createVars, status, children, proc, sweepVars, healthVars>>

-----------------------------------------------------------------------------
(* The worker process, as far as its parent sees it                         *)

\* IpcServer::bind creates the socket file.
WorkerBinds(i) ==
  /\ proc[i] = "starting"
  /\ proc' = [proc EXCEPT ![i] = "serving"]
  /\ sock' = [sock EXCEPT ![i] = TRUE]
  /\ UNCHANGED <<createVars, status, children, sweepVars, healthVars>>

\* A crash, a Shutdown command, exit(1) at startup, or the signal's effect.
\* The socket file stays.
WorkerExits(i) ==
  /\ proc[i] \notin {"none", "dead"}
  /\ proc' = [proc EXCEPT ![i] = "dead"]
  /\ UNCHANGED <<createVars, status, children, sock, sweepVars, healthVars>>

-----------------------------------------------------------------------------
Init ==
  /\ cpc = [c \in Creates |-> "idle"]
  /\ seen = [c \in Creates |-> 0]
  /\ pending = 0
  /\ status = [i \in Creates |-> "absent"]
  /\ children = {}
  /\ proc = [i \in Creates |-> "none"]
  /\ sock = [i \in Creates |-> FALSE]
  /\ kind = [d \in Sweeps |-> "destroy"]
  /\ spc = [d \in Sweeps |-> "idle"]
  /\ todo = [d \in Sweeps |-> {}]
  /\ target = [d \in Sweeps |-> {}]
  /\ checks = {}
  /\ dead = {}

CreateStep(c) ==
  \/ CountInstances(c) \/ Reserve(c) \/ Refuse(c) \/ Spawn(c) \/ SpawnFails(c)
  \/ AdoptChild(c) \/ SocketTimeout(c) \/ List(c) \/ GiveBack(c)

SweepStep(d) ==
  \/ \E i \in Creates : Pick(d, i)
  \/ TakeChild(d) \/ Kill(d) \/ Reap(d) \/ Unlist(d) \/ Finish(d)

HealthStep == HealthSnapshot \/ (\E i \in Creates : Inspect(i)) \/ MarkError

Next ==
  \/ \E c \in Creates : CreateStep(c) \/ AbandonCreate(c)
  \/ \E d \in Sweeps : \/ \E i \in Creates : BeginDestroy(d, i)
                       \/ BeginDestroyAll(d) \/ BeginReconstruct(d)
                       \/ SweepStep(d) \/ AbandonDestroy(d)
  \/ HealthStep \/ StopHealth \/ CleanupSockets
  \/ \E i \in Creates : WorkerBinds(i) \/ WorkerExits(i)

Spec == Init /\ [][Next]_vars

\* tokio runs every task that can run; the kernel ends a killed process.
\* Clients, the worker's own exit and its socket are not fair.
Fairness ==
  /\ \A c \in Creates : /\ WF_vars(cpc[c] # "idle" /\ CreateStep(c))
                        /\ WF_vars(proc[c] = "killed" /\ WorkerExits(c))
  /\ \A d \in Sweeps : WF_vars(SweepStep(d))

FairSpec == Spec /\ Fairness

-----------------------------------------------------------------------------
(* Properties                                                               *)

TypeOK ==
  /\ cpc \in [Creates -> CreatePcs]
  /\ seen \in [Creates -> Nat]
  /\ pending \in Nat
  /\ status \in [Creates -> Statuses]
  /\ children \subseteq Creates
  /\ proc \in [Creates -> ProcStates]
  /\ sock \in [Creates -> BOOLEAN]
  /\ kind \in [Sweeps -> SweepKinds]
  /\ spc \in [Sweeps -> SweepPcs]
  /\ todo \in [Sweeps -> SUBSET Creates]
  /\ target \in [Sweeps -> SUBSET Creates]
  /\ checks \subseteq Creates
  /\ dead \subseteq Creates

\* Listed instances and creates that own a slot never exceed max_instances,
\* although the length of the registry is read before the counter is compared
\* and the registry changes without the counter's mutex.
CapacityBound == Cardinality(Occupied) <= MaxInstances

\* The counter is exactly the calls that reserved and have not given back:
\* the running ones and those whose client went away.
ReservationAccounting == pending = Cardinality(Counted)

\* A listed instance whose process handle is gone has been told to stop: no
\* listed worker runs on unmanaged, whatever destroys are interrupted.
ListedWorkerManaged ==
  \A i \in Instances : proc[i] \in LiveStates => i \in children

\* A running worker nobody holds a handle of belongs to a create that is still
\* polling for its socket or that did not succeed.
OrphansComeFromFailedCreates ==
  \A i \in Creates : proc[i] \in LiveStates /\ i \notin children
                     => cpc[i] \in {"spawned", "failed", "errored", "leaked"}

\* An instance enters the registry once, when its create lists it: a health
\* verdict or a second destroy that arrives late never brings it back.
NoResurrection ==
  [][\A i \in Creates : status[i] = "absent" /\ status'[i] # "absent"
                        => cpc[i] = "built" /\ cpc'[i] = "listed"]_vars

\* Without the mutex, the counter and the processes this is InstancePool.
Pool == INSTANCE InstancePool WITH
          Ids <- Creates, Capacity <- MaxInstances,
          reserved <- Holding, live <- Instances
ImplementsPool == Pool!Spec

\* Every create call ends, whatever the worker does and whoever holds the mutex.
CreatesSettle ==
  \A c \in Creates : cpc[c] = "counting" ~> cpc[c] \in SettledPcs

\* Every destroy, destroy_all and reconstruct ends, even when a worker ignores
\* SIGTERM: the SIGKILL after the timeout ends the wait.
SweepsEnd ==
  \A d \in Sweeps : spc[d] = "next" ~> spc[d] \in {"done", "dropped"}

\* No call waits for ever.
CallsEnd == CreatesSettle /\ SweepsEnd

\* README.md:43 "MAX_INSTANCES ... Maximum concurrent instances", read of the
\* worker processes themselves.
LiveWorkersBounded ==
  Cardinality({i \in Creates : proc[i] \in LiveStates}) <= MaxInstances
=============================================================================
