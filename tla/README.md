# mgba-server: a TLA+ verification project

mgba-server is a gateway that runs Game Boy Advance emulators for remote
players.  A gateway process starts one worker process for each instance, sends
it commands over a Unix socket, receives its frames over a second one, and
serves HTTP and WebSocket clients.  This directory models the gateway's own
logic and the worker's in TLA+, checks them with TLC on small instances, and
proves with TLAPS, for every value of the constants, every safety property that
the passing runs check.

All paths below are relative to the repository, which the modules call `src/`.

## 1. Inventory

| Component | Code | State | Operations | Model |
|---|---|---|---|---|
| Instance manager | `crates/instances/src/lib.rs` `InstanceManager` | registry `instances`, counter `pending_creates`, health task | create, destroy, destroy_all, reconstruct, refresh_health_once, mark_error, list, get | `InstanceManager`, `InstancePool` |
| Process backend | same file, `ProcessBackend` | map `children`; the worker processes and their socket files | create_instance, stop_instance, list_managed, inspect_running | `InstanceManager` |
| Command scheduler | `crates/mgba/src/scheduler.rs` | channel, one bounded queue for each priority, the command being executed | submit, the worker task | `CommandScheduler` |
| IPC transport | `crates/mgba/src/ipc_transport.rs`, `crates/ipc/src/transport.rs` | one cached connection | send with a 5 s timeout | `CommandPath` |
| Worker's command task | `src/bin/worker.rs` `handle_commands` | the connection it serves, connections not accepted | read a command, perform it or ask the emulator thread, respond | `WorkerCore`; as the peer of one connection, `CommandPath` |
| Worker's emulator thread | `src/bin/worker.rs`, `src/bin/worker/core.rs` | core request queue, pressed keys, the loaded game, shutdown flag | core requests, one frame each 16.7 ms | `WorkerCore` |
| Worker's frame clock and frame socket | `src/bin/worker.rs`, `crates/ipc/src/transport.rs` | next frame's time, latest frame, packets on the wire | sleep, store a picture, send the latest one, see the shutdown | `FrameFeed`; pixel formats in `PictureCodec` |
| Frame ingest | `crates/gateway/src/admin.rs` `spawn_frame_ingest` | attempts left, the packet being read | connect, read, push, end | `FrameFeed` |
| Admin handlers | `crates/gateway/src/admin.rs` | ACL, hub channels, ingest tasks | create, destroy, list, get, metrics | `GatewayLifecycle` |
| Session lifecycle | `crates/gateway/src/lib.rs`, `command_service.rs` | cache of schedulers | authorize, streams, find or open a scheduler | `GatewayLifecycle` |
| Session routes | `crates/gateway/src/lib.rs`, `crates/mgba/src/protocol.rs`, `ipc_transport.rs` | a call and its log event | check the text, authorize, submit, time out, answer | `CommandText`, `SessionApi` |
| Access control | `crates/auth/src/lib.rs` | tokens, grants, roles | grant, revoke, check | `SessionApi`; the grant of a create in `GatewayLifecycle` |
| Memory and save states | `src/bin/worker/core.rs` | the system RAM, slots | read, write, save, load, reset | `CommandText`, `SessionApi` |
| Frame hub | `crates/streaming/src/frame_hub.rs` | a watch channel and a sequence for each instance | register, unregister, push, subscribe | `FrameStream` |
| Stream broadcast | `crates/streaming/src/broadcast.rs`, `protocol.rs` | keyframe cache; for each viewer previous frame, count, recovery mode | replay, encode, send or drop, keyframe request | `FrameStream` |
| Dashboard | `dashboard/src/App.tsx`, `stream.ts` | socket and timer of each URL, canvases | connect, reconnect, change the URL, inflate, paint | `DashboardPage`, `PictureCodec`; in order of arrival in `FrameStream` |
| Input log | `crates/streaming/src/input_log.rs` | recent list, pending events, broadcast channel | begin, complete, fail, recent, subscribe | `InputLog` |
| Stream metrics, H.264, libretro, configuration, main | see `PROJECT.json` | counters, none | | not modelled |

How they interact.  `admin.rs` calls the manager, then writes the ACL, the hub
and the ingest map.  An ingest task reads a worker's frame socket and pushes to
the hub.  Stream handlers subscribe to the hub and share one keyframe cache.  A
command handler checks the ACL, begins an input-log event, finds or opens the
session's scheduler, submits, and finishes the event.  Everything in the
gateway is a Tokio task: a task loses the processor only at an `.await`, and a
handler whose client disconnects is dropped at the `.await` it has reached.

What is hard: tasks that interleave at every `.await` under several locks; a
value read before an `.await` and used after it; dropped handlers; worker
processes that exit or hang at any time; a timeout that forgets a request the
other side still performs; bounded queues, channels and sends; counters that
wrap; a cache shared by viewers in different states.  The hazards, each with
its line and the properties that cover it, are listed in `PROJECT.json`.

What makes each component correct:

- *Instance manager*: never more instances than `MAX_INSTANCES`, although the
  check and the insertion are apart; no running worker without a handle, except
  those the code gives up on; a late verdict resurrects nothing; calls end.
- *Scheduler*: no command lost or done twice; an urgent one is not overtaken;
  first in, first out within a priority; every caller is answered.
- *Command path*: who gets which response, what is performed and how often.
- *Worker*: each core request once and in order, also after its timeout; an
  answer is the request's own; no key stays down; a core that hangs does not
  stop the command task.
- *Gateway handlers*: an accepted viewer finds its stream; a destroyed instance
  leaves nothing behind; one connection to a worker; no self-deadlock.
- *Streams*: a delta is taken against what the viewer shows; a viewer never
  goes back in time; keyframes recur; a viewer is not stuck.
- *Input log*: logged once; delivered in order, nothing twice, nothing skipped
  but by lag; a viewer that lags catches up.
- *Frame clock and feed*: no drift, no burst after a stall; packets are never
  mixed up; a feed that stops has a reason; what is drawn reaches the hub.
- *Session routes*: a read says what the bytes are, whatever width and name of
  an address wrote them; the log tells what was pressed; nobody without a say
  over a session reads or presses anything in it.
- *Dashboard*: the canvas shows what the core drew; a lost socket is replaced.

## 2. Modules and the code they stand for

**`InstancePool`** is the abstract specification: a pool of `Capacity` slots
that are reserved, become live or are cancelled, and are freed.

**`InstanceManager`** is the manager over the process backend.  A create call
is the uuid it draws.  `cpc` says where each create is: `counting` is between
the two reads under the mutex, `reserved`, `spawned` and `built` own a slot
that no listed instance shows yet, `leaked` is a call dropped after its
reservation.  `pending` is `pending_creates`, `status` the registry, `children`
and `proc` and `sock` the backend's map, the processes and their socket files.
Destroy, destroy_all and reconstruct are one kind of actor (`Sweeps`): they
list the ids to stop, take one from `children`, signal it, wait for it or kill
it, and unlist it.  The health refresh inspects a snapshot and marks errors
later.  A call can be abandoned wherever its future can be dropped.  Actions of
the environment are the worker binding its socket and exiting.  `ImplementsPool`
is the refinement of `InstancePool`: `reserved` is the set of creates that own
a slot, `live` the registry.

**`CommandScheduler`** has the callers, a queue of
`Cap` (16 in the gateway) for each priority, the channel of five times that
(`ChanCap`), and the worker task: drain what is in the channel, pop the first
command of the lowest priority number, execute, reply.  `due` is a history
variable: what was inside when the last execution ended.

**`CommandPath`** extends it with one connection: what was written and not
read (`wire`, `Buffer` commands at most), what the worker is at, what it
answered (`inbox`).  Messages carry no identifier, so a response is known by the
command that produced it.  `TimeOut` and `TimeOutWriting` drop the call wherever
it is, inside a message too, and keep the connection, as `IpcTransport::send`
does.  A response has two parts, its length and the rest: between them it is
`short`, and the rest of a response in `Large`, one that the socket cannot hold,
is written only while a call reads it (`HasSpace`).  What a dropped call has
read of a response is lost with it.  If the worker was still writing, the stream
is then `adrift`: the next call takes the middle of a response for a length and
fails while the worker is up, with as many of the next responses swallowed as
the length happens to say (`Misread`), and may or may not end between two
messages.  A command cut off in its write leaves the other direction `torn`; it
and what is written behind it (`garbled`) never parse, and the worker closes the
connection when it reads them (`HangUp`).  `cuts` counts the responses lost so.

**`FrameStream`** is the hub, the two stream handlers and a client that paints
messages in the order it gets them.  A frame is a picture with a colour for
each tile; a delta holds the tiles that differ.  `prev`, `count`, `recovery`
are the handler's variables of the same names, `cache` the shared keyframe
cache, `hand` the message between encoding and sending, `screen` and `shown`
the client.  A viewer in `Dashboards` follows all instances listed when it
connected; any other follows `Home`.

**`FrameFeed`** brings a picture from the emulator thread to the hub.  A picture
is the number of the frame that drew it.  `Tick` is the clock; `StartFrame`,
`EndFrame` and `WakeUp` are the emulator's loop with
`schedule_next_frame_sleep` (`Rescheduled`).  The socket task `spc` writes
whatever `latest` holds, in two parts (head and data), to a socket of `Buffer`
parts; the ingest task `ipc` connects, reads and pushes, and ends for good at
the first error.  `Exit` is any end of the process, `Abort` the destroy.

**`PictureCodec`** has no state: the conversion of the core's three pixel
formats, `encode_keyframe`, `encode_delta` with the place where a slice runs
over a smaller picture (`Overruns`), and what a canvas does with both.  The
reference `SameColour` is the colour a core's pixel stands for.

**`DashboardPage`** is the page over it: one effect for each URL the user
entered, its socket and reconnect timer, the gateway's handler at the other
end, and the `tasks` that inflate one message each and paint it in any order.
`misplaced` is history: a delta was painted over another picture than its own.

**`CommandText`** has no state: the checks of a request's arguments, the
command they become, the bytes of a value, the text of a response, and
`system_ram_range`.  An argument is its form and the number or button it
spells, and types are `Byte`-ary, so that every boundary is reached with small
numbers.  The reference names the bytes a request is about from its text alone
(`Offsets`, `Covered`).

**`SessionApi`** composes it with the ACL, the log events, the scheduler's
order left open (`Execute` takes any call inside), the transport with its
timeout, and a worker with a RAM and save slots.  `origin`, `truth`,
`pressed` and `powerless` are history: who wrote each byte, what a read should
say, which press was performed, and who had no say when the call was sent.

**`GatewayLifecycle`** composes the handlers of the gateway over `InstancePool`,
which stands for the manager.  `cpc`, `dpc` and `upc` are the create, destroy
and session requests; `granted`, `channels`, `ingest`, `tasks` and `schedulers`
the state they share.  The ACL's write guard lives to the end of the create
handler (`HoldsAcl`), the scheduler cache's over the connect (`SchedulersFree`).
`dropped` and `overtaken` are history.

**`InputLog`** is the log of one session: requests that begin and finish
events, `recent`, and the broadcast channel as the sequence of all that was
sent, of which the last `BroadcastCapacity` can still be received.

**`WorkerCore`** is the worker process behind the socket of `CommandPath`.
`hpc` is where the command task is; it serves one connection (`held`) and leaves
the others in the `backlog` until that one is closed.  A request to the core is
put in `queue` and waited for five seconds (`waiting`); the emulator thread,
`epc`, empties the queue before each frame, whether anybody still waits or not,
and answers on the request's own channel (`reply`).  `keys` is the input state,
`base` what `SetInputState` left down, `game` whether retro_load_game has
succeeded since the last unload.  A core request may fail, and a call into the
core may never return (`CoreHangs`).  `asked` and `performed` are history.

Each `MC*` module gives its module values TLC can use.  An operator whose
comment starts with "Mutation" is a bug the code does not have: it belongs to
no specification, and replacing the definition after it by the mutation must
make TLC find the property violated that `PROJECT.json` pairs it with.

## 3. Runs

| Run | Shows | Bounds |
|---|---|---|
| `instance_capacity` | type invariant, `CapacityBound`, `ReservationAccounting`, `ListedWorkerManaged`, `OrphansComeFromFailedCreates`, `NoResurrection`, refinement of `InstancePool`, `CallsEnd` | 2 creates, 1 sweep, limit 1 |
| `instance_orphans` | violation, see section 6 | 2 creates, limit 1 |
| `command_path` | `DueNotOvertaken`, `ArrivalOrder`, `AnswersShift`, `PerformedOnceInOrder`, `WrittenIsPerformed`, `EveryCallAnswered` | 3 commands, 2 priorities, queues of 1, room for 1 unread command, 1 large response |
| `command_path_stale` | violation, see section 6 | 2 commands |
| `stream` | `ScreenIsDeltaBase`, `NeverBackwards`, `KeyframesRecur`, `NewestFrameTaken`, `OrphanedStreamEnds` | 1 instance, a dashboard and a stream, 3 frames, 2 colours, interval 2, count modulo 2 |
| `stream_tiles` | violation, see section 6 | 2 instances, 2 frames |
| `frame_feed` | `PaceKept`, `PicturesInOrder`, `FrozenExplained`, `PictureArrives` | period of 2 ticks, 7 ticks, 4 frames of which 2 draw, 1 too large, 2 attempts, a socket of 2 parts |
| `dashboard_page` | `ScreenShowsDrawn`, `PageReconnects` | tiles of 2, 6 drawings in 3 formats and 2 sizes, 3 messages, 2 tasks, 2 URLs |
| `session_api` | `ReadBack`, `LogTellsPress`, `NoSayNoEffect` | 4 values to a byte, 4 bytes of RAM at address 16, 2 clients, 3 principals |
| `gateway_lifecycle` | `RefusalExplained`, `LeaksExplained`, `OneConnection`, `CommandsAnswered` | 1 instance, 2 destroys, a viewer, 2 commands |
| `input_log` | `LoggedOnce`, `DeliversTheLog`, `CatchesUp` | 4 events, 1 viewer, recent list and channel of 2 |
| `worker_core` | `CoreOnceInOrder`, `AnswerIsItsOwn`, `KeysReleased`, `CommandsAnswered`, `QueuedIsPerformed` | 2 commands of any kind, 2 connections, 1 key |

Why the bounds are enough.  Two creates over a limit of 1 are the smallest
race for a slot, against one destroy, destroy_all or reconstruct; two sweeps of
one instance are covered by the theorems, which hold for any set of sweeps.
Three commands overfill a queue of 1 while one is executed, let an urgent one
arrive behind two of the other priority, and let a response be one and two
places late.  A write blocks behind one unread command; with one response that
needs a reader, the first call can be given up inside it, the second misread its
rest, and the third succeed with its own response or the second one's.  A
dashboard and a stream of one instance are the two kinds of
viewer on one cache entry; three frames allow a dropped delta, a recovery and a
wrapped count; a second instance matters only to the place on the dashboard,
which `stream_tiles` checks.  In `FrameFeed` seven ticks are three periods and
one more, so the clock can be late by more than a period and then catch up;
two parts of socket let a packet be cut and the next one wait; an oversized
picture is drawn last, after one that fits.  In `DashboardPage` two tasks are
enough to overtake each other and three messages for a keyframe, a delta and a
delta of that; the drawings change the whole tile, the cut tile, only the
padding, the format and the size, and one begins like a smaller one.  In `SessionApi` a 16-bit write, a 32-bit write
and a read of a range overlap under both names of the RAM, a value, a slot and
a duration are too large for their types, and the second client has a viewer's
grant or one that is revoked and given back.  In
`GatewayLifecycle` all requests meet at one instance, two commands race for its
cache entry and two destroys for what it leaves behind; requests of different
instances share only the ACL guard and the lock of the cache, and the theorems
cover any number of instances.  In `WorkerCore` a second command is enough to
come after a request that timed out, on the same connection or on another.  In
`InputLog` viewers do not affect each other, so one is enough, and four events
let a receiver of a channel of 2 lag and go on.  Deadlock is not checked: every
handler ends, so the small systems do stop.  Symmetry is used only in
`instance_orphans`, which checks no liveness.

Bounds of the model and not of the code: `MaxFrames` and `MaxNow` (frames and
ticks), `MaxSent` and `MaxTasks` (messages of a page), `MaxLate`, `MaxBacklog`
and `MaxOrphans` (calls given up, inside, and inside without a handler), each a
guard.  `CountMod` stands for 2^32, the width of `frame_count`; 2^32 is even,
and so is 2 for an `Interval` of 2.  `KeyframesRecur` also says what happens
for an interval that divides 2^32 with rest 1, which these constants do not
reach and the theorem `KeyframesAlwaysRecur` does.

## 4. Fairness

Liveness is checked under weak fairness only.

- Tokio schedules ready tasks and its locks are fair queues: weak fairness of
  each handler's next step.  A client never has to come, leave or be slow, so
  those actions have no fairness; nor have worker exits and lost connections.
- `CallsEnd` rests on the 100 polls of the socket wait for a create and on the
  SIGKILL after the timeout for a destroy: no fairness of the worker is needed.
- `EveryCallAnswered` takes the 5 s timeout of an execution as the step that
  always remains, or what a cut stream makes of a read (`CallStep`).
  `CommandsAnswered` needs no timeout at all.
- `WrittenIsPerformed` also needs the worker's loop: it reads, its handlers end,
  and the rest of a response is written when the socket takes it.  A large
  response is taken only while a call reads; when no call comes any more the
  worker waits with it for ever, which the property names (`Stalled`).
- `WorkerCore`: the command task is scheduled by the runtime and the emulator
  thread by the system.  A core that hangs is a step without fairness, after
  which the thread does nothing: its `CommandsAnswered` holds even then, by the
  timeout, and `QueuedIsPerformed` names the hang and the shutdown as exceptions.
- `PictureArrives`: the socket task and the ingest task are scheduled and their
  timers fire.  The emulator thread and the clock need no fairness: what was
  drawn is sent even if nothing is drawn again.
- `PageReconnects`: the browser's timer fires, and a socket that connects is
  opened or refused.  No fairness of the gateway, of losses or of painting.
- `NewestFrameTaken`, `OrphanedStreamEnds` and `CatchesUp` assume that a live
  viewer's own sends end: its peer reads, or is found gone.  The code has no
  timeout around a send, so nothing is said of a live viewer that stays
  connected and reads nothing.
- A viewer that is *connecting* has no fairness at all: it is sent its cached
  keyframes under the cache's read lock, and may stop reading there for good
  (`broadcast.rs:92-101` and 218-235).  Every other viewer's next keyframe then
  waits for the write lock for ever.  The two properties of the streams
  therefore begin with `LockReleased`: each viewer is again and again outside
  its replay.  What they show is that nothing else stands in the way.

## 5. Proofs

`InstanceManagerProofs` proves, for any finite set of creates, any set of
sweeps and any positive limit: `TypeCorrect`, `CapacitySafe`, `CounterExact`,
`ListedWorkersManaged`, `OrphansExplained`, `NeverResurrected` and
`PoolRefinement`.

`CapacityBound` is not inductive: `create` compares a length it read earlier
with the counter.  The strengthening `CapacityInv` adds that at most one call
is between the read and the comparison (`OneCounting`, the mutex), that the
counter is exact (`ReservationAccounting`), and `SeenCovers`: the length read
plus the counter still covers all slots taken, because creates take slots only
under the mutex and everything else only frees them.  Most actions take no slot
(`TakesNoSlot`, `QuietStep`); the reservation, the commit and the decrement are
lemmas of their own.  `WorkersInv` is inductive relative to `CapacityInv`.  The
refinement follows action by action: `Reserve`, `Commit`, `Cancel` and `Free`
are matched, everything else stutters.

`GatewayLifecycleProofs` proves, for any instances, capacity and sets of
requests: `GatewayTypes`, `OneConnectionEach`, `RefusalsExplained` and
`LeaksAreExplained`.  `OneConnection` needs `CacheInv`: one request at most
holds the cache's write guard, and what it looked up is still missing
(`OneLocked`), so each connection enters the cache when it is opened
(`ConnectionsCached`).  The other three share `HandlersInv`: a listed instance
leaves the registry only by a destroy that is past its stop
(`ListingExplained`); a destroy that did not overtake the create handler found
it ended, so what it takes down is not set up again (`TakenDown`); a running
ingest task has a stored handle (`TasksStored`); and a visible grant has its
channel until a destroy closes it (`GrantsServed`), which rests on the ACL
guard.  Both were checked with TLC as invariants before they were proved.

`CommandPathProofs` proves, for any commands, priorities and queue capacity:

- `NeverOvertaken` and `ExecutedInArrivalOrder` of the scheduler.  `DueInv` says
  that a command is inside once (`InsideOnce`), that each queue holds its own
  priority (`Sorted`), and that nothing due is still in the channel while the
  task picks.  `OrderInv` says that, within a priority, what was started arrived
  before what is in the queue, and all of these before what is still in the
  channel: order by place of arrival (`Precedes`, `AllPrecede`), so that no
  induction over a sequence is needed.
- `StartedOnce`: a call enters the channel once (`EnterInv`) and is picked once.
- `PathImplementsScheduler`: every step of transport, connection and worker is
  one of the scheduler's or stutters, so the theorems above hold of the path.
- `PerformedInOrder`.  `PerformInv`: what is performed, what the worker is at,
  what is on the wire and what is being executed follow each other in the order
  in which they were started.
- `AnswersAreShifted`.  `SentInv`: commands are written once, in the order in
  which they were picked.  `StreamInv`: what the gateway has read, what it can
  read, the command the worker is at and what the worker has not read lie behind
  each other on the stream as they were written, until a command is cut off in
  its write; what was read is as many responses as there are answered calls and
  cuts.  `PlaceInv`: the call at place i that has a response has that of the
  place that counts the calls up to i with one, and the responses that were lost
  when it got its own.  The rest of the i places are the calls left without a
  response (`PlaceShift`), which is the shift.  The count is a `Cardinality` of a
  set of places; `ReadAnswers` and `WriteLeaves` say by how much a step changes
  it, and `Losing` what giving up a call or misreading takes from the front of
  the stream.  None of this depends on where in a message a call was given up.

`WorkerCoreProofs` proves `KeysAreReleased`, `CoreSeesOnceInOrder` and
`AnswersAreTheirOwn` for any connections and requests.  The first needs that
the keys are at all times the base and what a running hold presses
(`KeysInv`); the second that `asked` is `performed` followed by what is queued,
each request once (`OrderInv`); the third what a reply holds and whose it is
(`AnswerInv`).

`FrameStreamProofs` proves, for any instances, viewers, tiles and colours:

- `KeyframesAlwaysRecur`, for every interval above 1 and every width of the
  count.  `RecurInv` bounds the deltas by a function of the count
  (`MostDeltas`), which has one line for the stretch after a wrap.
- `DeltasHaveTheirBase`.  `ScreenInv` adds that a handler has bases only of
  instances it subscribed to (`BasesStreamed`), that the message in hand turns
  the base into its frame (`HandCompletes`), and what a handler may subscribe to
  (`Subscriptions`), from which two instances of one viewer have two places.
- `PicturesOnlyNewer`.  `ShownInv` adds that the hub's sequence is that of the
  latest frame (`SeqIsLatest`), that a cached keyframe is its instance's and not
  ahead of it (`CacheBehind`), that nothing of an instance was shown before its
  cached keyframe is replayed (`BlankStart`), and that what is in hand is not
  older than what was sent (`HandAhead`).

`InputLogProofs` proves `EventsLoggedOnce` and `ViewersFollowTheLog` for any
events, viewers and sizes.  `DeliverInv` follows a viewer: what it was sent
comes before what it has still to replay (`AheadInv`), the recent list is in
the order of the log (`RecentInv`), and once it has subscribed, all it was sent
lies at or before the place of its receiver.

`PictureProofs` proves, for any period, buffer, number of attempts and
pictures:

- `PaceIsKept`.  `ClockInv` relates the deadline to the frames run.  `BurstInv`
  places the last three starts about the deadline: the last one at most a period
  after the next deadline, or that one would have been set anew, the one before
  not after it, and the third a period before it.  The fourth cannot start
  before the deadline, so no four fall within a period, for a stall of any
  length.  `NoBurst` is not inductive without this.
- `PicturesKeepOrder`.  `ConnInv` says the connection is made once and is there
  while the ingest task reads; `PartsInv` that headers and data alternate, from
  the part the reader waits for to the part the worker wrote last; `AgeInv` that
  nothing on the way is older than what is before it.  The pipeline is a
  concatenation of five sequences, which `PutBehind` takes one at a time.
- `FeedsEndForAReason`, which is inductive but for the attempts left.

and, of `DashboardPage`, for any drawings of the three pixel formats, sizes,
tiles and URLs, and any number of tasks that paint in any order:

- `ScreenIsWhatWasDrawn`.  The codec's lemmas come first: a converted pixel
  is less than one of 256 levels from the core's colour (`PixelColour`), the
  tiles cover a picture (`TilesCover`), a keyframe paints its drawing on any
  canvas (`KeyframePainted`), and a delta paints it on the canvas of the drawing
  it was taken against, if the two have one size (`DeltaPainted`).  `PageInv`
  then says that there is an assignment of drawings to message numbers which
  explains every message on its way, every handler's `prev` and, until a delta
  is painted over another picture than its own, the canvas.  A message is
  painted long after the handler has gone on to other pictures, so what it was
  taken against is in no variable; the assignment is what remembers it.

`SessionApiProofs` proves, for any clients, sessions, principals and requests
(any number of bytes, of any width, under both names of the RAM), any size of a
byte and of the RAM:

- `NoSayNothingDone`.  `CallsInv`: a call is in its session's queue or executed,
  once, and whoever still waits for it is the handler whose request it is.
  `SayInv`: no handler waits for a client that had no say when it sent its call
  and until its check, and the client has left no trace; what is granted after
  the check does not help a refused call, and the check and the submit are one
  step.
- `ReadsBack`.  `MemoryInv`: each RAM and each saved slot is the image of its
  history, byte for byte (`Mirrors`).  That a write reaches the bytes its text
  names, and no other, and a read those it is asked for, is arithmetic about
  ranges and digits, proved from the texts alone (`Covered`, `Offsets`).
- `LogIsTrue` and the answers of `ReadsBack` also need `StepInv`: until a call of
  the session has timed out, its connection holds nothing, the call being
  executed, or that call's response; and `AnswerInv`, which follows the event
  and the answer from there.

The proof modules also prove the types of their components' states (of
`DashboardPage` only what `PageInv` needs), which no run but
`instance_capacity` checks.  Assumed are only the
named ASSUMEs on constants: finite sets of calls, positive limits and sizes
(the socket's among them, `SocketAssumption`);
that the value for "nothing" is not one of the data (`NoneAssumption`,
`NoJobAssumption`, `RequestsAssumption`); that the RAM is smaller than the address
it begins at, 32 MiB, so that no address is both relative and absolute
(`RamAssumption`); and that the core's memory has a cell for every pixel of the
picture it announces (`DrawingsAssumption`).  A blank RAM is written
`Digit(Zero)`, the byte at place 0 of the number 0, and not 0: they are equal,
but x^0 = 1 is outside the provers' arithmetic.

Model-checked only, each because it needs fairness: `CallsEnd`,
`EveryCallAnswered`, `WrittenIsPerformed`, `NewestFrameTaken`,
`OrphanedStreamEnds`, `CommandsAnswered` (of the gateway and of the worker),
`QueuedIsPerformed`, `CatchesUp`, `PictureArrives` and `PageReconnects`.  Every
invariant and every action property of the passing runs has a theorem.

## 6. Where the code and its documents differ

Checked by runs that end in a violation:

- `instance_orphans`: a worker whose socket is not there within 10 s is
  abandoned alive while its slot is given back (`crates/instances/src/lib.rs:374`),
  so more workers than `MAX_INSTANCES` (README.md:43) can run.
- `command_path_stale`: after a timeout the connection is kept, and later
  calls return the response of an earlier one (`ipc_transport.rs:35`).
  `AnswersShift` says exactly by how many places: the calls left without a
  response less the responses lost in a cut stream.
- `stream_tiles`: keyframes cached by an instance stream carry index 0 and are
  replayed to dashboards, where 0 is another instance's tile
  (`crates/gateway/src/lib.rs:475`, docs/stream-protocol.md:7).

Modelled as the code does it, without a run of its own:

- A client that goes away while its create is under way leaves
  `pending_creates` one too high for ever (`crates/instances/src/lib.rs:129`), so
  that a create may be refused with "max instances reached" (`lib.rs:65`) although
  nothing is listed and no other create is under way (`leaked`).
- A call that times out inside a response (`crates/ipc/src/transport.rs:44-55`)
  leaves the connection in the middle of it: later calls fail with "frame too
  large" or a parse error while the worker is well, and may swallow further
  responses, so that a shift grows or disappears.  A timeout inside a write
  leaves the worker with a command it cannot parse.
- A response that does not fit in the socket keeps the worker from its next
  command until a call reads it.
- A connecting viewer that stops reading keeps the cache's read lock
  (`broadcast.rs:92`), and every other viewer stops at its next keyframe.
- A worker unlisted by a `reconstruct` that ran while it was created keeps its
  handle in `children`, but no destroy finds it any more (`lib.rs:220`).
- A keyframe request of a dashboard clears the cache of all instances
  (`broadcast.rs:263`), which docs/stream-protocol.md:11 says it does not, and no
  request forces a keyframe: it only empties the cache (`broadcast.rs:443-462`,
  README.md:170).
- With `STREAM_KEYFRAME_INTERVAL=1` the test `frame_count % interval == 1` never
  holds (`broadcast.rs:147`, 286), so no keyframe is forced, where README.md:50
  speaks of the frames between forced keyframes.  `KeyframesAlwaysRecur` needs
  an interval above 1; with 1, TLC finds `KeyframesRecur` violated.
- A LoadRom unloads the running game before it loads the next one; if that
  fails, the emulator thread runs frames without a game
  (`src/bin/worker/core.rs:72`), which the comment at `src/bin/worker.rs:362`
  excludes (`Perform` and `RunFrame` of `WorkerCore`).
- A read of a range of one or two bytes is answered as a decimal number and a
  longer one as hexadecimal digits; the high bits of a written value that do not
  fit are cut off (`ipc_transport.rs:43-150`).  `ReadBack` takes both as they are.
  It says nothing of a read of no bytes, which has an empty answer, or an error
  when its address lies beyond the RAM.
- A hold whose duration does not fit 32 bits is held for 15 frames and logged
  as completed.  `LogTellsPress` excepts it.
- A slot over 255 and a number over 32 bits pass the gateway's checks and end
  as 502; an error of the worker is answered with status 200 and logged as
  completed, with "error" in its text.
- The gateway refuses the buttons X and Y, which the worker knows
  (`worker.rs:567`).
- After a transport timeout a tap may be logged as completed before it is
  performed, because its call gets the response of an earlier one: `InStep` in
  `SessionApi`, and `command_path_stale`.  `SessionApi` gives calls up between
  messages only, since after the first timeout it promises nothing of what an
  answer says; what a cut message does to the stream is in `CommandPath`.
- A delta against a picture larger than the new one compares pixels of other
  places; against a smaller one it panics in the viewer's task, and the
  viewer's socket stays open without frames (`HandlerPanics`).
- After a change of the gateway URL the old socket stays open and goes on
  painting on the same canvas (`App.tsx:86`); every message is inflated by its
  own task and may be painted out of order (`App.tsx:63`).
  `ScreenShowsDrawn` excepts these.
- `revoke` exists (`crates/auth/src/lib.rs:134`) and nothing in the gateway
  calls it; `SessionApi` has it as a step of the ACL.

Seen, not modelled: the transport's module comment assumes one connection for each
worker (`crates/ipc/src/transport.rs:9`) while the health check opens a second
one, which `WorkerCore` keeps in the backlog until the first is closed; the
gateway's main calls neither `start_health_checks` nor `reconstruct`; a hold's
duration is not bounded, and one of more than five seconds blocks the worker's
only command task and is always answered with 504.

## 7. Not modelled, and the plan

Not modelled, and why:

- Stream metrics: counters that no decision of the program depends on.
- H.264: a wrapper of an external encoder, whose messages the dashboard
  refuses.
- libretro: foreign functions of an external core, which `WorkerCore` lets
  fail and hang.
- Configuration, the worker's arguments and the environment callback's
  directories: read once at the start; their values are the constants here.
- The gateway's main: wiring, and a shutdown that calls `destroy_all`.
- Random tokens and their hashes, the admin token, compression and the binary
  envelope around a message, the layout of the page.
- `list`, `get` and the metrics request: they read state and change none.

Order of work, most important first; all but the last is done.

1. `InstancePool`, `InstanceManager`, proofs.
2. `CommandScheduler`, `CommandPath` (composes the scheduler and the connection).
3. `FrameStream`.
4. `GatewayLifecycle` over `InstancePool`.
5. `InputLog`.
6. `GatewayLifecycleProofs`.
7. `WorkerCore`: the worker's command task, core requests, keys and shutdown.
8. `FrameFeed`: the pacing of frames, the frame socket and the ingest task.
9. `PictureCodec`, `DashboardPage`: pixels, and asynchronous inflating.
10. `CommandText`, `SessionApi`: from a request's text to the RAM and back.
11. `WorkerCoreProofs`, `CommandPathProofs`, `FrameStreamProofs`,
    `InputLogProofs`, `PictureProofs` for `FrameFeed`.
12. `AnswersAreShifted`; `PictureProofs` for `DashboardPage`; `SessionApiProofs`.
13. The abstract specifications below, with refinements proved.

Abstract specifications worth stating beside `InstancePool`: a priority queue
for the scheduler, and a "last value" register for a stream's viewer.
