---------------------------- MODULE FrameStream -----------------------------
(***************************************************************************)
(* crates/streaming: FrameHub (one watch channel per instance), the        *)
(* DashboardBroadcast handlers that encode its frames for each viewer, and *)
(* the keyframe cache they share.  A viewer is one WebSocket connection,   *)
(* of an instance stream or, if in Dashboards, of the dashboard.  A socket *)
(* is reliable and ordered: what is sent is painted at once, by a decoder  *)
(* that takes the messages in order.                                       *)
(***************************************************************************)
EXTENDS Naturals, FiniteSets

CONSTANTS Ids,          \* instances, as numbers: FrameHub lists ids sorted
          Viewers,
          Dashboards,   \* the viewers of /ws/dashboard
          Home,         \* the instance of each other viewer
          Tiles,        \* the tiles of a picture
          Colours,      \* what a tile can show
          Interval,     \* config.keyframe_interval
          CountMod,     \* frame_count is a u32: 2^32
          MaxFrames,    \* bound: frames pushed per instance
          None

ASSUME IdsAssumption == Ids \subseteq Nat /\ IsFiniteSet(Ids) /\ None \notin Ids
ASSUME ViewersAssumption == Dashboards \subseteq Viewers /\ Home \in [Viewers -> Ids]
ASSUME NumbersAssumption ==
  /\ Interval \in Nat \ {0}      \* load_from_env refuses 0
  /\ CountMod \in Nat \ {0, 1} /\ MaxFrames \in Nat \ {0}

VARIABLES
  channel,    \* of each id in the hub: "none" yet, "open", "dropped"
  seq,        \* FrameHub.sequences; 0 stands for no entry
  latest,     \* the value of each watch channel
  cache,      \* keyframe_cache
  vpc,        \* where each viewer's handler is
  todo,       \* ids it has still to replay or to subscribe to
  listing,    \* ids the handler was given
  subs,       \* ids it has a receiver for
  seen,       \* the sequence of the value each receiver has seen
  prev,       \* prev_frame(s)
  count,      \* frame_count(s)
  recovery,   \* ids in recovery mode
  hand,       \* the frame being sent and its encoding
  screen,     \* what the viewer shows at each instance index
  shown,      \* history: the last sequence it was sent of each instance
  deltas      \* history: deltas encoded since the last keyframe

hubVars    == <<channel, seq, latest>>
encodeVars == <<prev, count, recovery, deltas>>
viewVars   == <<screen, shown>>
setupVars  == <<todo, listing, subs>>
vars == <<hubVars, cache, vpc, setupVars, seen, encodeVars, hand, viewVars>>

registered == {i \in Ids : channel[i] = "open"}

Indices  == 0 .. Cardinality(Ids) - 1
Pictures == [Tiles -> Colours]
Frames   == [seq : 1 .. MaxFrames, pic : Pictures]
TileSets == UNION {[T -> Colours] : T \in SUBSET Tiles}
Messages == [kind : {"keyframe", "delta"}, id : Ids, index : Indices,
             seq : 1 .. MaxFrames, tiles : TileSets]
Keyframes == {m \in Messages : m.kind = "keyframe" /\ DOMAIN m.tiles = Tiles}

ASSUME NoneAssumption == None \notin Frames

Vpcs == {"idle", "opening", "replaying", "subscribing", "live", "caching",
         "sending", "closed", "refused"}

ViewerGoto(v, from, to) ==
  /\ vpc[v] = from
  /\ vpc' = [vpc EXCEPT ![v] = to]

-----------------------------------------------------------------------------
(* FrameHub.  An id is a uuid, registered once.                             *)

Register(i) ==
  /\ channel[i] = "none"
  /\ channel' = [channel EXCEPT ![i] = "open"]
  /\ seq' = [seq EXCEPT ![i] = 0]
  /\ UNCHANGED <<latest, cache, vpc, setupVars, seen, encodeVars, hand, viewVars>>

\* The sender is dropped.  Receivers keep the value they have not seen.
Unregister(i) ==
  /\ i \in registered
  /\ channel' = [channel EXCEPT ![i] = "dropped"]
  /\ seq' = [seq EXCEPT ![i] = 0]
  /\ UNCHANGED <<latest, cache, vpc, setupVars, seen, encodeVars, hand, viewVars>>

\* An ingest task that outlives its instance recreates the sequence and finds
\* no channel; one such frame is enough.
PushFrame(i, pic) ==
  /\ \/ i \in registered /\ seq[i] < MaxFrames
     \/ channel[i] = "dropped" /\ seq[i] = 0
  /\ seq' = [seq EXCEPT ![i] = @ + 1]
  /\ latest' = IF i \in registered
               THEN [latest EXCEPT ![i] = [seq |-> seq[i] + 1, pic |-> pic]]
               ELSE latest
  /\ UNCHANGED <<channel, cache, vpc, setupVars, seen, encodeVars, hand, viewVars>>

LatestSeq(i) == IF latest[i] = None THEN 0 ELSE latest[i].seq

-----------------------------------------------------------------------------
(* Opening a stream                                                         *)

\* The index the gateway gives an instance: 0 on its own stream, its rank
\* among the ids registered at the time on the dashboard.
Place(v, i) == IF v \in Dashboards THEN Cardinality({j \in listing[v] : j < i}) ELSE 0

\* A new receiver has seen the current value.
Subscribed(v, i) ==
  /\ subs' = [subs EXCEPT ![v] = @ \cup {i}]
  /\ seen' = [seen EXCEPT ![v][i] = LatestSeq(i)]

\* handle_instance_stream subscribes first and replays the cache then.
OpenInstance(v) ==
  LET i == Home[v] IN
  /\ v \notin Dashboards
  /\ listing' = [listing EXCEPT ![v] = {i}]
  /\ \/ i \in registered /\ ViewerGoto(v, "idle", "opening") /\ Subscribed(v, i)
     \/ i \notin registered /\ ViewerGoto(v, "idle", "refused") /\ UNCHANGED <<subs, seen>>
  /\ UNCHANGED <<hubVars, cache, todo, encodeVars, hand, viewVars>>

\* dashboard_stream_ws: the ids registered now are all this viewer will see.
OpenDashboard(v) ==
  /\ v \in Dashboards
  /\ ViewerGoto(v, "idle", "opening")
  /\ listing' = [listing EXCEPT ![v] = registered]
  /\ UNCHANGED <<hubVars, cache, todo, subs, seen, encodeVars, hand, viewVars>>

\* keyframe_cache.read().await, held until every cached keyframe is sent.
LockCache(v) ==
  /\ ViewerGoto(v, "opening", "replaying")
  /\ todo' = [todo EXCEPT ![v] = listing[v]]
  /\ UNCHANGED <<hubVars, cache, listing, subs, seen, encodeVars, hand, viewVars>>

\* Mutation: the read guard lives as long as the handler.
GuardKept == \A v \in Viewers : vpc[v] \notin {"replaying", "live", "caching", "sending"}

CacheWritable == \A v \in Viewers : vpc[v] # "replaying"

\* renderKeyframe and renderDelta at the index the message names.
Painted(m, old) ==
  [id |-> m.id, pic |-> [t \in Tiles |-> IF t \in DOMAIN m.tiles THEN m.tiles[t]
                                                                  ELSE old.pic[t]]]

Sent(v, m) ==
  /\ screen' = [screen EXCEPT ![v][m.index] = Painted(m, @)]
  /\ shown' = [shown EXCEPT ![v][m.id] = m.seq]

IsNext(v, i) == i \in todo[v] /\ \A j \in todo[v] : i <= j

\* One cached keyframe: none, over the backpressure limit, or sent.
Replay(v, i) ==
  /\ vpc[v] = "replaying" /\ IsNext(v, i)
  /\ todo' = [todo EXCEPT ![v] = @ \ {i}]
  /\ \/ UNCHANGED viewVars
     \/ cache[i] # None /\ Sent(v, cache[i])
  /\ UNCHANGED <<hubVars, cache, vpc, listing, subs, seen, encodeVars, hand>>

ReplayEnds(v) ==
  /\ todo[v] = {}
  /\ \/ v \notin Dashboards /\ ViewerGoto(v, "replaying", "live") /\ UNCHANGED todo
     \/ /\ v \in Dashboards /\ ViewerGoto(v, "replaying", "subscribing")
        /\ todo' = [todo EXCEPT ![v] = listing[v]]
  /\ UNCHANGED <<hubVars, cache, listing, subs, seen, encodeVars, hand, viewVars>>

\* handle_dashboard_stream subscribes after the replay.
Subscribe(v, i) ==
  /\ vpc[v] = "subscribing" /\ IsNext(v, i)
  /\ todo' = [todo EXCEPT ![v] = @ \ {i}]
  /\ IF i \in registered THEN Subscribed(v, i) ELSE UNCHANGED <<subs, seen>>
  /\ UNCHANGED <<hubVars, cache, vpc, listing, encodeVars, hand, viewVars>>

SubscribeEnds(v) ==
  /\ todo[v] = {}
  /\ ViewerGoto(v, "subscribing", IF subs[v] = {} THEN "refused" ELSE "live")
  /\ UNCHANGED <<hubVars, cache, setupVars, seen, encodeVars, hand, viewVars>>

-----------------------------------------------------------------------------
(* The frame loop                                                           *)

\* Mutation: no periodic keyframe.
NeverForced(v, i, n) == i \in recovery[v]

\* frame_count % keyframe_interval == 1 || recovery_mode
Forced(v, i, n) == n % Interval = 1 \/ i \in recovery[v]

Changed(old, new) == {t \in Tiles : old[t] # new[t]}

\* encode_frame_payload: everything, or the tiles that differ from prev.
Encoded(v, i, n) ==
  LET f   == latest[i]
      key == Forced(v, i, n) \/ prev[v][i] = None
      T   == IF key THEN Tiles ELSE Changed(prev[v][i].pic, f.pic)
  IN [kind |-> IF key THEN "keyframe" ELSE "delta", id |-> i, index |-> Place(v, i),
      seq |-> f.seq, tiles |-> [t \in T |-> f.pic[t]]]

\* What has_changed and changed answer once the sender is gone: changed still
\* yields the unseen value, has_changed().unwrap_or(false) does not.
HasNew(v, i) ==
  /\ i \in subs[v] /\ seen[v][i] < LatestSeq(i)
  /\ v \notin Dashboards \/ i \in registered

Cacheable(m) == m.kind = "keyframe"

\* borrow_and_update: frames pushed since the last one are skipped.
TakeFrame(v, i) ==
  /\ HasNew(v, i)
  /\ LET n == (count[v][i] + 1) % CountMod
         m == Encoded(v, i, n)
     IN /\ count' = [count EXCEPT ![v][i] = n]
        /\ hand' = [hand EXCEPT ![v] = [msg |-> m, frame |-> latest[i]]]
        /\ deltas' = [deltas EXCEPT ![v][i] = IF m.kind = "keyframe" THEN 0 ELSE @ + 1]
        /\ ViewerGoto(v, "live", IF Cacheable(m) THEN "caching" ELSE "sending")
  /\ seen' = [seen EXCEPT ![v][i] = LatestSeq(i)]
  /\ UNCHANGED <<hubVars, cache, setupVars, prev, recovery, viewVars>>

\* keyframe_cache.write().await.insert, before the keyframe is sent.
CacheKeyframe(v) ==
  LET m == hand[v].msg IN
  /\ CacheWritable
  /\ ViewerGoto(v, "caching", "sending")
  /\ cache' = [cache EXCEPT ![m.id] = m]
  /\ recovery' = [recovery EXCEPT ![v] = @ \ {m.id}]
  /\ UNCHANGED <<hubVars, setupVars, seen, prev, count, deltas, hand, viewVars>>

Deliver(v) ==
  LET m == hand[v].msg IN
  /\ ViewerGoto(v, "sending", "live")
  /\ Sent(v, m)
  /\ prev' = [prev EXCEPT ![v][m.id] = hand[v].frame]
  /\ hand' = [hand EXCEPT ![v] = None]
  /\ UNCHANGED <<hubVars, cache, setupVars, seen, count, recovery, deltas>>

\* Mutation: the frame becomes prev_frame although it was not sent.
DropAdvancing(v) ==
  LET m == hand[v].msg IN
  /\ ViewerGoto(v, "sending", "live")
  /\ prev' = [prev EXCEPT ![v][m.id] = hand[v].frame]
  /\ hand' = [hand EXCEPT ![v] = None]
  /\ UNCHANGED <<hubVars, cache, setupVars, seen, count, recovery, deltas, viewVars>>

\* The encoding is over backpressure_limit: not sent.
Drop(v) ==
  LET m == hand[v].msg IN
  /\ ViewerGoto(v, "sending", "live")
  /\ recovery' = [recovery EXCEPT ![v] = IF m.kind = "delta" THEN @ \cup {m.id} ELSE @]
  /\ hand' = [hand EXCEPT ![v] = None]
  /\ UNCHANGED <<hubVars, cache, setupVars, seen, prev, count, deltas, viewVars>>

\* The peer is gone: the send fails.
SendFails(v) ==
  /\ \/ ViewerGoto(v, "sending", "closed")
     \/ ViewerGoto(v, "replaying", "refused")
  /\ hand' = [hand EXCEPT ![v] = None]
  /\ UNCHANGED <<hubVars, cache, setupVars, seen, encodeVars, viewVars>>

\* Mutation: the loop polls and never looks whether the sender is gone, which
\* is what the dashboard's loop does.
NeverOver(v) == FALSE

\* rx.changed().await.is_err()
Over(v) == v \notin Dashboards /\ Home[v] \notin registered /\ ~HasNew(v, Home[v])

StreamEnds(v) ==
  /\ Over(v)
  /\ ViewerGoto(v, "live", "closed")
  /\ UNCHANGED <<hubVars, cache, setupVars, seen, encodeVars, hand, viewVars>>

-----------------------------------------------------------------------------
(* {"type":"keyframe"} from a viewer                                        *)

\* Ids whose cached keyframe a request of v throws away.
Forgotten(v) == IF v \in Dashboards THEN Ids ELSE {Home[v]}

\* Mutation: the request is answered at once from the cache.
AnswerFromCache(v) ==
  /\ CacheWritable
  /\ vpc[v] \in {"live", "caching", "sending", "closed"}
  /\ \E i \in subs[v] : cache[i] # None /\ Sent(v, cache[i])
  /\ UNCHANGED <<hubVars, cache, vpc, setupVars, seen, encodeVars, hand>>

\* The control task lives until its socket half is closed, so it may outlive
\* the frame loop.  A request within 500 ms of the last is ignored.
RequestKeyframe(v) ==
  /\ CacheWritable
  /\ vpc[v] \in {"live", "caching", "sending", "closed"}
  /\ cache' = [i \in Ids |-> IF i \in Forgotten(v) THEN None ELSE cache[i]]
  /\ UNCHANGED <<hubVars, vpc, setupVars, seen, encodeVars, hand, viewVars>>

-----------------------------------------------------------------------------
Blank == [id |-> None, pic |-> [t \in Tiles |-> None]]

Init ==
  /\ channel = [i \in Ids |-> "none"]
  /\ seq = [i \in Ids |-> 0]
  /\ latest = [i \in Ids |-> None]
  /\ cache = [i \in Ids |-> None]
  /\ vpc = [v \in Viewers |-> "idle"]
  /\ todo = [v \in Viewers |-> {}]
  /\ listing = [v \in Viewers |-> {}]
  /\ subs = [v \in Viewers |-> {}]
  /\ seen = [v \in Viewers |-> [i \in Ids |-> 0]]
  /\ prev = [v \in Viewers |-> [i \in Ids |-> None]]
  /\ count = [v \in Viewers |-> [i \in Ids |-> 0]]
  /\ recovery = [v \in Viewers |-> {}]
  /\ hand = [v \in Viewers |-> None]
  /\ screen = [v \in Viewers |-> [k \in Indices |-> Blank]]
  /\ shown = [v \in Viewers |-> [i \in Ids |-> 0]]
  /\ deltas = [v \in Viewers |-> [i \in Ids |-> 0]]

HubStep == \E i \in Ids : \/ Register(i) \/ Unregister(i)
                          \/ \E pic \in Pictures : PushFrame(i, pic)

OpenStep(v) == OpenInstance(v) \/ OpenDashboard(v)

SetupStep(v) ==
  \/ LockCache(v) \/ ReplayEnds(v) \/ SubscribeEnds(v)
  \/ \E i \in Ids : Replay(v, i) \/ Subscribe(v, i)

FrameStep(v) ==
  \/ \E i \in Ids : TakeFrame(v, i)
  \/ CacheKeyframe(v) \/ Deliver(v) \/ Drop(v) \/ StreamEnds(v)

Next ==
  \/ HubStep
  \/ \E v \in Viewers : \/ OpenStep(v) \/ SetupStep(v) \/ FrameStep(v)
                        \/ SendFails(v) \/ RequestKeyframe(v)

Spec == Init /\ [][Next]_vars

\* A live viewer's handler is scheduled, and its sends end: the peer reads, or
\* is found gone.  Nothing is said of a viewer that is connecting: its sends
\* have no timeout and hold the cache's read lock for as long as they take.
Fairness == \A v \in Viewers : WF_vars(FrameStep(v))

FairSpec == Spec /\ Fairness

-----------------------------------------------------------------------------
(* Properties                                                               *)

\* What can be painted at an index.
Canvases == [id : Ids \cup {None}, pic : [Tiles -> Colours \cup {None}]]

TypeOK ==
  /\ channel \in [Ids -> {"none", "open", "dropped"}]
  /\ seq \in [Ids -> 0 .. MaxFrames]
  /\ latest \in [Ids -> Frames \cup {None}]
  /\ cache \in [Ids -> Keyframes \cup {None}]
  /\ vpc \in [Viewers -> Vpcs]
  /\ todo \in [Viewers -> SUBSET Ids] /\ listing \in [Viewers -> SUBSET Ids]
  /\ subs \in [Viewers -> SUBSET Ids] /\ recovery \in [Viewers -> SUBSET Ids]
  /\ seen \in [Viewers -> [Ids -> 0 .. MaxFrames]]
  /\ prev \in [Viewers -> [Ids -> Frames \cup {None}]]
  /\ count \in [Viewers -> [Ids -> 0 .. CountMod - 1]]
  /\ hand \in [Viewers -> [msg : Messages, frame : Frames] \cup {None}]
  /\ screen \in [Viewers -> [Indices -> Canvases]]
  /\ shown \in [Viewers -> [Ids -> 0 .. MaxFrames]]
  /\ deltas \in [Viewers -> [Ids -> Nat]]

\* The frame the server takes a delta against is what the viewer shows, whole
\* and at that instance's index, through dropped messages, recovery, skipped
\* frames and whatever was replayed from the shared cache before.
ScreenIsDeltaBase ==
  \A v \in Viewers, i \in Ids :
    prev[v][i] # None
    => screen[v][Place(v, i)] = [id |-> i, pic |-> prev[v][i].pic]

\* No viewer shows an older picture of an instance after a newer one, although
\* the cached keyframe it starts from was produced for another viewer.
NeverBackwards ==
  [][\A v \in Viewers, i \in Ids : shown'[v][i] >= shown[v][i]]_vars

\* README.md:50 "Frames between forced keyframes": whatever is dropped, skipped
\* or wraps, fewer deltas in a row than the interval, and one more only if the
\* u32 wraps just past the end of a period.
KeyframesRecur ==
  \A v \in Viewers, i \in Ids :
    IF CountMod % Interval = 1 THEN deltas[v][i] <= Interval ELSE deltas[v][i] < Interval

\* No connecting viewer stops reading for good while its cached keyframes are
\* sent to it under the lock.
LockReleased == \A w \in Viewers : []<>(vpc[w] # "replaying")

\* A viewer gets on with the newest frame, or ends, unless a connecting viewer
\* holds the lock for good: nothing else stands in the way of its keyframes.
NewestFrameTaken ==
  LockReleased =>
    \A v \in Viewers, i \in Ids :
      (vpc[v] \in {"live", "caching", "sending"} /\ HasNew(v, i))
      ~> (~HasNew(v, i) \/ vpc[v] = "closed")

\* The stream of a destroyed instance ends, unless a connecting viewer holds for
\* good the lock that its last keyframe needs.
OrphanedStreamEnds ==
  LockReleased =>
    \A v \in Viewers \ Dashboards :
      (vpc[v] = "live" /\ channel[Home[v]] = "dropped") ~> vpc[v] = "closed"

\* docs/stream-protocol.md:7 "receives the latest cached keyframe for each
\* instance immediately after connecting", at the instance index its envelope
\* carries: what a dashboard shows at an index is the instance of that index.
TileShowsItsInstance ==
  \A v \in Dashboards, i \in Ids :
    i \in listing[v] => screen[v][Place(v, i)].id \in {None, i}
=============================================================================
