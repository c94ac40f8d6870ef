-------------------------- MODULE FrameStreamProofs -------------------------
(***************************************************************************)
(* Proofs about FrameStream, for any instances, viewers, tiles and         *)
(* keyframe interval above 1: the types of its state, how often keyframes  *)
(* recur, that a delta is taken against what its viewer shows, and that no *)
(* viewer goes back to an older picture.                                   *)
(***************************************************************************)
EXTENDS FrameStream, Integers, FiniteSetTheorems, TLAPS

-----------------------------------------------------------------------------
(* Places on the page                                                       *)

Rank(L, i) == Cardinality({j \in L : j < i})

LEMMA RankIsIndex ==
  ASSUME NEW L \in SUBSET Ids, NEW i \in Ids
  PROVE  Rank(L, i) \in Indices /\ 0 \in Indices
<1> DEFINE J == {j \in L : j < i}
<1>1. /\ IsFiniteSet(Ids) /\ Cardinality(Ids) \in Nat /\ Cardinality(Ids) # 0
      /\ Ids \subseteq Nat
  BY IdsAssumption, FS_CardinalityType, FS_EmptySet
<1>2. J \in SUBSET Ids /\ i \notin J
  <2>1. i \in Nat
    BY <1>1
  <2>2. J \in SUBSET Ids
    OBVIOUS
  <2>3. i \notin J
    BY <2>1
  <2> QED
    BY <2>2, <2>3
<1>3. IsFiniteSet(J) /\ Cardinality(J) <= Cardinality(Ids) /\ Cardinality(J) # Cardinality(Ids)
  BY <1>1, <1>2, FS_Subset
<1>4. Cardinality(J) \in Nat
  BY <1>3, FS_CardinalityType
<1> QED
  BY <1>1, <1>3, <1>4 DEF Rank, Indices

LEMMA RankGrows ==
  ASSUME NEW L \in SUBSET Ids, NEW i \in L, NEW k \in L, i < k
  PROVE  Rank(L, i) # Rank(L, k)
<1> DEFINE I == {j \in L : j < i}
           K == {j \in L : j < k}
<1>1. IsFiniteSet(Ids) /\ Ids \subseteq Nat
  BY IdsAssumption
<1>2. I \in SUBSET K /\ K \in SUBSET Ids /\ i \in K /\ i \notin I
  <2>1. i \in Nat /\ k \in Nat /\ \A j \in L : j \in Nat
    BY <1>1
  <2>2. I \in SUBSET K /\ i \in K
    <3>1. \A j \in L : j < i => j < k
      BY <2>1
    <3> QED
      BY <3>1
  <2>3. i \notin I
    BY <2>1
  <2>4. K \in SUBSET Ids
    OBVIOUS
  <2> QED
    BY <2>2, <2>3, <2>4
<1>3. IsFiniteSet(K)
  BY <1>1, <1>2, FS_Subset
<1>4. Cardinality(I) # Cardinality(K)
  BY <1>2, <1>3, FS_Subset
<1> QED
  BY <1>4 DEF Rank

\* What a handler was given and subscribed to.
Subscriptions ==
  \A v \in Viewers :
    /\ subs[v] \subseteq listing[v] /\ todo[v] \subseteq listing[v]
    /\ v \notin Dashboards => listing[v] \subseteq {Home[v]}
    /\ vpc[v] = "idle" => subs[v] = {} /\ todo[v] = {}

LEMMA PlaceIsIndex ==
  ASSUME TypeOK
  PROVE  \A v \in Viewers, i \in Ids : Place(v, i) \in Indices
  BY RankIsIndex DEF TypeOK, Place, Rank

\* Two instances of one viewer have two places.
LEMMA PlacesDiffer ==
  ASSUME TypeOK, Subscriptions
  PROVE  \A v \in Viewers : \A i, k \in subs[v] : i # k => Place(v, i) # Place(v, k)
<1> SUFFICES ASSUME NEW v \in Viewers, NEW i \in subs[v], NEW k \in subs[v], i # k
             PROVE  Place(v, i) # Place(v, k)
  OBVIOUS
<1>1. /\ listing[v] \in SUBSET Ids /\ Ids \subseteq Nat
      /\ i \in listing[v] /\ k \in listing[v]
  BY IdsAssumption DEF TypeOK, Subscriptions
<1>2. v \in Dashboards
  BY <1>1 DEF Subscriptions
<1>3. i < k \/ k < i
  <2>1. i \in Nat /\ k \in Nat
    BY <1>1
  <2> QED
    BY <2>1
<1>4. Rank(listing[v], i) # Rank(listing[v], k)
  BY <1>1, <1>3, RankGrows
<1> QED
  BY <1>2, <1>4 DEF Place, Rank

-----------------------------------------------------------------------------
(* Types                                                                    *)

\* A handler that sends has a frame in hand.
HandHeld ==
  \A v \in Viewers : vpc[v] \in {"caching", "sending"}
    => /\ hand[v] \in [msg : Messages, frame : Frames]
       /\ hand[v].msg.index = Place(v, hand[v].msg.id)
       /\ vpc[v] = "caching" => hand[v].msg \in Keyframes

TypeInv == TypeOK /\ HandHeld

LEMMA TypeInit == Init => TypeInv
<1> SUFFICES ASSUME Init PROVE TypeInv
  OBVIOUS
<1>1. 0 \in 0 .. MaxFrames /\ 0 \in 0 .. CountMod - 1 /\ 0 \in Nat
  BY NumbersAssumption
<1>2. Blank \in Canvases
  BY DEF Blank, Canvases
<1>3. HandHeld
  BY DEF Init, HandHeld
<1>4. TypeOK
  BY <1>1, <1>2 DEF Init, TypeOK, Vpcs
<1> QED
  BY <1>3, <1>4 DEF TypeInv

\* What a message paints is a canvas.
LEMMA PaintedIsCanvas ==
  \A m \in Messages, old \in Canvases : Painted(m, old) \in Canvases
<1> SUFFICES ASSUME NEW m \in Messages, NEW old \in Canvases
             PROVE  Painted(m, old) \in Canvases
  OBVIOUS
<1>1. \A t \in DOMAIN m.tiles : m.tiles[t] \in Colours
  BY DEF Messages, TileSets
<1>2. m.id \in Ids /\ old.pic \in [Tiles -> Colours \cup {None}]
  BY DEF Messages, Canvases
<1> QED
  BY <1>1, <1>2 DEF Painted, Canvases

LEMMA SentTypes ==
  ASSUME TypeInv, NEW v \in Viewers, NEW m \in Messages, Sent(v, m)
  PROVE  /\ screen' \in [Viewers -> [Indices -> Canvases]]
         /\ shown' \in [Viewers -> [Ids -> 0 .. MaxFrames]]
<1>1. /\ screen \in [Viewers -> [Indices -> Canvases]]
      /\ shown \in [Viewers -> [Ids -> 0 .. MaxFrames]]
      /\ m.index \in Indices /\ m.id \in Ids /\ m.seq \in 0 .. MaxFrames
  BY NumbersAssumption DEF TypeInv, TypeOK, Messages
<1>2. Painted(m, screen[v][m.index]) \in Canvases
  BY <1>1, PaintedIsCanvas
<1> QED
  BY <1>1, <1>2 DEF Sent

\* A frame that has not been seen is a frame.
LEMMA NewFrame ==
  ASSUME TypeInv, NEW v \in Viewers, NEW i \in Ids, HasNew(v, i)
  PROVE  /\ latest[i] \in Frames /\ latest[i] # None /\ i \in subs[v]
         /\ LatestSeq(i) = latest[i].seq /\ LatestSeq(i) > seen[v][i]
<1>1. /\ latest[i] \in Frames \cup {None} /\ seen[v][i] \in 0 .. MaxFrames
  BY DEF TypeInv, TypeOK
<1> QED
  BY <1>1 DEF HasNew, LatestSeq

\* What is encoded is a message: all tiles, or those that differ.
LEMMA EncodedIsMessage ==
  ASSUME TypeInv, NEW v \in Viewers, NEW i \in Ids, HasNew(v, i), NEW n \in Nat
  PROVE  LET m == Encoded(v, i, n) IN
         /\ m \in Messages /\ m.id = i /\ m.index = Place(v, i) /\ m.seq = latest[i].seq
         /\ m.kind = "keyframe" => m \in Keyframes
<1> DEFINE m == Encoded(v, i, n)
           key == Forced(v, i, n) \/ prev[v][i] = None
           T == IF key THEN Tiles ELSE Changed(prev[v][i].pic, latest[i].pic)
<1>1. latest[i] \in Frames
  BY NewFrame
<1>2. T \in SUBSET Tiles
  BY DEF Changed
<1>3. latest[i].pic \in [Tiles -> Colours] /\ latest[i].seq \in 1 .. MaxFrames
  BY <1>1 DEF Frames, Pictures
<1>4. [t \in T |-> latest[i].pic[t]] \in TileSets
  BY <1>2, <1>3 DEF TileSets
<1>5. Place(v, i) \in Indices
  BY PlaceIsIndex DEF TypeInv
<1>6. /\ m.id = i /\ m.index = Place(v, i) /\ m.seq = latest[i].seq
      /\ m.kind = IF key THEN "keyframe" ELSE "delta"
      /\ m.tiles = [t \in T |-> latest[i].pic[t]]
  BY DEF Encoded
<1>7. m \in Messages
  BY <1>3, <1>4, <1>5 DEF Encoded, Messages
<1>8. m.kind = "keyframe" => DOMAIN m.tiles = Tiles
  BY <1>6
<1> HIDE DEF m
<1>9. m.kind = "keyframe" => m \in Keyframes
  BY <1>7, <1>8 DEF Keyframes
<1> QED
  BY <1>6, <1>7, <1>9 DEF m

\* A step that holds no new frame and leaves the listing keeps HandHeld.
LEMMA HandKept ==
  ASSUME TypeInv, UNCHANGED listing,
         \A v \in Viewers : vpc'[v] \in {"caching", "sending"}
           => /\ hand'[v] = hand[v] /\ vpc[v] \in {"caching", "sending"}
              /\ vpc'[v] = "caching" => vpc[v] = "caching"
  PROVE  HandHeld'
  BY DEF TypeInv, HandHeld, Place

LEMMA TypeStep ==
  ASSUME TypeInv, [Next]_vars
  PROVE  TypeInv'
<1> USE NumbersAssumption
    DEF ViewerGoto, hubVars, encodeVars, viewVars, setupVars
<1>1. ASSUME NEW i \in Ids, Register(i) \/ Unregister(i)
      PROVE  TypeInv'
  <2>1. HandHeld'
    BY <1>1, HandKept DEF Register, Unregister
  <2>2. channel' \in [Ids -> {"none", "open", "dropped"}]
    BY <1>1 DEF Register, Unregister, TypeInv, TypeOK
  <2>3. seq' \in [Ids -> 0 .. MaxFrames]
    <3>1. seq' = [seq EXCEPT ![i] = 0] /\ 0 \in 0 .. MaxFrames
      BY <1>1 DEF Register, Unregister
    <3> QED
      BY <3>1 DEF TypeInv, TypeOK
  <2> QED
    BY <1>1, <2>1, <2>2, <2>3 DEF Register, Unregister, TypeInv, TypeOK
<1>2. ASSUME NEW i \in Ids, NEW pic \in Pictures, PushFrame(i, pic)
      PROVE  TypeInv'
  <2>1. HandHeld'
    BY <1>2, HandKept DEF PushFrame
  <2>2. seq[i] + 1 \in 1 .. MaxFrames
    BY <1>2 DEF PushFrame, TypeInv, TypeOK
  <2>3. [seq |-> seq[i] + 1, pic |-> pic] \in Frames
    BY <2>2 DEF Frames
  <2>4. seq' \in [Ids -> 0 .. MaxFrames] /\ latest' \in [Ids -> Frames \cup {None}]
    BY <1>2, <2>2, <2>3 DEF PushFrame, TypeInv, TypeOK
  <2> QED
    BY <1>2, <2>1, <2>4 DEF PushFrame, TypeInv, TypeOK
<1>3. ASSUME NEW v \in Viewers, NEW i \in Ids, Subscribed(v, i)
      PROVE  /\ subs' \in [Viewers -> SUBSET Ids]
             /\ seen' \in [Viewers -> [Ids -> 0 .. MaxFrames]]
  <2>1. LatestSeq(i) \in 0 .. MaxFrames
    BY DEF LatestSeq, TypeInv, TypeOK, Frames
  <2> QED
    BY <1>3, <2>1 DEF Subscribed, TypeInv, TypeOK
<1>4. ASSUME NEW v \in Viewers, OpenStep(v)
      PROVE  TypeInv'
  <2>1. /\ vpc[v] = "idle"
        /\ \/ vpc' = [vpc EXCEPT ![v] = "opening"]
           \/ vpc' = [vpc EXCEPT ![v] = "refused"]
        /\ \E L \in SUBSET Ids : listing' = [listing EXCEPT ![v] = L]
        /\ UNCHANGED hand
    BY <1>4, ViewersAssumption DEF OpenStep, OpenInstance, OpenDashboard, registered
  <2>2. HandHeld'
    <3> SUFFICES ASSUME NEW w \in Viewers, vpc'[w] \in {"caching", "sending"}
                 PROVE  /\ hand[w] \in [msg : Messages, frame : Frames]
                        /\ hand[w].msg.index = Place(w, hand[w].msg.id)'
                        /\ vpc'[w] = "caching" => hand[w].msg \in Keyframes
      BY <2>1 DEF HandHeld
    <3>1. w # v /\ vpc'[w] = vpc[w] /\ listing'[w] = listing[w]
      BY <2>1 DEF TypeInv, TypeOK
    <3>2. Place(w, hand[w].msg.id)' = Place(w, hand[w].msg.id)
      BY <2>1, <3>1 DEF Place
    <3> QED
      BY <3>1, <3>2 DEF TypeInv, HandHeld
  <2>3. vpc' \in [Viewers -> Vpcs] /\ listing' \in [Viewers -> SUBSET Ids]
    <3>1. vpc \in [Viewers -> Vpcs] /\ listing \in [Viewers -> SUBSET Ids]
      BY DEF TypeInv, TypeOK
    <3>2. listing' \in [Viewers -> SUBSET Ids]
      BY <2>1, <3>1
    <3> QED
      BY <2>1, <3>1, <3>2 DEF Vpcs
  <2>4. /\ subs' \in [Viewers -> SUBSET Ids]
        /\ seen' \in [Viewers -> [Ids -> 0 .. MaxFrames]]
    <3>1. CASE UNCHANGED <<subs, seen>>
      BY <3>1 DEF TypeInv, TypeOK
    <3>2. CASE v \notin Dashboards /\ Subscribed(v, Home[v])
      BY <1>3, <3>2, ViewersAssumption
    <3> QED
      BY <1>4, <3>1, <3>2 DEF OpenStep, OpenInstance, OpenDashboard
  <2>5. UNCHANGED <<hubVars, cache, todo, encodeVars, hand, viewVars>>
    BY <1>4 DEF OpenStep, OpenInstance, OpenDashboard
  <2> QED
    BY <2>2, <2>3, <2>4, <2>5 DEF TypeInv, TypeOK
<1>5. ASSUME NEW v \in Viewers, LockCache(v) \/ ReplayEnds(v) \/ SubscribeEnds(v)
      PROVE  TypeInv'
  <2>1. HandHeld'
    BY <1>5, HandKept DEF LockCache, ReplayEnds, SubscribeEnds, TypeInv, TypeOK
  <2>2. vpc' \in [Viewers -> Vpcs] /\ todo' \in [Viewers -> SUBSET Ids]
    <3>1. /\ vpc \in [Viewers -> Vpcs] /\ todo \in [Viewers -> SUBSET Ids]
          /\ listing \in [Viewers -> SUBSET Ids]
      BY DEF TypeInv, TypeOK
    <3>2. \E pc \in Vpcs : vpc' = [vpc EXCEPT ![v] = pc]
      BY <1>5 DEF LockCache, ReplayEnds, SubscribeEnds, Vpcs
    <3>3. todo' = [todo EXCEPT ![v] = listing[v]] \/ UNCHANGED todo
      BY <1>5 DEF LockCache, ReplayEnds, SubscribeEnds
    <3> QED
      BY <3>1, <3>2, <3>3
  <2> QED
    BY <1>5, <2>1, <2>2 DEF LockCache, ReplayEnds, SubscribeEnds, TypeInv, TypeOK
<1>6. ASSUME NEW v \in Viewers, NEW i \in Ids, Replay(v, i)
      PROVE  TypeInv'
  <2>1. HandHeld'
    BY <1>6, HandKept DEF Replay
  <2>2. todo' \in [Viewers -> SUBSET Ids]
    BY <1>6 DEF Replay, TypeInv, TypeOK
  <2>3. /\ screen' \in [Viewers -> [Indices -> Canvases]]
        /\ shown' \in [Viewers -> [Ids -> 0 .. MaxFrames]]
    <3>1. CASE UNCHANGED viewVars
      BY <3>1 DEF TypeInv, TypeOK
    <3>2. CASE cache[i] # None /\ Sent(v, cache[i])
      <4>1. cache[i] \in Messages
        BY <3>2 DEF TypeInv, TypeOK, Keyframes
      <4> QED
        BY <3>2, <4>1, SentTypes
    <3> QED
      BY <1>6, <3>1, <3>2 DEF Replay
  <2> QED
    BY <1>6, <2>1, <2>2, <2>3 DEF Replay, TypeInv, TypeOK
<1>7. ASSUME NEW v \in Viewers, NEW i \in Ids, Subscribe(v, i)
      PROVE  TypeInv'
  <2>1. HandHeld'
    BY <1>7, HandKept DEF Subscribe
  <2>2. todo' \in [Viewers -> SUBSET Ids]
    BY <1>7 DEF Subscribe, TypeInv, TypeOK
  <2>3. /\ subs' \in [Viewers -> SUBSET Ids]
        /\ seen' \in [Viewers -> [Ids -> 0 .. MaxFrames]]
    BY <1>3, <1>7 DEF Subscribe, TypeInv, TypeOK
  <2> QED
    BY <1>7, <2>1, <2>2, <2>3 DEF Subscribe, TypeInv, TypeOK
<1>8. ASSUME NEW v \in Viewers, NEW i \in Ids, TakeFrame(v, i)
      PROVE  TypeInv'
  <2> DEFINE n == (count[v][i] + 1) % CountMod
             m == Encoded(v, i, n)
  <2>1. n \in 0 .. CountMod - 1 /\ n \in Nat
    <3>1. count[v][i] \in Nat /\ CountMod \in Nat \ {0}
      BY DEF TypeInv, TypeOK
    <3> QED
      BY <3>1
  <2>2. /\ latest[i] \in Frames /\ m \in Messages /\ m.id = i /\ m.index = Place(v, i)
        /\ m.kind = "keyframe" => m \in Keyframes
    BY <1>8, <2>1, NewFrame, EncodedIsMessage DEF TakeFrame
  <2>3. /\ count' = [count EXCEPT ![v][i] = n]
        /\ hand' = [hand EXCEPT ![v] = [msg |-> m, frame |-> latest[i]]]
        /\ deltas' = [deltas EXCEPT ![v][i] = IF m.kind = "keyframe" THEN 0 ELSE @ + 1]
        /\ vpc' = [vpc EXCEPT ![v] = IF m.kind = "keyframe" THEN "caching" ELSE "sending"]
        /\ seen' = [seen EXCEPT ![v][i] = LatestSeq(i)]
        /\ UNCHANGED <<hubVars, cache, setupVars, prev, recovery, viewVars>>
    BY <1>8 DEF TakeFrame, Cacheable
  <2> HIDE DEF m, n
  <2>4. LatestSeq(i) \in 0 .. MaxFrames
    BY DEF LatestSeq, TypeInv, TypeOK, Frames
  <2>5. /\ count' \in [Viewers -> [Ids -> 0 .. CountMod - 1]]
        /\ seen' \in [Viewers -> [Ids -> 0 .. MaxFrames]]
        /\ deltas' \in [Viewers -> [Ids -> Nat]]
    BY <2>1, <2>3, <2>4 DEF TypeInv, TypeOK
  <2>6. [msg |-> m, frame |-> latest[i]] \in [msg : Messages, frame : Frames]
    BY <2>2
  <2>7. /\ hand' \in [Viewers -> [msg : Messages, frame : Frames] \cup {None}]
        /\ vpc' \in [Viewers -> Vpcs]
    BY <2>3, <2>6 DEF TypeInv, TypeOK, Vpcs
  <2>8. HandHeld'
    <3> SUFFICES ASSUME NEW w \in Viewers, vpc'[w] \in {"caching", "sending"}
                 PROVE  /\ hand'[w] \in [msg : Messages, frame : Frames]
                        /\ hand'[w].msg.index = Place(w, hand[w].msg.id)'
                        /\ vpc'[w] = "caching" => hand'[w].msg \in Keyframes
      BY DEF HandHeld
    <3>1. \A j \in Ids : Place(w, j)' = Place(w, j)
      BY <2>3 DEF Place
    <3>2. CASE w = v
      <4>1. /\ hand'[v] = [msg |-> m, frame |-> latest[i]]
            /\ vpc'[v] = "caching" => m.kind = "keyframe"
        BY <2>3 DEF TypeInv, TypeOK
      <4> QED
        BY <2>2, <2>6, <3>1, <3>2, <4>1
    <3>3. CASE w # v
      <4>1. hand'[w] = hand[w] /\ vpc'[w] = vpc[w]
        BY <2>3, <3>3 DEF TypeInv, TypeOK
      <4>2. hand[w].msg.id \in Ids
        BY <4>1 DEF TypeInv, HandHeld, Messages
      <4> QED
        BY <3>1, <4>1, <4>2 DEF TypeInv, HandHeld
    <3> QED
      BY <3>2, <3>3
  <2> QED
    BY <2>3, <2>5, <2>7, <2>8 DEF TypeInv, TypeOK
<1>9. ASSUME NEW v \in Viewers, CacheKeyframe(v)
      PROVE  TypeInv'
  <2>1. HandHeld'
    BY <1>9, HandKept DEF CacheKeyframe, TypeInv, TypeOK
  <2>2. hand[v].msg \in Keyframes /\ hand[v].msg.id \in Ids
    BY <1>9 DEF CacheKeyframe, TypeInv, HandHeld, Messages
  <2>3. /\ cache' \in [Ids -> Keyframes \cup {None}]
        /\ recovery' \in [Viewers -> SUBSET Ids]
        /\ vpc' \in [Viewers -> Vpcs]
    BY <1>9, <2>2 DEF CacheKeyframe, TypeInv, TypeOK, Vpcs
  <2> QED
    BY <1>9, <2>1, <2>3 DEF CacheKeyframe, TypeInv, TypeOK
<1>10. ASSUME NEW v \in Viewers, Deliver(v)
       PROVE  TypeInv'
  <2>1. HandHeld'
    BY <1>10, HandKept DEF Deliver, TypeInv, TypeOK
  <2>2. hand[v].msg \in Messages /\ hand[v].frame \in Frames
    BY <1>10 DEF Deliver, TypeInv, HandHeld
  <2>3. /\ screen' \in [Viewers -> [Indices -> Canvases]]
        /\ shown' \in [Viewers -> [Ids -> 0 .. MaxFrames]]
    BY <1>10, <2>2, SentTypes DEF Deliver
  <2>4. /\ prev' \in [Viewers -> [Ids -> Frames \cup {None}]]
        /\ hand' \in [Viewers -> [msg : Messages, frame : Frames] \cup {None}]
        /\ vpc' \in [Viewers -> Vpcs]
    BY <1>10, <2>2 DEF Deliver, TypeInv, TypeOK, Vpcs
  <2> QED
    BY <1>10, <2>1, <2>3, <2>4 DEF Deliver, TypeInv, TypeOK
<1>11. ASSUME NEW v \in Viewers, Drop(v)
       PROVE  TypeInv'
  <2>1. HandHeld'
    BY <1>11, HandKept DEF Drop, TypeInv, TypeOK
  <2>2. hand[v].msg.id \in Ids
    BY <1>11 DEF Drop, TypeInv, HandHeld, Messages
  <2>3. /\ recovery' \in [Viewers -> SUBSET Ids]
        /\ hand' \in [Viewers -> [msg : Messages, frame : Frames] \cup {None}]
        /\ vpc' \in [Viewers -> Vpcs]
    BY <1>11, <2>2 DEF Drop, TypeInv, TypeOK, Vpcs
  <2> QED
    BY <1>11, <2>1, <2>3 DEF Drop, TypeInv, TypeOK
<1>12. ASSUME NEW v \in Viewers, SendFails(v)
       PROVE  TypeInv'
  <2>1. HandHeld'
    BY <1>12, HandKept DEF SendFails, TypeInv, TypeOK
  <2>2. /\ hand' \in [Viewers -> [msg : Messages, frame : Frames] \cup {None}]
        /\ vpc' \in [Viewers -> Vpcs]
    BY <1>12 DEF SendFails, TypeInv, TypeOK, Vpcs
  <2> QED
    BY <1>12, <2>1, <2>2 DEF SendFails, TypeInv, TypeOK
<1>13. ASSUME NEW v \in Viewers, StreamEnds(v)
       PROVE  TypeInv'
  <2>1. HandHeld'
    BY <1>13, HandKept DEF StreamEnds, TypeInv, TypeOK
  <2> QED
    BY <1>13, <2>1 DEF StreamEnds, TypeInv, TypeOK, Vpcs
<1>14. ASSUME NEW v \in Viewers, RequestKeyframe(v)
       PROVE  TypeInv'
  <2>1. HandHeld'
    BY <1>14, HandKept DEF RequestKeyframe
  <2> QED
    BY <1>14, <2>1 DEF RequestKeyframe, TypeInv, TypeOK
<1>15. CASE UNCHANGED vars
  <2>1. HandHeld'
    BY <1>15, HandKept DEF vars
  <2> QED
    BY <1>15, <2>1 DEF vars, TypeInv, TypeOK
<1> QED
  BY <1>1, <1>2, <1>4, <1>5, <1>6, <1>7, <1>8, <1>9, <1>10, <1>11, <1>12, <1>13, <1>14, <1>15
     DEF Next, HubStep, SetupStep, FrameStep

\* Hub, cache, handlers and screens keep their types; a handler past its
\* encoding has a frame in hand (broadcast.rs:139).
THEOREM StreamTypes == Spec => []TypeOK
<1>1. TypeInv => TypeOK
  BY DEF TypeInv
<1> QED
  BY <1>1, TypeInit, TypeStep, PTL DEF Spec
-----------------------------------------------------------------------------
(* Keyframes recur                                                          *)

\* How many deltas a viewer can have had when its count is n: none since the
\* last count of rest 1, unless the count has just wrapped.
MostDeltas(n) ==
  IF n = 0
  THEN IF CountMod % Interval = 1 THEN Interval ELSE Interval - 1
  ELSE IF n % Interval = 0 THEN Interval - 1 ELSE (n % Interval) - 1

RecurInv == \A v \in Viewers, i \in Ids : deltas[v][i] <= MostDeltas(count[v][i])

LEMMA NextRest ==
  ASSUME NEW n \in Nat, Interval > 1
  PROVE  /\ n % Interval \in 0 .. Interval - 1
         /\ (n + 1) % Interval = IF n % Interval = Interval - 1 THEN 0 ELSE (n % Interval) + 1
         /\ 0 % Interval = 0
  BY NumbersAssumption

\* Counting on, with a delta only where no keyframe is forced.
LEMMA MostDeltasStep ==
  ASSUME Interval > 1, NEW n \in 0 .. CountMod - 1, NEW d \in Nat, d <= MostDeltas(n),
         NEW e \in Nat,
         e = 0 \/ (e = d + 1 /\ ((n + 1) % CountMod) % Interval # 1)
  PROVE  e <= MostDeltas((n + 1) % CountMod)
<1>1. /\ n \in Nat /\ Interval \in Nat /\ CountMod \in Nat /\ CountMod > 1
      /\ CountMod % Interval \in Nat
  BY NumbersAssumption, NextRest
<1>2. CASE n + 1 < CountMod
  <2>1. (n + 1) % CountMod = n + 1
    BY <1>1, <1>2
  <2>2. /\ n % Interval \in 0 .. Interval - 1
        /\ (n + 1) % Interval = IF n % Interval = Interval - 1 THEN 0 ELSE (n % Interval) + 1
        /\ 0 % Interval = 0
    BY <1>1, NextRest
  <2>3. CASE n = 0
    BY <1>1, <2>1, <2>2, <2>3 DEF MostDeltas
  <2>4. CASE n # 0
    BY <1>1, <2>1, <2>2, <2>4 DEF MostDeltas
  <2> QED
    BY <2>3, <2>4
<1>3. CASE n + 1 = CountMod
  <2>1. (n + 1) % CountMod = 0
    BY <1>1, <1>3
  <2>2. /\ n % Interval \in 0 .. Interval - 1 /\ n # 0
        /\ CountMod % Interval = IF n % Interval = Interval - 1 THEN 0 ELSE (n % Interval) + 1
    BY <1>1, <1>3, NextRest
  <2> QED
    BY <1>1, <2>1, <2>2 DEF MostDeltas
<1> QED
  BY <1>1, <1>2, <1>3

LEMMA RecurInit ==
  ASSUME Interval > 1
  PROVE  Init => RecurInv
  BY NumbersAssumption DEF Init, RecurInv, MostDeltas

LEMMA RecurStep ==
  ASSUME Interval > 1, TypeInv, TypeInv', RecurInv, [Next]_vars
  PROVE  RecurInv'
<1>1. ASSUME UNCHANGED <<count, deltas>>
      PROVE  RecurInv'
  BY <1>1 DEF RecurInv
<1>2. ASSUME NEW v \in Viewers, NEW i \in Ids, TakeFrame(v, i)
      PROVE  RecurInv'
  <2> DEFINE n == (count[v][i] + 1) % CountMod
             m == Encoded(v, i, n)
  <2>1. /\ count' = [count EXCEPT ![v][i] = n]
        /\ deltas' = [deltas EXCEPT ![v][i] = IF m.kind = "keyframe" THEN 0 ELSE @ + 1]
    BY <1>2 DEF TakeFrame
  <2>2. m.kind = "keyframe" \/ n % Interval # 1
    BY DEF Encoded, Forced
  <2>3. /\ count[v][i] \in 0 .. CountMod - 1 /\ deltas[v][i] \in Nat
        /\ deltas[v][i] <= MostDeltas(count[v][i])
    BY DEF TypeInv, TypeOK, RecurInv
  <2> HIDE DEF m
  <2>4. deltas'[v][i] = IF m.kind = "keyframe" THEN 0 ELSE deltas[v][i] + 1
    BY <2>1 DEF TypeInv, TypeOK
  <2>5. deltas'[v][i] <= MostDeltas(n)
    <3>1. /\ deltas'[v][i] \in Nat
          /\ deltas'[v][i] = 0 \/ (deltas'[v][i] = deltas[v][i] + 1 /\ n % Interval # 1)
      BY <2>2, <2>3, <2>4
    <3> QED
      BY <2>3, <3>1, MostDeltasStep
  <2>6. count'[v][i] = n
    BY <2>1 DEF TypeInv, TypeOK
  <2>7. \A w \in Viewers, k \in Ids : w # v \/ k # i
          => count'[w][k] = count[w][k] /\ deltas'[w][k] = deltas[w][k]
    BY <2>1 DEF TypeInv, TypeOK
  <2> HIDE DEF n
  <2>8. ASSUME NEW w \in Viewers, NEW k \in Ids
        PROVE  deltas'[w][k] <= MostDeltas(count'[w][k])
    <3>1. CASE w = v /\ k = i
      BY <2>5, <2>6, <3>1
    <3>2. CASE w # v \/ k # i
      BY <2>7, <3>2 DEF RecurInv
    <3> QED
      BY <3>1, <3>2
  <2> QED
    BY <2>8 DEF RecurInv, MostDeltas
<1>3. ASSUME NEW i \in Ids, \/ Register(i) \/ Unregister(i)
                            \/ \E pic \in Pictures : PushFrame(i, pic)
      PROVE  RecurInv'
  BY <1>1, <1>3 DEF Register, Unregister, PushFrame, encodeVars
<1>4. ASSUME NEW v \in Viewers, OpenStep(v) \/ SetupStep(v)
      PROVE  RecurInv'
  BY <1>1, <1>4 DEF OpenStep, OpenInstance, OpenDashboard, SetupStep, LockCache, ReplayEnds,
                    SubscribeEnds, Replay, Subscribe, encodeVars
<1>5. ASSUME NEW v \in Viewers, \/ CacheKeyframe(v) \/ Deliver(v) \/ Drop(v) \/ StreamEnds(v)
                                \/ SendFails(v) \/ RequestKeyframe(v)
      PROVE  RecurInv'
  BY <1>1, <1>5 DEF CacheKeyframe, Deliver, Drop, StreamEnds, SendFails, RequestKeyframe,
                    encodeVars
<1>6. CASE UNCHANGED vars
  BY <1>1, <1>6 DEF vars, encodeVars
<1> QED
  BY <1>2, <1>3, <1>4, <1>5, <1>6 DEF Next, HubStep, FrameStep

\* For every interval above 1 and every width of the count, a viewer gets fewer
\* deltas in a row than the interval, or one more where the count wraps with
\* rest 1; for interval 1 this is false (broadcast.rs:147).
THEOREM KeyframesAlwaysRecur ==
  ASSUME Interval > 1
  PROVE  Spec => []KeyframesRecur
<1>1. TypeInv /\ RecurInv => KeyframesRecur
  <2> SUFFICES ASSUME TypeInv, RecurInv, NEW v \in Viewers, NEW i \in Ids
               PROVE  IF CountMod % Interval = 1 THEN deltas[v][i] <= Interval
                                                 ELSE deltas[v][i] < Interval
    BY DEF KeyframesRecur
  <2>1. /\ count[v][i] \in Nat /\ deltas[v][i] \in Nat /\ Interval \in Nat
        /\ deltas[v][i] <= MostDeltas(count[v][i])
    BY NumbersAssumption DEF TypeInv, TypeOK, RecurInv
  <2>2. count[v][i] % Interval \in 0 .. Interval - 1
    BY <2>1, NextRest
  <2> QED
    BY <2>1, <2>2 DEF MostDeltas
<1> QED
  BY <1>1, TypeInit, TypeStep, RecurInit, RecurStep, PTL DEF Spec
-----------------------------------------------------------------------------
(* The base of a delta                                                      *)

\* The states of a handler in its frame loop, or past it.
Streaming == {"live", "caching", "sending", "closed"}

BasesStreamed ==
  \A v \in Viewers, i \in Ids : prev[v][i] # None => i \in subs[v] /\ vpc[v] \in Streaming

\* Painting m over the base old gives the picture of f.
Completes(m, old, f) ==
  /\ \A t \in DOMAIN m.tiles : m.tiles[t] = f.pic[t]
  /\ \/ DOMAIN m.tiles = Tiles
     \/ old # None /\ DOMAIN m.tiles = Changed(old.pic, f.pic)

HandCompletes ==
  \A v \in Viewers : vpc[v] \in {"caching", "sending"}
    => /\ hand[v].msg.id \in subs[v]
       /\ Completes(hand[v].msg, prev[v][hand[v].msg.id], hand[v].frame)

ScreenInv == Subscriptions /\ BasesStreamed /\ HandCompletes /\ ScreenIsDeltaBase

LEMMA ScreenInit == Init => ScreenInv
  BY DEF Init, ScreenInv, Subscriptions, BasesStreamed, HandCompletes, ScreenIsDeltaBase

\* Steps that touch neither screens nor bases nor a handler's subscriptions.
KeepsScreen ==
  /\ UNCHANGED <<listing, subs, prev, screen>>
  /\ \A v \in Viewers :
       /\ todo'[v] \subseteq listing[v]
       /\ vpc'[v] = "idle" => vpc[v] = "idle" /\ todo'[v] = todo[v]
       /\ vpc[v] \in Streaming => vpc'[v] \in Streaming
       /\ vpc'[v] \in {"caching", "sending"}
          => vpc[v] \in {"caching", "sending"} /\ hand'[v] = hand[v]

LEMMA ScreenKept ==
  ASSUME ScreenInv, KeepsScreen
  PROVE  ScreenInv'
<1>1. \A v \in Viewers, i \in Ids : Place(v, i)' = Place(v, i)
  BY DEF KeepsScreen, Place
<1>2. Subscriptions' /\ BasesStreamed'
  BY DEF KeepsScreen, ScreenInv, Subscriptions, BasesStreamed
<1>3. HandCompletes'
  BY DEF KeepsScreen, ScreenInv, HandCompletes
<1>4. ScreenIsDeltaBase'
  BY <1>1 DEF KeepsScreen, ScreenInv, ScreenIsDeltaBase
<1> QED
  BY <1>2, <1>3, <1>4 DEF ScreenInv

\* Painting a completing message over the base gives the whole frame.
LEMMA CompletesPaints ==
  ASSUME NEW m \in Messages, NEW f \in Frames, NEW old \in Frames \cup {None}, NEW canvas,
         Completes(m, old, f), old # None => canvas.pic = old.pic
  PROVE  Painted(m, canvas) = [id |-> m.id, pic |-> f.pic]
<1>1. f.pic \in [Tiles -> Colours]
  BY DEF Frames, Pictures
<1>2. \A t \in Tiles : (IF t \in DOMAIN m.tiles THEN m.tiles[t] ELSE canvas.pic[t]) = f.pic[t]
  BY DEF Completes, Changed
<1>3. [t \in Tiles |-> IF t \in DOMAIN m.tiles THEN m.tiles[t] ELSE canvas.pic[t]] = f.pic
  BY <1>1, <1>2
<1> QED
  BY <1>3 DEF Painted

\* An encoded message completes its base.
LEMMA EncodedCompletes ==
  ASSUME NEW v \in Viewers, NEW i \in Ids, NEW n \in Nat
  PROVE  Completes(Encoded(v, i, n), prev[v][i], latest[i])
<1> DEFINE m == Encoded(v, i, n)
           key == Forced(v, i, n) \/ prev[v][i] = None
           T == IF key THEN Tiles ELSE Changed(prev[v][i].pic, latest[i].pic)
<1>1. m.tiles = [t \in T |-> latest[i].pic[t]]
  BY DEF Encoded
<1>2. DOMAIN m.tiles = T /\ \A t \in T : m.tiles[t] = latest[i].pic[t]
  BY <1>1
<1>3. T = Tiles \/ (prev[v][i] # None /\ T = Changed(prev[v][i].pic, latest[i].pic))
  OBVIOUS
<1> HIDE DEF m, T
<1>4. Completes(m, prev[v][i], latest[i])
  BY <1>2, <1>3 DEF Completes
<1> QED
  BY <1>4 DEF m

LEMMA ScreenStep ==
  ASSUME TypeInv, TypeInv', ScreenInv, [Next]_vars
  PROVE  ScreenInv'
<1> USE DEF ViewerGoto, hubVars, encodeVars, viewVars, setupVars
<1>1. ASSUME NEW i \in Ids, \/ Register(i) \/ Unregister(i)
                            \/ \E pic \in Pictures : PushFrame(i, pic)
      PROVE  ScreenInv'
  BY <1>1, ScreenKept
     DEF Register, Unregister, PushFrame, KeepsScreen, ScreenInv, Subscriptions
<1>2. ASSUME NEW v \in Viewers, OpenStep(v)
      PROVE  ScreenInv'
  <2>1. /\ vpc[v] = "idle"
        /\ vpc' = [vpc EXCEPT ![v] = "opening"] \/ vpc' = [vpc EXCEPT ![v] = "refused"]
        /\ UNCHANGED <<hand, prev, screen, todo>>
    BY <1>2 DEF OpenStep, OpenInstance, OpenDashboard
  <2>2. \A w \in Viewers \ {v} : /\ vpc'[w] = vpc[w] /\ listing'[w] = listing[w]
                                 /\ subs'[w] = subs[w]
    BY <1>2 DEF OpenStep, OpenInstance, OpenDashboard, Subscribed, TypeInv, TypeOK
  <2>3. vpc'[v] \notin Streaming \cup {"idle"} /\ \A i \in Ids : prev[v][i] = None
    <3>1. vpc'[v] = "opening" \/ vpc'[v] = "refused"
      BY <2>1 DEF TypeInv, TypeOK
    <3>2. vpc[v] \notin Streaming
      BY <2>1 DEF Streaming
    <3> QED
      BY <3>1, <3>2 DEF Streaming, ScreenInv, BasesStreamed
  <2>4. /\ todo[v] = {} /\ subs'[v] \subseteq listing'[v]
        /\ v \notin Dashboards => listing'[v] \subseteq {Home[v]}
    BY <1>2, <2>1
       DEF OpenStep, OpenInstance, OpenDashboard, Subscribed, ScreenInv, Subscriptions,
           TypeInv, TypeOK
  <2>5. ASSUME NEW w \in Viewers \ {v}
        PROVE  \A i \in Ids : Place(w, i)' = Place(w, i)
    BY <2>2, <2>5 DEF Place
  <2>6. Subscriptions'
    BY <2>1, <2>2, <2>3, <2>4 DEF ScreenInv, Subscriptions
  <2>7. BasesStreamed'
    BY <2>1, <2>2, <2>3 DEF ScreenInv, BasesStreamed
  <2>8. HandCompletes'
    BY <2>1, <2>2, <2>3 DEF ScreenInv, HandCompletes, Streaming
  <2>9. ScreenIsDeltaBase'
    BY <2>1, <2>3, <2>5 DEF ScreenInv, ScreenIsDeltaBase
  <2> QED
    BY <2>6, <2>7, <2>8, <2>9 DEF ScreenInv
<1>3. ASSUME NEW v \in Viewers, LockCache(v) \/ ReplayEnds(v) \/ SubscribeEnds(v)
      PROVE  ScreenInv'
  <2>1. KeepsScreen
    BY <1>3 DEF LockCache, ReplayEnds, SubscribeEnds, KeepsScreen, ScreenInv, Subscriptions,
                Streaming, TypeInv, TypeOK
  <2> QED
    BY <2>1, ScreenKept
<1>4. ASSUME NEW v \in Viewers, NEW i \in Ids, Replay(v, i)
      PROVE  ScreenInv'
  <2>1. /\ vpc[v] = "replaying" /\ todo' = [todo EXCEPT ![v] = @ \ {i}]
        /\ UNCHANGED <<vpc, listing, subs, prev, hand>>
        /\ \A w \in Viewers \ {v} : screen'[w] = screen[w]
    BY <1>4 DEF Replay, Sent, TypeInv, TypeOK
  <2>2. \A k \in Ids : prev[v][k] = None
    BY <2>1 DEF Streaming, ScreenInv, BasesStreamed
  <2>3. \A w \in Viewers, k \in Ids : Place(w, k)' = Place(w, k)
    BY <2>1 DEF Place
  <2>4. Subscriptions'
    BY <2>1 DEF ScreenInv, Subscriptions, TypeInv, TypeOK
  <2>5. BasesStreamed' /\ HandCompletes'
    BY <2>1 DEF ScreenInv, BasesStreamed, HandCompletes
  <2>6. ScreenIsDeltaBase'
    BY <2>1, <2>2, <2>3 DEF ScreenInv, ScreenIsDeltaBase
  <2> QED
    BY <2>4, <2>5, <2>6 DEF ScreenInv
<1>5. ASSUME NEW v \in Viewers, NEW i \in Ids, Subscribe(v, i)
      PROVE  ScreenInv'
  <2>1. /\ vpc[v] = "subscribing" /\ todo' = [todo EXCEPT ![v] = @ \ {i}] /\ i \in todo[v]
        /\ subs' = [subs EXCEPT ![v] = @ \cup {i}] \/ UNCHANGED subs
        /\ UNCHANGED <<vpc, listing, prev, hand, screen>>
    BY <1>5 DEF Subscribe, Subscribed, IsNext
  <2>2. \A w \in Viewers : subs[w] \subseteq subs'[w] /\ todo'[w] \subseteq todo[w]
    BY <2>1 DEF TypeInv, TypeOK
  <2>3. \A w \in Viewers, k \in Ids : Place(w, k)' = Place(w, k)
    BY <2>1 DEF Place
  <2>4. Subscriptions'
    <3>1. subs'[v] \subseteq listing[v] /\ \A w \in Viewers \ {v} : subs'[w] = subs[w]
      BY <2>1 DEF ScreenInv, Subscriptions, TypeInv, TypeOK
    <3>2. \A w \in Viewers \ {v} : todo'[w] = todo[w]
      BY <2>1 DEF TypeInv, TypeOK
    <3> QED
      BY <2>1, <2>2, <3>1, <3>2 DEF ScreenInv, Subscriptions
  <2>5. BasesStreamed' /\ HandCompletes'
    BY <2>1, <2>2 DEF ScreenInv, BasesStreamed, HandCompletes
  <2>6. ScreenIsDeltaBase'
    BY <2>1, <2>3 DEF ScreenInv, ScreenIsDeltaBase
  <2> QED
    BY <2>4, <2>5, <2>6 DEF ScreenInv
<1>6. ASSUME NEW v \in Viewers, NEW i \in Ids, TakeFrame(v, i)
      PROVE  ScreenInv'
  <2> DEFINE n == (count[v][i] + 1) % CountMod
             m == Encoded(v, i, n)
  <2>1. n \in Nat /\ i \in subs[v]
    <3>1. count[v][i] \in Nat /\ CountMod \in Nat \ {0}
      BY NumbersAssumption DEF TypeInv, TypeOK
    <3> QED
      BY <1>6, <3>1 DEF TakeFrame, HasNew
  <2>2. m.id = i
    BY DEF Encoded
  <2>3. Completes(m, prev[v][i], latest[i])
    BY <2>1, EncodedCompletes
  <2>4. /\ hand' = [hand EXCEPT ![v] = [msg |-> m, frame |-> latest[i]]]
        /\ UNCHANGED <<todo, listing, subs, prev, screen>>
        /\ vpc[v] = "live"
        /\ \/ vpc' = [vpc EXCEPT ![v] = "caching"]
           \/ vpc' = [vpc EXCEPT ![v] = "sending"]
    BY <1>6 DEF TakeFrame
  <2> HIDE DEF m, n
  <2>5. hand'[v].msg = m /\ hand'[v].frame = latest[i]
    BY <2>4 DEF TypeInv, TypeOK
  <2>6. \A w \in Viewers \ {v} : hand'[w] = hand[w] /\ vpc'[w] = vpc[w]
    BY <2>4 DEF TypeInv, TypeOK
  <2>7. \A w \in Viewers, k \in Ids : Place(w, k)' = Place(w, k)
    BY <2>4 DEF Place
  <2>8. Subscriptions' /\ BasesStreamed'
    <3>1. vpc'[v] \in {"caching", "sending"}
      BY <2>4 DEF TypeInv, TypeOK
    <3>2. vpc'[v] \in Streaming /\ vpc'[v] # "idle"
      BY <3>1 DEF Streaming
    <3>3. Subscriptions'
      BY <2>4, <2>6, <3>2 DEF ScreenInv, Subscriptions
    <3>4. BasesStreamed'
      BY <2>4, <2>6, <3>2 DEF ScreenInv, BasesStreamed
    <3> QED
      BY <3>3, <3>4
  <2>9. HandCompletes'
    BY <2>1, <2>2, <2>3, <2>4, <2>5, <2>6 DEF ScreenInv, HandCompletes
  <2>10. ScreenIsDeltaBase'
    BY <2>4, <2>7 DEF ScreenInv, ScreenIsDeltaBase
  <2> QED
    BY <2>8, <2>9, <2>10 DEF ScreenInv
<1>7. ASSUME NEW v \in Viewers, Deliver(v)
      PROVE  ScreenInv'
  <2> DEFINE m == hand[v].msg
             f == hand[v].frame
             x == Place(v, m.id)
  <2>1. /\ vpc[v] = "sending" /\ vpc' = [vpc EXCEPT ![v] = "live"]
        /\ screen' = [screen EXCEPT ![v][m.index] = Painted(m, screen[v][m.index])]
        /\ prev' = [prev EXCEPT ![v][m.id] = f]
        /\ hand' = [hand EXCEPT ![v] = None]
        /\ UNCHANGED <<todo, listing, subs>>
    BY <1>7 DEF Deliver, Sent
  <2>2. /\ m \in Messages /\ f \in Frames /\ m.index = x
        /\ m.id \in subs[v] /\ m.id \in Ids /\ Completes(m, prev[v][m.id], f)
        /\ prev[v][m.id] \in Frames \cup {None} /\ x \in Indices
    BY <2>1, PlaceIsIndex
       DEF TypeInv, TypeOK, HandHeld, ScreenInv, HandCompletes, Messages
  <2>3. prev[v][m.id] # None => screen[v][x].pic = prev[v][m.id].pic
    <3>1. ASSUME NEW i \in Ids, prev[v][i] # None
          PROVE  screen[v][Place(v, i)].pic = prev[v][i].pic
      <4>1. screen[v][Place(v, i)] = [id |-> i, pic |-> prev[v][i].pic]
        BY <3>1, Zenon DEF ScreenInv, ScreenIsDeltaBase
      <4> QED
        BY <4>1
    <3> QED
      BY <2>2, <3>1
  <2>4. Painted(m, screen[v][x]) = [id |-> m.id, pic |-> f.pic]
    BY <2>2, <2>3, CompletesPaints
  <2>5. \A k \in subs[v] : k # m.id => Place(v, k) # x
    BY <2>2, PlacesDiffer DEF ScreenInv, TypeInv
  <2> HIDE DEF m, f, x
  <2>6. /\ screen'[v][x] = [id |-> m.id, pic |-> f.pic] /\ prev'[v][m.id] = f
        /\ \A y \in Indices \ {x} : screen'[v][y] = screen[v][y]
        /\ \A k \in Ids \ {m.id} : prev'[v][k] = prev[v][k]
        /\ \A w \in Viewers \ {v} : screen'[w] = screen[w] /\ prev'[w] = prev[w]
    BY <2>1, <2>2, <2>4 DEF TypeInv, TypeOK
  <2>7. \A w \in Viewers \ {v} : hand'[w] = hand[w] /\ vpc'[w] = vpc[w]
    BY <2>1 DEF TypeInv, TypeOK
  <2>8. vpc'[v] = "live"
    BY <2>1 DEF TypeInv, TypeOK
  <2>9. Subscriptions'
    BY <2>1, <2>7, <2>8 DEF ScreenInv, Subscriptions
  <2>10. BasesStreamed'
    BY <2>1, <2>2, <2>6, <2>7, <2>8 DEF ScreenInv, BasesStreamed, Streaming
  <2>11. HandCompletes'
    BY <2>1, <2>6, <2>7, <2>8 DEF ScreenInv, HandCompletes
  <2>12. \A w \in Viewers, k \in Ids : Place(w, k)' = Place(w, k) /\ Place(w, k) \in Indices
    BY <2>1, PlaceIsIndex DEF Place, TypeInv
  <2>13. ASSUME NEW w \in Viewers, NEW k \in Ids, prev'[w][k] # None
         PROVE  screen'[w][Place(w, k)] = [id |-> k, pic |-> prev'[w][k].pic]
    <3>1. CASE w # v
      BY <2>6, <2>13, <3>1 DEF ScreenInv, ScreenIsDeltaBase
    <3>2. CASE w = v /\ k = m.id
      BY <2>6, <3>2 DEF x
    <3>3. CASE w = v /\ k # m.id
      <4>1. prev[v][k] # None /\ k \in subs[v]
        BY <2>6, <2>13, <3>3 DEF ScreenInv, BasesStreamed
      <4>2. Place(v, k) \in Indices \ {x}
        BY <2>5, <2>12, <3>3, <4>1 DEF m, x
      <4> QED
        BY <2>6, <3>3, <4>1, <4>2 DEF ScreenInv, ScreenIsDeltaBase
    <3> QED
      BY <3>1, <3>2, <3>3
  <2>14. ScreenIsDeltaBase'
    BY <2>12, <2>13 DEF ScreenIsDeltaBase
  <2> QED
    BY <2>9, <2>10, <2>11, <2>14 DEF ScreenInv
<1>8. ASSUME NEW v \in Viewers, \/ CacheKeyframe(v) \/ Drop(v) \/ SendFails(v)
                                \/ StreamEnds(v) \/ RequestKeyframe(v)
      PROVE  ScreenInv'
  <2>1. UNCHANGED <<listing, subs, prev, screen, todo>>
    BY <1>8 DEF CacheKeyframe, Drop, SendFails, StreamEnds, RequestKeyframe
  <2>2. \A w \in Viewers :
          /\ vpc'[w] = "idle" => vpc[w] = "idle"
          /\ vpc[w] \in Streaming => vpc'[w] \in Streaming
          /\ vpc'[w] \in {"caching", "sending"}
             => vpc[w] \in {"caching", "sending"} /\ hand'[w] = hand[w]
    BY <1>8 DEF CacheKeyframe, Drop, SendFails, StreamEnds, RequestKeyframe, Streaming,
                TypeInv, TypeOK
  <2>3. KeepsScreen
    BY <2>1, <2>2 DEF KeepsScreen, ScreenInv, Subscriptions
  <2> QED
    BY <2>3, ScreenKept
<1>9. CASE UNCHANGED vars
  BY <1>9, ScreenKept DEF vars, KeepsScreen, ScreenInv, Subscriptions
<1> QED
  BY <1>1, <1>2, <1>3, <1>4, <1>5, <1>6, <1>7, <1>8, <1>9
     DEF Next, HubStep, SetupStep, FrameStep

\* Through dropped messages, skipped frames, recovery and foreign keyframes a
\* delta is taken against what its viewer shows, whole and at the place of its
\* instance, however many instances and viewers there are (broadcast.rs:178).
THEOREM DeltasHaveTheirBase == Spec => []ScreenIsDeltaBase
<1>1. ScreenInv => ScreenIsDeltaBase
  BY DEF ScreenInv
<1> QED
  BY <1>1, TypeInit, TypeStep, ScreenInit, ScreenStep, PTL DEF Spec
-----------------------------------------------------------------------------
(* Pictures only get newer                                                  *)

SeqIsLatest ==
  \A i \in Ids : /\ channel[i] = "open" => seq[i] = LatestSeq(i)
                 /\ channel[i] = "none" => latest[i] = None

CacheBehind ==
  \A i \in Ids : cache[i] # None => cache[i].id = i /\ cache[i].seq <= LatestSeq(i)

\* Nothing of an instance is shown before its cached keyframe.
BlankStart ==
  \A v \in Viewers, i \in Ids :
    vpc[v] \in {"idle", "opening"} \/ (vpc[v] = "replaying" /\ i \in todo[v])
    => shown[v][i] = 0

ShownBehind == \A v \in Viewers, i \in Ids : shown[v][i] <= LatestSeq(i)

\* What a handler is about to send is no older than what it sent.
HandAhead ==
  \A v \in Viewers : vpc[v] \in {"caching", "sending"}
    => LET m == hand[v].msg IN shown[v][m.id] <= m.seq /\ m.seq <= LatestSeq(m.id)

ShownInv == SeqIsLatest /\ CacheBehind /\ BlankStart /\ ShownBehind /\ HandAhead

LEMMA LatestSeqType ==
  ASSUME TypeInv
  PROVE  \A i \in Ids : LatestSeq(i) \in 0 .. MaxFrames /\ LatestSeq(i) \in Nat
  BY NumbersAssumption DEF LatestSeq, TypeInv, TypeOK, Frames

LEMMA ShownInit == Init => ShownInv
  BY DEF Init, ShownInv, SeqIsLatest, CacheBehind, BlankStart, ShownBehind, HandAhead,
         LatestSeq

\* Only the hub changes what is latest, and only to something newer.
LEMMA LatestGrows ==
  ASSUME TypeInv, TypeInv', SeqIsLatest, [Next]_vars
  PROVE  SeqIsLatest' /\ \A i \in Ids : LatestSeq(i) <= LatestSeq(i)'
<1> USE DEF ViewerGoto, hubVars, encodeVars, viewVars, setupVars
<1>1. ASSUME UNCHANGED hubVars
      PROVE  SeqIsLatest' /\ \A i \in Ids : LatestSeq(i) <= LatestSeq(i)'
  <2>1. \A i \in Ids : LatestSeq(i)' = LatestSeq(i) /\ LatestSeq(i) \in Nat
    BY <1>1, LatestSeqType DEF LatestSeq
  <2>2. SeqIsLatest'
    BY <1>1, <2>1 DEF SeqIsLatest
  <2> QED
    BY <2>1, <2>2
<1>2. ASSUME NEW i \in Ids, Register(i) \/ Unregister(i)
      PROVE  SeqIsLatest' /\ \A k \in Ids : LatestSeq(k) <= LatestSeq(k)'
  <2>1. /\ UNCHANGED latest
        /\ \A k \in Ids : LatestSeq(k)' = LatestSeq(k) /\ LatestSeq(k) \in Nat
    BY <1>2, LatestSeqType DEF LatestSeq, Register, Unregister
  <2>2. /\ \A k \in Ids \ {i} : channel'[k] = channel[k] /\ seq'[k] = seq[k]
        /\ seq'[i] = 0 /\ channel'[i] # "none"
        /\ channel'[i] = "open" => channel[i] = "none"
    BY <1>2 DEF Register, Unregister, TypeInv, TypeOK
  <2>3. channel'[i] = "open" => LatestSeq(i) = 0
    BY <2>2 DEF SeqIsLatest, LatestSeq
  <2>4. SeqIsLatest'
    BY <2>1, <2>2, <2>3 DEF SeqIsLatest
  <2> QED
    BY <2>1, <2>4
<1>3. ASSUME NEW i \in Ids, NEW pic \in Pictures, PushFrame(i, pic)
      PROVE  SeqIsLatest' /\ \A k \in Ids : LatestSeq(k) <= LatestSeq(k)'
  <2>1. /\ UNCHANGED channel /\ seq' = [seq EXCEPT ![i] = @ + 1] /\ channel[i] # "none"
        /\ seq[i] \in Nat /\ seq[i] + 1 \in 1 .. MaxFrames
    BY <1>3, NumbersAssumption DEF PushFrame, registered, TypeInv, TypeOK
  <2>2. \A k \in Ids \ {i} : /\ seq'[k] = seq[k] /\ latest'[k] = latest[k]
                             /\ LatestSeq(k)' = LatestSeq(k) /\ LatestSeq(k) \in Nat
    BY <1>3, <2>1, LatestSeqType DEF PushFrame, LatestSeq, TypeInv, TypeOK
  <2>3. CASE channel[i] = "open"
    <3>1. latest'[i] = [seq |-> seq[i] + 1, pic |-> pic] /\ seq'[i] = seq[i] + 1
      BY <1>3, <2>1, <2>3 DEF PushFrame, registered, TypeInv, TypeOK
    <3>2. latest'[i] # None
      BY <2>1, <3>1, NoneAssumption DEF Frames
    <3>3. LatestSeq(i)' = seq[i] + 1 /\ LatestSeq(i) = seq[i]
      BY <2>3, <3>1, <3>2 DEF LatestSeq, SeqIsLatest
    <3>4. SeqIsLatest'
      BY <2>1, <2>2, <3>1, <3>3 DEF SeqIsLatest
    <3> QED
      BY <2>1, <2>2, <3>3, <3>4
  <2>4. CASE channel[i] # "open"
    <3>1. LatestSeq(i)' = LatestSeq(i) /\ LatestSeq(i) \in Nat
      BY <1>3, <2>4, LatestSeqType DEF PushFrame, registered, LatestSeq
    <3>2. SeqIsLatest'
      BY <2>1, <2>2, <2>4 DEF SeqIsLatest
    <3> QED
      BY <2>2, <3>1, <3>2
  <2> QED
    BY <2>3, <2>4
<1>4. ASSUME NEW v \in Viewers, OpenStep(v) \/ SetupStep(v)
      PROVE  UNCHANGED hubVars
  BY <1>4 DEF OpenStep, OpenInstance, OpenDashboard, SetupStep, LockCache, ReplayEnds,
              SubscribeEnds, Replay, Subscribe
<1>5. ASSUME NEW v \in Viewers, FrameStep(v) \/ SendFails(v) \/ RequestKeyframe(v)
      PROVE  UNCHANGED hubVars
  BY <1>5 DEF FrameStep, TakeFrame, CacheKeyframe, Deliver, Drop, StreamEnds, SendFails,
              RequestKeyframe
<1>6. CASE UNCHANGED vars
  BY <1>1, <1>6 DEF vars
<1> QED
  BY <1>1, <1>2, <1>3, <1>4, <1>5, <1>6 DEF Next, HubStep

NoneOlder == \A v \in Viewers, i \in Ids : shown'[v][i] >= shown[v][i]

\* Steps that send nothing, take no frame and put nothing in the cache.
KeepsShown ==
  /\ UNCHANGED shown
  /\ \A i \in Ids : cache'[i] = cache[i] \/ cache'[i] = None
  /\ \A v \in Viewers :
       /\ vpc'[v] \in {"idle", "opening"} => vpc[v] \in {"idle", "opening"}
       /\ vpc'[v] = "replaying"
          => vpc[v] = "opening" \/ (vpc[v] = "replaying" /\ todo'[v] \subseteq todo[v])
       /\ vpc'[v] \in {"caching", "sending"}
          => vpc[v] \in {"caching", "sending"} /\ hand'[v] = hand[v]

LEMMA ShownTypes ==
  ASSUME TypeInv
  PROVE  /\ \A v \in Viewers, i \in Ids : shown[v][i] \in Nat
         /\ \A i \in Ids : cache[i] # None => cache[i] \in Messages /\ cache[i].seq \in Nat
         /\ \A v \in Viewers : vpc[v] \in {"caching", "sending"}
              => /\ hand[v].msg \in Messages /\ hand[v].msg.id \in Ids
                 /\ hand[v].msg.seq \in Nat
<1>1. \A m \in Messages : m.id \in Ids /\ m.seq \in Nat
  BY NumbersAssumption DEF Messages
<1> QED
  BY <1>1, NumbersAssumption DEF TypeInv, TypeOK, HandHeld, Keyframes

LEMMA ShownKept ==
  ASSUME TypeInv, TypeInv', ShownInv, SeqIsLatest', KeepsShown,
         \A i \in Ids : LatestSeq(i) <= LatestSeq(i)'
  PROVE  ShownInv' /\ NoneOlder
<1>1. \A i \in Ids : LatestSeq(i) \in Nat /\ LatestSeq(i)' \in Nat
  BY LatestSeqType, NumbersAssumption DEF LatestSeq, TypeInv, TypeOK, Frames
<1>2. CacheBehind'
  BY <1>1, ShownTypes DEF KeepsShown, ShownInv, CacheBehind
<1>3. BlankStart'
  BY DEF KeepsShown, ShownInv, BlankStart
<1>4. ShownBehind' /\ NoneOlder
  BY <1>1, ShownTypes DEF KeepsShown, ShownInv, ShownBehind, NoneOlder
<1>5. HandAhead'
  <2> SUFFICES ASSUME NEW v \in Viewers, vpc'[v] \in {"caching", "sending"}
               PROVE  (LET m == hand[v].msg
                       IN shown[v][m.id] <= m.seq /\ m.seq <= LatestSeq(m.id))'
    BY DEF HandAhead
  <2> DEFINE m == hand[v].msg
  <2>1. vpc[v] \in {"caching", "sending"} /\ hand'[v] = hand[v] /\ UNCHANGED shown
    BY DEF KeepsShown
  <2>2. m.id \in Ids /\ m.seq \in Nat
    BY <2>1, ShownTypes
  <2>3. shown[v][m.id] <= m.seq /\ m.seq <= LatestSeq(m.id)
    BY <2>1 DEF ShownInv, HandAhead
  <2> QED
    BY <1>1, <2>1, <2>2, <2>3
<1> QED
  BY <1>2, <1>3, <1>4, <1>5 DEF ShownInv

\* Sending a message that is no older than what was sent before.
LEMMA ShownSent ==
  ASSUME TypeInv, TypeInv', ShownInv, UNCHANGED latest,
         NEW v \in Viewers, NEW m \in Messages, Sent(v, m),
         shown[v][m.id] <= m.seq, m.seq <= LatestSeq(m.id)
  PROVE  /\ NoneOlder /\ ShownBehind'
         /\ \A w \in Viewers, i \in Ids : w # v \/ i # m.id => shown'[w][i] = shown[w][i]
<1>1. m.id \in Ids /\ m.seq \in Nat /\ \A i \in Ids : LatestSeq(i)' = LatestSeq(i)
  BY NumbersAssumption DEF Messages, LatestSeq
<1>2. /\ shown'[v][m.id] = m.seq
      /\ \A w \in Viewers, i \in Ids : w # v \/ i # m.id => shown'[w][i] = shown[w][i]
  BY <1>1 DEF Sent, TypeInv, TypeOK
<1>3. ASSUME NEW w \in Viewers, NEW i \in Ids
      PROVE  shown'[w][i] >= shown[w][i] /\ shown'[w][i] <= LatestSeq(i)'
  <2>1. CASE w = v /\ i = m.id
    BY <1>1, <1>2, <2>1, ShownTypes
  <2>2. CASE w # v \/ i # m.id
    BY <1>1, <1>2, <2>2, ShownTypes DEF ShownInv, ShownBehind
  <2> QED
    BY <2>1, <2>2
<1>4. NoneOlder
  BY <1>3 DEF NoneOlder
<1>5. ShownBehind'
  BY <1>3 DEF ShownBehind, LatestSeq
<1> QED
  BY <1>2, <1>4, <1>5

LEMMA ShownStep ==
  ASSUME TypeInv, TypeInv', ShownInv, [Next]_vars
  PROVE  ShownInv' /\ NoneOlder
<1> USE DEF ViewerGoto, hubVars, encodeVars, viewVars, setupVars
<1>1. SeqIsLatest' /\ \A i \in Ids : LatestSeq(i) <= LatestSeq(i)'
  BY LatestGrows DEF ShownInv
<1>2. KeepsShown => ShownInv' /\ NoneOlder
  BY <1>1, ShownKept
<1>3. ASSUME NEW i \in Ids, \/ Register(i) \/ Unregister(i)
                            \/ \E pic \in Pictures : PushFrame(i, pic)
      PROVE  ShownInv' /\ NoneOlder
  BY <1>2, <1>3 DEF Register, Unregister, PushFrame, KeepsShown
<1>4. ASSUME NEW v \in Viewers,
             \/ OpenStep(v) \/ LockCache(v) \/ ReplayEnds(v) \/ SubscribeEnds(v)
             \/ \E i \in Ids : Subscribe(v, i)
      PROVE  ShownInv' /\ NoneOlder
  <2>1. UNCHANGED <<shown, cache, hand>>
    BY <1>4 DEF OpenStep, OpenInstance, OpenDashboard, LockCache, ReplayEnds, SubscribeEnds,
                Subscribe
  <2>2. /\ \A w \in Viewers \ {v} : vpc'[w] = vpc[w] /\ todo'[w] = todo[w]
        /\ vpc'[v] \notin {"idle", "replaying", "caching", "sending"}
           \/ (vpc'[v] = "replaying" /\ vpc[v] = "opening")
        /\ vpc'[v] = "opening" => vpc[v] = "idle"
    BY <1>4 DEF OpenStep, OpenInstance, OpenDashboard, LockCache, ReplayEnds, SubscribeEnds,
                Subscribe, TypeInv, TypeOK
  <2>3. KeepsShown
    BY <2>1, <2>2 DEF KeepsShown
  <2> QED
    BY <1>2, <2>3
<1>5. ASSUME NEW v \in Viewers, \/ Drop(v) \/ StreamEnds(v) \/ SendFails(v)
                                \/ RequestKeyframe(v)
      PROVE  ShownInv' /\ NoneOlder
  <2>1. UNCHANGED <<shown, todo>> /\ \A i \in Ids : cache'[i] = cache[i] \/ cache'[i] = None
    BY <1>5 DEF Drop, StreamEnds, SendFails, RequestKeyframe
  <2>2. \A w \in Viewers :
          \/ vpc'[w] = vpc[w] /\ hand'[w] = hand[w]
          \/ vpc'[w] \in {"live", "closed", "refused"}
    BY <1>5 DEF Drop, StreamEnds, SendFails, RequestKeyframe, TypeInv, TypeOK
  <2>3. KeepsShown
    BY <2>1, <2>2 DEF KeepsShown
  <2> QED
    BY <1>2, <2>3
<1>6. ASSUME NEW v \in Viewers, NEW i \in Ids, Replay(v, i)
      PROVE  ShownInv' /\ NoneOlder
  <2>1. /\ vpc[v] = "replaying" /\ i \in todo[v] /\ todo' = [todo EXCEPT ![v] = @ \ {i}]
        /\ UNCHANGED <<latest, cache, vpc, hand>>
        /\ UNCHANGED viewVars \/ (cache[i] # None /\ Sent(v, cache[i]))
    BY <1>6 DEF Replay, IsNext
  <2>2. CASE UNCHANGED viewVars
    <3>1. \A w \in Viewers : todo'[w] \subseteq todo[w]
      BY <2>1 DEF TypeInv, TypeOK
    <3> QED
      BY <1>2, <2>1, <2>2, <3>1 DEF KeepsShown
  <2>3. CASE cache[i] # None /\ Sent(v, cache[i])
    <3> DEFINE m == cache[i]
    <3>1. m \in Messages /\ m.seq \in Nat /\ m.id = i /\ m.seq <= LatestSeq(i)
      BY <2>3, ShownTypes DEF ShownInv, CacheBehind
    <3>2. shown[v][i] = 0
      BY <2>1 DEF ShownInv, BlankStart
    <3>3. /\ NoneOlder /\ ShownBehind'
          /\ \A w \in Viewers, k \in Ids : w # v \/ k # i => shown'[w][k] = shown[w][k]
      BY <2>1, <2>3, <3>1, <3>2, ShownSent
    <3>4. i \notin todo'[v] /\ \A w \in Viewers : todo'[w] \subseteq todo[w]
      BY <2>1 DEF TypeInv, TypeOK
    <3>5. BlankStart'
      BY <2>1, <3>3, <3>4 DEF ShownInv, BlankStart
    <3>6. HandAhead'
      BY <2>1, <3>3, ShownTypes DEF ShownInv, HandAhead, LatestSeq
    <3>7. CacheBehind'
      BY <2>1 DEF ShownInv, CacheBehind, LatestSeq
    <3> QED
      BY <1>1, <3>3, <3>5, <3>6, <3>7 DEF ShownInv
  <2> QED
    BY <2>1, <2>2, <2>3
<1>7. ASSUME NEW v \in Viewers, NEW i \in Ids, TakeFrame(v, i)
      PROVE  ShownInv' /\ NoneOlder
  <2> DEFINE n == (count[v][i] + 1) % CountMod
             m == Encoded(v, i, n)
  <2>1. /\ hand' = [hand EXCEPT ![v] = [msg |-> m, frame |-> latest[i]]]
        /\ UNCHANGED <<latest, cache, todo, shown>>
        /\ vpc' = [vpc EXCEPT ![v] = "caching"] \/ vpc' = [vpc EXCEPT ![v] = "sending"]
    BY <1>7 DEF TakeFrame
  <2>2. m.id = i /\ m.seq = latest[i].seq
    BY DEF Encoded
  <2>3. m.seq = LatestSeq(i) /\ \A k \in Ids : LatestSeq(k)' = LatestSeq(k)
    BY <1>7, <2>1, <2>2, NewFrame DEF TakeFrame, LatestSeq
  <2> HIDE DEF m, n
  <2>4. hand'[v].msg = m /\ \A w \in Viewers \ {v} : hand'[w] = hand[w] /\ vpc'[w] = vpc[w]
    BY <2>1 DEF TypeInv, TypeOK
  <2>5. vpc'[v] \in {"caching", "sending"}
    BY <2>1 DEF TypeInv, TypeOK
  <2>6. CacheBehind' /\ ShownBehind'
    BY <2>1, <2>3 DEF ShownInv, CacheBehind, ShownBehind
  <2>7. BlankStart'
    BY <2>1, <2>4, <2>5 DEF ShownInv, BlankStart
  <2>8. HandAhead'
    <3>1. shown[v][i] <= m.seq /\ m.seq <= LatestSeq(i)
      <4>1. LatestSeq(i) \in Nat /\ shown[v][i] <= LatestSeq(i)
        BY LatestSeqType DEF ShownInv, ShownBehind
      <4> QED
        BY <2>3, <4>1
    <3> SUFFICES ASSUME NEW w \in Viewers, vpc'[w] \in {"caching", "sending"}
                 PROVE  (LET h == hand[w].msg
                         IN shown[w][h.id] <= h.seq /\ h.seq <= LatestSeq(h.id))'
      BY DEF HandAhead
    <3>2. CASE w = v
      BY <2>1, <2>2, <2>4, <3>1, <3>2 DEF LatestSeq
    <3>3. CASE w # v
      <4>1. vpc[w] \in {"caching", "sending"} /\ hand'[w] = hand[w]
        BY <2>4, <3>3
      <4>2. LatestSeq(hand[w].msg.id)' = LatestSeq(hand[w].msg.id)
        BY <2>1, <4>1 DEF LatestSeq
      <4> QED
        BY <2>1, <4>1, <4>2 DEF ShownInv, HandAhead, LatestSeq
    <3> QED
      BY <3>2, <3>3
  <2>9. NoneOlder
    BY <2>1, ShownTypes DEF NoneOlder
  <2> QED
    BY <1>1, <2>6, <2>7, <2>8, <2>9 DEF ShownInv
<1>8. ASSUME NEW v \in Viewers, CacheKeyframe(v)
      PROVE  ShownInv' /\ NoneOlder
  <2> DEFINE m == hand[v].msg
  <2>1. /\ vpc[v] = "caching" /\ vpc' = [vpc EXCEPT ![v] = "sending"]
        /\ cache' = [cache EXCEPT ![m.id] = m]
        /\ UNCHANGED <<latest, todo, hand, shown>>
    BY <1>8 DEF CacheKeyframe
  <2>2. m.id \in Ids /\ m.seq <= LatestSeq(m.id)
    BY <2>1, ShownTypes DEF ShownInv, HandAhead
  <2>3. \A k \in Ids : LatestSeq(k)' = LatestSeq(k)
    BY <2>1 DEF LatestSeq
  <2> HIDE DEF m
  <2>4. cache'[m.id] = m /\ \A k \in Ids \ {m.id} : cache'[k] = cache[k]
    BY <2>1, <2>2 DEF TypeInv, TypeOK
  <2>5. CacheBehind'
    BY <2>2, <2>3, <2>4 DEF ShownInv, CacheBehind
  <2>6. \A w \in Viewers : vpc'[w] = vpc[w] \/ (w = v /\ vpc'[w] = "sending")
    BY <2>1 DEF TypeInv, TypeOK
  <2>7. BlankStart' /\ ShownBehind'
    BY <2>1, <2>3, <2>6 DEF ShownInv, BlankStart, ShownBehind
  <2>8. HandAhead'
    BY <2>1, <2>6 DEF ShownInv, HandAhead, LatestSeq
  <2>9. NoneOlder
    BY <2>1, ShownTypes DEF NoneOlder
  <2> QED
    BY <1>1, <2>5, <2>7, <2>8, <2>9 DEF ShownInv
<1>9. ASSUME NEW v \in Viewers, Deliver(v)
      PROVE  ShownInv' /\ NoneOlder
  <2> DEFINE m == hand[v].msg
  <2>1. /\ vpc[v] = "sending" /\ vpc' = [vpc EXCEPT ![v] = "live"]
        /\ hand' = [hand EXCEPT ![v] = None] /\ Sent(v, m)
        /\ UNCHANGED <<latest, todo, cache>>
    BY <1>9 DEF Deliver
  <2>2. /\ m \in Messages /\ m.id \in Ids
        /\ shown[v][m.id] <= m.seq /\ m.seq <= LatestSeq(m.id)
    BY <2>1, ShownTypes DEF ShownInv, HandAhead
  <2>3. /\ NoneOlder /\ ShownBehind'
        /\ \A w \in Viewers, k \in Ids : w # v \/ k # m.id => shown'[w][k] = shown[w][k]
    BY <2>1, <2>2, ShownSent
  <2>4. /\ vpc'[v] = "live"
        /\ \A w \in Viewers \ {v} : vpc'[w] = vpc[w] /\ hand'[w] = hand[w]
    BY <2>1 DEF TypeInv, TypeOK
  <2>5. CacheBehind'
    BY <2>1 DEF ShownInv, CacheBehind, LatestSeq
  <2>6. BlankStart'
    BY <2>1, <2>3, <2>4 DEF ShownInv, BlankStart
  <2>7. HandAhead'
    BY <2>1, <2>3, <2>4, ShownTypes DEF ShownInv, HandAhead, LatestSeq
  <2> QED
    BY <1>1, <2>3, <2>5, <2>6, <2>7 DEF ShownInv
<1>10. CASE UNCHANGED vars
  BY <1>2, <1>10 DEF vars, KeepsShown
<1> QED
  BY <1>3, <1>4, <1>5, <1>6, <1>7, <1>8, <1>9, <1>10
     DEF Next, HubStep, SetupStep, FrameStep

\* Whatever is replayed from a cache other viewers and requests write, and
\* whatever is skipped or dropped, no viewer is sent an older picture of an
\* instance after a newer one (broadcast.rs:93).
THEOREM PicturesOnlyNewer == Spec => NeverBackwards
<1>1. NoneOlder => [\A v \in Viewers, i \in Ids : shown'[v][i] >= shown[v][i]]_vars
  BY DEF NoneOlder
<1> QED
  BY <1>1, TypeInit, TypeStep, ShownInit, ShownStep, PTL DEF Spec, NeverBackwards
=============================================================================
