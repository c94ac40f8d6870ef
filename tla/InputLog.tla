------------------------------ MODULE InputLog ------------------------------
(***************************************************************************)
(* The input log of one session (crates/streaming/src/input_log.rs): the   *)
(* requests that begin an event and finish it around a command, the list   *)
(* of recent events, and the WebSockets that first replay that list and    *)
(* then follow the broadcast channel (crates/gateway/src/lib.rs).  The     *)
(* logs of different sessions share a lock and nothing else.               *)
(***************************************************************************)
EXTENDS Naturals, Sequences, FiniteSets

CONSTANTS Events,            \* input requests; each begins one event
          Viewers,           \* input-log WebSockets
          MaxRecent,         \* MAX_RECENT
          BroadcastCapacity  \* BROADCAST_CAPACITY

ASSUME SizesPositive == MaxRecent \in Nat \ {0} /\ BroadcastCapacity \in Nat \ {0}

VARIABLES
  epc,      \* where the request of each event is
  pending,  \* SessionLog.pending
  recent,   \* SessionLog.recent
  sent,     \* all that finalize_input has sent on tx, oldest first; the
            \* channel keeps the last BroadcastCapacity of them
  wpc,      \* where each viewer is
  replay,   \* recent events a viewer has still to send
  next,     \* how many of sent its receiver is past
  got,      \* what the viewer's peer was sent
  since,    \* history: Len(sent) when the viewer subscribed
  lagged    \* history: viewers whose receiver lagged

logVars  == <<epc, pending, recent, sent>>
viewVars == <<wpc, replay, next, got, since, lagged>>
vars == <<logVars, viewVars>>

ViewerGoto(w, from, to) ==
  /\ wpc[w] = from
  /\ wpc' = [wpc EXCEPT ![w] = to]

-----------------------------------------------------------------------------
(* A request                                                                *)

BeginInput(e) ==
  /\ epc[e] = "new"
  /\ epc' = [epc EXCEPT ![e] = "sending"]
  /\ pending' = pending \cup {e}
  /\ UNCHANGED <<recent, sent, viewVars>>

\* pop_front when full, push_back.
Pushed(s, e) == Append(IF Len(s) >= MaxRecent THEN Tail(s) ELSE s, e)

\* complete_input or fail_input: one write lock over the removal, the recent
\* list and the broadcast.
FinalizeInput(e, status) ==
  /\ epc[e] = "sending"
  /\ epc' = [epc EXCEPT ![e] = status]
  /\ e \in pending
  /\ pending' = pending \ {e}
  /\ recent' = Pushed(recent, e)
  /\ sent' = Append(sent, e)
  /\ UNCHANGED viewVars

\* Mutation: a request cut short is logged as failed by a guard's drop, which
\* does not take it out of pending.
FailOnDrop(e) ==
  /\ epc[e] = "sending"
  /\ epc' = [epc EXCEPT ![e] = "gone"]
  /\ recent' = Pushed(recent, e)
  /\ sent' = Append(sent, e)
  /\ UNCHANGED <<pending, viewVars>>

\* The client of the request goes away: its event stays pending for ever.
Abandon(e) ==
  /\ epc[e] = "sending"
  /\ epc' = [epc EXCEPT ![e] = "gone"]
  /\ UNCHANGED <<pending, recent, sent, viewVars>>

-----------------------------------------------------------------------------
(* handle_input_log_ws                                                      *)

ReadRecent(w) ==
  /\ ViewerGoto(w, "idle", "replaying")
  /\ replay' = [replay EXCEPT ![w] = recent]
  /\ UNCHANGED <<logVars, next, got, since, lagged>>

SendRecent(w) ==
  /\ wpc[w] = "replaying" /\ replay[w] # <<>>
  /\ got' = [got EXCEPT ![w] = Append(@, Head(replay[w]))]
  /\ replay' = [replay EXCEPT ![w] = Tail(@)]
  /\ UNCHANGED <<logVars, wpc, next, since, lagged>>

\* A new receiver gets what is sent from now on.
Subscribe(w) ==
  /\ replay[w] = <<>>
  /\ ViewerGoto(w, "replaying", "live")
  /\ next' = [next EXCEPT ![w] = Len(sent)]
  /\ since' = [since EXCEPT ![w] = Len(sent)]
  /\ UNCHANGED <<logVars, replay, got, lagged>>

Overwritten(w) == Len(sent) - next[w] > BroadcastCapacity

\* Mutation: only the newest event, as a watch channel would give.
ReceiveLatest(w) ==
  /\ wpc[w] = "live" /\ next[w] < Len(sent) /\ ~Overwritten(w)
  /\ next' = [next EXCEPT ![w] = Len(sent)]
  /\ got' = [got EXCEPT ![w] = Append(@, sent[Len(sent)])]
  /\ UNCHANGED <<logVars, wpc, replay, since, lagged>>

\* recv: an event, sent on.
Receive(w) ==
  /\ wpc[w] = "live" /\ next[w] < Len(sent) /\ ~Overwritten(w)
  /\ next' = [next EXCEPT ![w] = @ + 1]
  /\ got' = [got EXCEPT ![w] = Append(@, sent[next[w] + 1])]
  /\ UNCHANGED <<logVars, wpc, replay, since, lagged>>

\* Mutation: any error of recv ends the loop.
LagCloses(w) ==
  /\ Overwritten(w)
  /\ ViewerGoto(w, "live", "closed")
  /\ UNCHANGED <<logVars, replay, next, got, since, lagged>>

\* recv: Lagged, which moves the receiver to the oldest event kept; continue.
Lag(w) ==
  /\ wpc[w] = "live" /\ Overwritten(w)
  /\ next' = [next EXCEPT ![w] = Len(sent) - BroadcastCapacity]
  /\ lagged' = lagged \cup {w}
  /\ UNCHANGED <<logVars, wpc, replay, got, since>>

\* The peer is gone, which a send finds out.
SendFails(w) ==
  /\ \/ ViewerGoto(w, "replaying", "gone") /\ replay[w] # <<>>
     \/ ViewerGoto(w, "live", "gone") /\ next[w] < Len(sent) /\ ~Overwritten(w)
  /\ UNCHANGED <<logVars, replay, next, got, since, lagged>>

-----------------------------------------------------------------------------
Init ==
  /\ epc = [e \in Events |-> "new"]
  /\ pending = {} /\ recent = <<>> /\ sent = <<>>
  /\ wpc = [w \in Viewers |-> "idle"]
  /\ replay = [w \in Viewers |-> <<>>]
  /\ next = [w \in Viewers |-> 0]
  /\ got = [w \in Viewers |-> <<>>]
  /\ since = [w \in Viewers |-> 0]
  /\ lagged = {}

RequestStep(e) ==
  BeginInput(e) \/ FinalizeInput(e, "completed") \/ FinalizeInput(e, "failed") \/ Abandon(e)

ViewerStep(w) == SendRecent(w) \/ Subscribe(w) \/ Receive(w) \/ Lag(w)

Next ==
  \/ \E e \in Events : RequestStep(e)
  \/ \E w \in Viewers : ReadRecent(w) \/ ViewerStep(w) \/ SendFails(w)

Spec == Init /\ [][Next]_vars

\* The handler of a WebSocket is scheduled, and a send to it ends.
FairSpec == Spec /\ \A w \in Viewers : WF_vars(ViewerStep(w))

-----------------------------------------------------------------------------
TypeOK ==
  /\ epc \in [Events -> {"new", "sending", "completed", "failed", "gone"}]
  /\ pending \subseteq Events
  /\ recent \in Seq(Events) /\ Len(recent) <= MaxRecent
  /\ sent \in Seq(Events)
  /\ wpc \in [Viewers -> {"idle", "replaying", "live", "closed", "gone"}]
  /\ replay \in [Viewers -> Seq(Events)] /\ got \in [Viewers -> Seq(Events)]
  /\ next \in [Viewers -> Nat] /\ since \in [Viewers -> Nat]
  /\ lagged \subseteq Viewers

\* An event is logged once, when its request has its answer, and is pending
\* until then; a request whose client went away leaves a pending event behind
\* and never a log entry.
LoggedOnce ==
  /\ \A e \in Events :
       /\ (\E k \in DOMAIN sent : sent[k] = e) <=> epc[e] \in {"completed", "failed"}
       /\ e \in pending <=> epc[e] \in {"sending", "gone"}
  /\ \A j, k \in DOMAIN sent : sent[j] = sent[k] => j = k

Place(e) == CHOOSE k \in DOMAIN sent : sent[k] = e

\* What a viewer is sent is in the order in which the commands ended and has
\* nothing twice, although it comes from a list and then from a channel that
\* goes on while the list is sent.
NothingTwice ==
  \A w \in Viewers : \A m, n \in DOMAIN got[w] :
    m < n => Place(got[w][m]) < Place(got[w][n])

\* From its subscription on, a viewer misses nothing unless it lagged by more
\* than the channel holds.  Events that end between the reading of the recent
\* list and the subscription are the only other gap.
OnlyLagSkips ==
  \A w \in Viewers : wpc[w] = "live" /\ w \notin lagged =>
    \A k \in since[w] + 1 .. next[w] : \E n \in DOMAIN got[w] : got[w][n] = sent[k]

\* A viewer that falls behind, by however much, catches up unless it is gone.
CatchesUp ==
  \A w \in Viewers :
    (wpc[w] = "live" /\ next[w] < Len(sent))
    ~> (next[w] = Len(sent) \/ wpc[w] = "gone")

\* What the viewer's peer sees is the log, in order, with no gap but these two.
DeliversTheLog == NothingTwice /\ OnlyLagSkips
=============================================================================
