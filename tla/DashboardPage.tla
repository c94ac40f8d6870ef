--------------------------- MODULE DashboardPage ----------------------------
(***************************************************************************)
(* The dashboard's page (dashboard/src/App.tsx, stream.ts) and the         *)
(* gateway's handler that feeds it with the pictures of one instance.  The *)
(* page keeps one socket for each gateway URL it was given and reconnects  *)
(* the current one.  Every message is inflated by a task of its own, so    *)
(* messages are painted in any order.  The handler's cache and its         *)
(* backpressure are in FrameStream; whether a keyframe is due is left open *)
(* here.                                                                   *)
(***************************************************************************)
EXTENDS PictureCodec

CONSTANTS Drawings,    \* pictures the core draws
          Urls,        \* how many gateway URLs the user enters
          MaxSent,     \* bound: messages sent
          MaxTasks     \* bound: messages sent and not painted

ASSUME PageAssumption == Urls \in Nat \ {0} /\ MaxSent \in Nat /\ MaxTasks \in Nat

\* The memory has a cell for every pixel.
ASSUME DrawingsAssumption ==
  \A src \in Drawings :
    /\ src.format \in Formats
    /\ src.w \in Nat /\ src.h \in Nat /\ src.pitch \in Nat
    /\ \A c \in Coordinates(src.w, src.h) : Cell(src, c) \in Nat

VARIABLES
  url,       \* the current URL's number; that of the running effect
  sock,      \* the last socket of each URL
  timer,     \* reconnectTimer of each URL's effect
  handler,   \* the gateway's handler of that socket
  prev,      \* its prev_frame
  base,      \* history: the number of the last message it sent
  sent,      \* messages sent so far
  tasks,     \* messages on their way and being inflated
  canvas,    \* the instance's canvas
  shown,     \* history: number and drawing of the message painted last
  misplaced  \* history: a delta was painted over another picture than its own

pageVars   == <<url, sock, timer>>
serverVars == <<handler, prev, base, sent>>
paintVars  == <<canvas, shown, misplaced>>
screenVars == <<pageVars, serverVars, tasks, paintVars>>

AllUrls == 1 .. Urls

-----------------------------------------------------------------------------
(* useEffect                                                                *)

\* The gateway accepts: a new handler that knows no previous frame.
Opened(u) ==
  /\ sock[u] = "connecting"
  /\ sock' = [sock EXCEPT ![u] = "open"]
  /\ handler' = [handler EXCEPT ![u] = "live"]
  /\ prev' = [prev EXCEPT ![u] = NoPicture]
  /\ base' = [base EXCEPT ![u] = 0]
  /\ UNCHANGED <<url, timer, sent, tasks, paintVars>>

\* Mutation: only a socket that has been open is replaced.
RetryIfOpened(u) == timer' = [timer EXCEPT ![u] = sock[u] = "open" /\ u = url]

\* onclose returns early if closedByEffect.
Retry(u) == timer' = [timer EXCEPT ![u] = u = url]

\* The messages of u that had not arrived are lost.
Arrived(u, kept) == {m \in tasks : m.from # u \/ m.n <= kept}

\* Refused, or lost while open.  What had arrived is still being inflated.
OnClose(u) ==
  /\ sock[u] \in {"connecting", "open"}
  /\ sock' = [sock EXCEPT ![u] = "closed"]
  /\ Retry(u)
  /\ handler' = [handler EXCEPT ![u] = "none"]
  /\ \E kept \in 0 .. sent : tasks' = Arrived(u, kept)
  /\ UNCHANGED <<url, prev, base, sent, paintVars>>

\* window.setTimeout(connect, 1200)
Reconnect(u) ==
  /\ timer[u]
  /\ timer' = [timer EXCEPT ![u] = FALSE]
  /\ sock' = [sock EXCEPT ![u] = "connecting"]
  /\ UNCHANGED <<url, serverVars, tasks, paintVars>>

\* submitGateway: the effect is cleaned up, its socket is not closed, and the
\* effect of the new URL connects.
ChangeUrl ==
  /\ url < Urls
  /\ url' = url + 1
  /\ timer' = [timer EXCEPT ![url] = FALSE]
  /\ sock' = [sock EXCEPT ![url + 1] = "connecting"]
  /\ UNCHANGED <<serverVars, tasks, paintVars>>

-----------------------------------------------------------------------------
(* The handler of u gets the next frame                                     *)

Message(u, src, forced) ==
  LET cur == Convert(src)
      enc == IF forced \/ prev[u] = NoPicture THEN Keyframe(cur) ELSE Delta(prev[u], cur)
  IN [from |-> u, n |-> sent + 1, over |-> base[u], src |-> src, msg |-> enc,
      fits |-> prev[u] # NoPicture /\ prev[u].w = cur.w /\ prev[u].h = cur.h]

Overrun(u, src, forced) ==
  ~forced /\ prev[u] # NoPicture /\ Overruns(prev[u], Convert(src))

SendFrame(u, src) ==
  /\ sock[u] = "open" /\ handler[u] = "live"
  /\ Convert(src) # NoPicture
  /\ sent < MaxSent /\ Cardinality(tasks) < MaxTasks
  /\ \E forced \in BOOLEAN :
       /\ ~Overrun(u, src, forced)
       /\ tasks' = tasks \cup {Message(u, src, forced)}
  /\ prev' = [prev EXCEPT ![u] = Convert(src)]
  /\ base' = [base EXCEPT ![u] = sent + 1]
  /\ sent' = sent + 1
  /\ UNCHANGED <<pageVars, handler, paintVars>>

\* The handler's task panics; the control task keeps the socket open.
HandlerPanics(u, src) ==
  /\ sock[u] = "open" /\ handler[u] = "live"
  /\ Convert(src) # NoPicture
  /\ Overrun(u, src, FALSE)
  /\ handler' = [handler EXCEPT ![u] = "dead"]
  /\ UNCHANGED <<pageVars, prev, base, sent, tasks, paintVars>>

-----------------------------------------------------------------------------
(* renderFrame: m is the next whose payload is inflated                     *)

PaintTask(m) ==
  /\ tasks' = tasks \ {m}
  /\ canvas' = Paint(m.msg, canvas)
  /\ shown' = [n |-> m.n, src |-> m.src]
  /\ misplaced' = (m.msg.kind = "delta" /\ (misplaced \/ m.over # shown.n \/ ~m.fits))
  /\ UNCHANGED <<pageVars, serverVars>>

-----------------------------------------------------------------------------
BlankCanvas == [w |-> 0, h |-> 0, rgba |-> [c \in {} |-> <<>>]]

PageInit ==
  /\ url = 1
  /\ sock = [u \in AllUrls |-> IF u = 1 THEN "connecting" ELSE "none"]
  /\ timer = [u \in AllUrls |-> FALSE]
  /\ handler = [u \in AllUrls |-> "none"]
  /\ prev = [u \in AllUrls |-> NoPicture]
  /\ base = [u \in AllUrls |-> 0]
  /\ sent = 0 /\ tasks = {}
  /\ canvas = BlankCanvas /\ shown = [n |-> 0, src |-> NoPicture]
  /\ misplaced = FALSE

PageStep(u) == Opened(u) \/ OnClose(u) \/ Reconnect(u)

ServerStep(u) == \E src \in Drawings : SendFrame(u, src) \/ HandlerPanics(u, src)

PageNext ==
  \/ \E u \in AllUrls : PageStep(u) \/ ServerStep(u)
  \/ ChangeUrl
  \/ \E m \in tasks : PaintTask(m)

PageSpec == PageInit /\ [][PageNext]_screenVars

\* A timer fires, and a socket that connects is accepted or refused.
PageFairness ==
  \A u \in AllUrls : /\ WF_screenVars(Reconnect(u))
                     /\ WF_screenVars(Opened(u) \/ (OnClose(u) /\ sock[u] = "connecting"))

PageFairSpec == PageSpec /\ PageFairness

-----------------------------------------------------------------------------
(* Properties                                                               *)

\* The canvas shows, pixel by pixel, what the core drew for the message that
\* was painted last, unless a delta since the last keyframe was painted over
\* another picture than the one it was taken against: because it overtook
\* another message or was overtaken, because the socket of an old URL paints on
\* the same canvas, or because the picture's size has changed.
ScreenShowsDrawn == shown.n # 0 /\ ~misplaced => Shows(canvas, shown.src)

\* Without a change of the URL, a page that has no socket gets a new one.
PageReconnects ==
  \A u \in AllUrls : (sock[u] = "closed" /\ u = url) ~> (sock[u] = "connecting" \/ u # url)
=============================================================================
