----------------------------- MODULE WorkerCore -----------------------------
(***************************************************************************)
(* A worker process (src/bin/worker.rs, src/bin/worker/core.rs): the task  *)
(* that serves one command connection at a time, the emulator thread it    *)
(* asks for everything that touches the libretro core, the queue between   *)
(* them with its five-second timeout, the pressed keys they share, and the *)
(* shutdown.  The core itself is external: it may fail to load a ROM, and  *)
(* a call into it may never return.                                        *)
(***************************************************************************)
EXTENDS Naturals, Sequences, FiniteSets

CONSTANTS Conns,     \* connections to the command socket
          Requests,  \* commands, each sent once on some connection
          Keys,      \* buttons with a bit in the input state
          RomGiven,  \* whether the worker was started with a ROM
          None

ASSUME RomGivenBoolean == RomGiven \in BOOLEAN
ASSUME NoneAssumption == None \notin Conns \cup Requests \cup {"ok", "failed", "timeout"}

\* What a command is to the worker: "query" is Ping, GetCurrentFrame,
\* TakeScreenshot and a tap of an unknown button, "tap" ButtonTap and
\* ButtonHold, "set" SetInputState, "load" LoadRom, and "core" any other
\* request to the core.
Jobs == [kind : {"query", "load", "core", "shutdown"}, keys : {{}}]
        \cup [kind : {"set"}, keys : SUBSET Keys]
        \cup [kind : {"tap"}, keys : {{k} : k \in Keys}]

CoreKinds == {"load", "core"}

ASSUME NoJobAssumption == None \notin Jobs

VARIABLES
  link,      \* the client's end of each connection
  backlog,   \* connections not accepted yet
  wire,      \* commands written and not read, per connection
  job,       \* what each sent command asks for
  hpc,       \* where the command task is
  held,      \* the connection it serves
  cur,       \* the command it is at
  result,    \* the response it is about to send
  answer,    \* the response sent to each command
  keys,      \* WorkerState.input_state
  shutdown,  \* WorkerState.shutdown
  asked,     \* history: core requests in the order they were sent to the thread
  queue,     \* core_requests
  reply,     \* what the thread sent on the channel of each request
  epc,       \* where the emulator thread is
  game,      \* whether a game is loaded
  performed, \* history: core requests in the order the thread handled them
  base       \* history: the keys that SetInputState holds down

clientVars == <<link, job>>
inVars     == <<backlog, wire>>
taskVars   == <<hpc, held, cur, result, answer>>
keyVars    == <<keys, base>>
askVars    == <<asked, queue, reply>>
coreVars   == <<epc, game, performed>>
vars == <<clientVars, inVars, taskVars, keyVars, shutdown, askVars, coreVars>>

Members(s) == {s[k] : k \in DOMAIN s}

TaskGoto(from, to) == hpc = from /\ hpc' = to

-----------------------------------------------------------------------------
(* The clients                                                              *)

Connect(c) ==
  /\ link[c] = "none" /\ hpc # "returned"
  /\ link' = [link EXCEPT ![c] = "up"]
  /\ backlog' = Append(backlog, c)
  /\ UNCHANGED <<job, wire, taskVars, keyVars, shutdown, askVars, coreVars>>

\* A client that gave up on a response may write its next command at once.
Send(c, r, j) ==
  /\ link[c] = "up" /\ job[r] = None
  /\ job' = [job EXCEPT ![r] = j]
  /\ wire' = [wire EXCEPT ![c] = Append(@, r)]
  /\ UNCHANGED <<link, backlog, taskVars, keyVars, shutdown, askVars, coreVars>>

Disconnect(c) ==
  /\ link[c] = "up"
  /\ link' = [link EXCEPT ![c] = "down"]
  /\ UNCHANGED <<job, inVars, taskVars, keyVars, shutdown, askVars, coreVars>>

-----------------------------------------------------------------------------
(* handle_commands                                                          *)

Accept ==
  /\ TaskGoto("accept", "recv") /\ backlog # <<>>
  /\ held' = Head(backlog)
  /\ backlog' = Tail(backlog)
  /\ UNCHANGED <<clientVars, wire, cur, result, answer, keyVars, shutdown, askVars, coreVars>>

Recv ==
  /\ TaskGoto("recv", "handle") /\ wire[held] # <<>>
  /\ cur' = Head(wire[held])
  /\ wire' = [wire EXCEPT ![held] = Tail(@)]
  /\ UNCHANGED <<clientVars, backlog, held, result, answer, keyVars, shutdown, askVars, coreVars>>

\* What was written before the client closed is read first.
RecvFails ==
  /\ TaskGoto("recv", "accept") /\ wire[held] = <<>> /\ link[held] = "down"
  /\ held' = None
  /\ UNCHANGED <<clientVars, inVars, cur, result, answer, keyVars, shutdown, askVars, coreVars>>

Query ==
  /\ hpc = "handle" /\ job[cur].kind = "query"
  /\ hpc' = "respond" /\ result' = "ok"
  /\ UNCHANGED <<clientVars, inVars, held, cur, answer, keyVars, shutdown, askVars, coreVars>>

SetInputState ==
  /\ hpc = "handle" /\ job[cur].kind = "set"
  /\ hpc' = "respond" /\ result' = "ok"
  /\ keys' = job[cur].keys /\ base' = job[cur].keys
  /\ UNCHANGED <<clientVars, inVars, held, cur, answer, shutdown, askVars, coreVars>>

Press ==
  /\ hpc = "handle" /\ job[cur].kind = "tap"
  /\ hpc' = "holding" /\ result' = "ok"
  /\ keys' = keys \cup job[cur].keys
  /\ UNCHANGED <<clientVars, inVars, held, cur, answer, base, shutdown, askVars, coreVars>>

\* Mutation: a hold whose client has gone is not waited for.
ReleaseIfHeard ==
  /\ TaskGoto("holding", "respond")
  /\ keys' = IF link[held] = "up" THEN keys \ job[cur].keys ELSE keys
  /\ base' = base \ job[cur].keys
  /\ UNCHANGED <<clientVars, inVars, held, cur, result, answer, shutdown, askVars, coreVars>>

\* After 50 ms, or the frames of a hold; a key that SetInputState held is
\* released as well.
Release ==
  /\ TaskGoto("holding", "respond")
  /\ keys' = keys \ job[cur].keys /\ base' = base \ job[cur].keys
  /\ UNCHANGED <<clientVars, inVars, held, cur, result, answer, shutdown, askVars, coreVars>>

\* send_core_command.  The thread's receiver outlives the task, so the send
\* does not fail.
AskCore ==
  /\ hpc = "handle" /\ job[cur].kind \in CoreKinds
  /\ hpc' = "waiting"
  /\ queue' = Append(queue, cur) /\ asked' = Append(asked, cur)
  /\ UNCHANGED <<clientVars, inVars, held, cur, result, answer, keyVars, shutdown, reply, coreVars>>

\* Mutation: one response channel for all requests, read from its front.
AnySentReply ==
  /\ TaskGoto("waiting", "respond")
  /\ \E r \in Requests : reply[r] # None /\ result' = reply[r]
  /\ UNCHANGED <<clientVars, inVars, held, cur, answer, keyVars, shutdown, askVars, coreVars>>

\* Each request carries the sender of a channel of its own.
CoreReplies ==
  /\ TaskGoto("waiting", "respond") /\ reply[cur] # None
  /\ result' = reply[cur]
  /\ UNCHANGED <<clientVars, inVars, held, cur, answer, keyVars, shutdown, askVars, coreVars>>

\* Mutation: recv instead of recv_timeout.
NeverTimesOut == FALSE /\ UNCHANGED vars

\* Mutation: the request is sent again before the error is returned.
TimeoutResends ==
  /\ TaskGoto("waiting", "respond") /\ reply[cur] = None
  /\ result' = "timeout"
  /\ queue' = Append(queue, cur)
  /\ UNCHANGED <<clientVars, inVars, held, cur, answer, keyVars, shutdown, asked, reply, coreVars>>

\* recv_timeout(5 s): the request stays in the queue.
CoreTimeout ==
  /\ TaskGoto("waiting", "respond") /\ reply[cur] = None
  /\ result' = "timeout"
  /\ UNCHANGED <<clientVars, inVars, held, cur, answer, keyVars, shutdown, askVars, coreVars>>

Respond ==
  /\ TaskGoto("respond", "recv") /\ link[held] = "up"
  /\ answer' = [answer EXCEPT ![cur] = result]
  /\ cur' = None /\ result' = None
  /\ UNCHANGED <<clientVars, inVars, held, keyVars, shutdown, askVars, coreVars>>

\* send_response fails: whatever else the client wrote is not read.
RespondFails ==
  /\ TaskGoto("respond", "accept") /\ link[held] = "down"
  /\ held' = None /\ cur' = None /\ result' = None
  /\ UNCHANGED <<clientVars, inVars, answer, keyVars, shutdown, askVars, coreVars>>

\* The frame task may see the flag and end the process before the response.
Shutdown ==
  /\ hpc = "handle" /\ job[cur].kind = "shutdown"
  /\ hpc' = "returned" /\ shutdown' = TRUE
  /\ answer' \in {answer} \cup {a \in {[answer EXCEPT ![cur] = "ok"]} : link[held] = "up"}
  /\ cur' = None
  /\ UNCHANGED <<clientVars, inVars, held, result, keyVars, askVars, coreVars>>

-----------------------------------------------------------------------------
(* run_emulator_thread                                                      *)

CheckShutdown ==
  /\ epc = "check"
  /\ epc' = IF shutdown THEN "ended" ELSE "requests"
  /\ UNCHANGED <<clientVars, inVars, taskVars, keyVars, shutdown, askVars, game, performed>>

\* handle_core_command.  load_rom unloads the game before it loads the next; a
\* path that is no C string is refused before that.
Perform(r, outcome) ==
  /\ performed' = Append(performed, r)
  /\ reply' = [reply EXCEPT ![r] = outcome]
  /\ game' \in IF job[r].kind # "load" THEN {game}
               ELSE IF outcome = "ok" THEN {TRUE} ELSE {game, FALSE}

\* Mutation: requests wait for a game, which only a request can load.
HandleWithGame ==
  /\ epc = "requests" /\ queue # <<>> /\ game
  /\ queue' = Tail(queue)
  /\ \E outcome \in {"ok", "failed"} : Perform(Head(queue), outcome)
  /\ UNCHANGED <<clientVars, inVars, taskVars, keyVars, shutdown, asked, epc>>

\* handle_pending_core_requests: until the queue is empty, abandoned or not.
HandleRequest ==
  /\ epc = "requests" /\ queue # <<>>
  /\ queue' = Tail(queue)
  /\ \E outcome \in {"ok", "failed"} : Perform(Head(queue), outcome)
  /\ UNCHANGED <<clientVars, inVars, taskVars, keyVars, shutdown, asked, epc>>

RequestsDone ==
  /\ epc = "requests" /\ queue = <<>>
  /\ epc' = "run"
  /\ UNCHANGED <<clientVars, inVars, taskVars, keyVars, shutdown, askVars, game, performed>>

\* retro_run, and the sleep to the next frame.
RunFrame ==
  /\ epc = "run"
  /\ epc' = "check"
  /\ UNCHANGED <<clientVars, inVars, taskVars, keyVars, shutdown, askVars, game, performed>>

\* A call into the core does not return.
CoreHangs ==
  /\ epc \in {"requests", "run"}
  /\ epc' = "hung"
  /\ UNCHANGED <<clientVars, inVars, taskVars, keyVars, shutdown, askVars, game, performed>>

-----------------------------------------------------------------------------
Init ==
  /\ link = [c \in Conns |-> "none"]
  /\ backlog = <<>>
  /\ wire = [c \in Conns |-> <<>>]
  /\ job = [r \in Requests |-> None]
  /\ hpc = "accept" /\ held = None /\ cur = None /\ result = None
  /\ answer = [r \in Requests |-> None]
  /\ keys = {} /\ base = {}
  /\ shutdown = FALSE
  /\ asked = <<>> /\ queue = <<>>
  /\ reply = [r \in Requests |-> None]
  /\ epc = "check"
  /\ game = RomGiven
  /\ performed = <<>>

ClientStep ==
  \E c \in Conns : Connect(c) \/ Disconnect(c) \/ \E r \in Requests, j \in Jobs : Send(c, r, j)

TaskStep ==
  \/ Accept \/ Recv \/ RecvFails \/ Query \/ SetInputState \/ Press \/ Release
  \/ AskCore \/ CoreReplies \/ CoreTimeout \/ Respond \/ RespondFails \/ Shutdown

EmulatorStep == CheckShutdown \/ HandleRequest \/ RequestsDone \/ RunFrame

Next == ClientStep \/ TaskStep \/ EmulatorStep \/ CoreHangs

Spec == Init /\ [][Next]_vars

\* A task of the runtime and a thread of the process.  Clients need do nothing.
FairSpec == Spec /\ WF_vars(TaskStep) /\ WF_vars(EmulatorStep)

-----------------------------------------------------------------------------
Results == {"ok", "failed", "timeout"}

TypeOK ==
  /\ link \in [Conns -> {"none", "up", "down"}]
  /\ backlog \in Seq(Conns) /\ wire \in [Conns -> Seq(Requests)]
  /\ job \in [Requests -> Jobs \cup {None}]
  /\ hpc \in {"accept", "recv", "handle", "holding", "waiting", "respond", "returned"}
  /\ held \in Conns \cup {None} /\ cur \in Requests \cup {None}
  /\ hpc \in {"recv", "handle", "holding", "waiting", "respond"} => held # None
  /\ hpc \in {"handle", "holding", "waiting", "respond"} => cur # None
  /\ result \in Results \cup {None}
  /\ answer \in [Requests -> Results \cup {None}]
  /\ keys \subseteq Keys /\ base \subseteq Keys
  /\ shutdown \in BOOLEAN
  /\ asked \in Seq(Requests) /\ queue \in Seq(Requests) /\ performed \in Seq(Requests)
  /\ reply \in [Requests -> {"ok", "failed", None}]
  /\ epc \in {"check", "requests", "run", "ended", "hung"}
  /\ game \in BOOLEAN

\* The core sees each request once and in the order the worker received them,
\* those included that were answered with a timeout.
CoreOnceInOrder ==
  /\ asked = performed \o queue
  /\ \A i, j \in DOMAIN asked : asked[i] = asked[j] => i = j

\* A core request is answered with its own outcome or a timeout, never with
\* the late outcome of another one.
AnswerIsItsOwn ==
  \A r \in Requests : answer[r] \in {"ok", "failed"} /\ job[r].kind \in CoreKinds
                      => answer[r] = reply[r]

\* Outside a tap or hold the keys down are those that SetInputState left down,
\* also when the client of the tap has gone.
KeysReleased == hpc # "holding" => keys = base

\* The command loop comes to the end of every command, even when the core
\* hangs: it answers, or finds that the client has gone, or returns.
CommandsAnswered ==
  \A r \in Requests :
    cur = r ~> (answer[r] # None \/ hpc \in {"accept", "returned"})

\* A core request that was reported as timed out is still performed.
QueuedIsPerformed ==
  \A r \in Requests :
    r \in Members(queue) ~> (r \in Members(performed) \/ shutdown \/ epc = "hung")

=============================================================================
