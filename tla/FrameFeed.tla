------------------------------ MODULE FrameFeed ------------------------------
(***************************************************************************)
(* The way of a picture from the emulator thread of a worker to the        *)
(* gateway's FrameHub: the thread that runs a frame every Period           *)
(* (src/bin/worker.rs), the picture it leaves in latest_frame, the task    *)
(* that writes that picture again and again to the frame socket, the       *)
(* packets of crates/ipc/src/transport.rs, and the ingest task of the      *)
(* gateway (crates/gateway/src/admin.rs), which connects once.  A picture  *)
(* is the number of the emulated frame that drew it.                       *)
(***************************************************************************)
EXTENDS Naturals, Sequences

CONSTANTS Period,      \* EMULATOR_FRAME_DURATION, in ticks
          Tries,       \* attempts to connect, 100 in the code
          Buffer,      \* parts of packets the socket holds
          Drawn,       \* frames of which the core shows a picture
          Oversized,   \* those whose data is over MAX_FRAME_SIZE
          MaxFrames,   \* bound: frames run
          MaxNow       \* bound: ticks of the clock

ASSUME NumbersAssumption ==
  /\ Period \in Nat \ {0} /\ Tries \in Nat \ {0} /\ Buffer \in Nat \ {0}
  /\ MaxFrames \in Nat /\ MaxNow \in Nat
  /\ Drawn \subseteq Nat /\ Oversized \subseteq Drawn

VARIABLES
  now,       \* Instant::now()
  epc,       \* where the emulator thread is
  nextAt,    \* next_frame_at
  frames,    \* frame_counter
  latest,    \* latest_frame, 0 for None
  shutdown,  \* the flag
  alive,     \* whether the worker still holds its sockets
  spc,       \* where handle_frame_socket is
  sending,   \* the picture of the packet it writes
  conn,      \* the connection: "none", "open", "dropped" by the gateway
  wire,      \* parts of packets written and not read
  ipc,       \* where the ingest task is
  tries,     \* attempts it has left
  reading,   \* the picture of the packet it reads
  hub,       \* the picture in the hub, 0 for None
  starts,    \* history: when the last four frames were started
  late       \* history: a frame ended more than a Period after its deadline

clockVars    == <<epc, nextAt, frames, starts, late>>
emulatorVars == <<clockVars, latest>>
workerVars   == <<shutdown, alive>>
socketVars   == <<spc, sending>>
ingestVars   == <<ipc, tries, reading, hub>>
vars == <<now, emulatorVars, workerVars, socketVars, conn, wire, ingestVars>>

Pictures == 1 .. MaxFrames
Parts    == [pic : Pictures, part : {"head", "data"}]

-----------------------------------------------------------------------------
(* run_emulator_thread                                                      *)

Tick ==
  /\ now < MaxNow
  /\ now' = now + 1
  /\ UNCHANGED <<emulatorVars, workerVars, socketVars, conn, wire, ingestVars>>

\* The core requests that are handled first are in WorkerCore.
StartFrame ==
  /\ alive /\ ~shutdown
  /\ epc = "ready" /\ frames < MaxFrames
  /\ epc' = "running"
  /\ LET all == Append(starts, now)
     IN starts' = IF Len(all) > 4 THEN Tail(all) ELSE all
  /\ UNCHANGED <<now, nextAt, frames, late, latest, workerVars, socketVars, conn, wire, ingestVars>>

\* next_frame_at += frame_duration
Deadline == nextAt + Period

\* Mutation: what was missed is always caught up.
NeverReset == Deadline

\* More than a Period late: the thread starts counting anew.
Rescheduled == IF now > Deadline + Period THEN now ELSE Deadline

\* retro_run returns.  video_refresh_callback has stored the picture, unless
\* the core passed no data or data that do not convert.
EndFrame ==
  /\ epc = "running"
  /\ frames' = frames + 1
  /\ latest' = IF frames' \in Drawn THEN frames' ELSE latest
  /\ nextAt' = Rescheduled
  /\ epc' = IF now < Deadline THEN "asleep" ELSE "ready"
  /\ late' = (late \/ now > Deadline + Period)
  /\ UNCHANGED <<now, starts, workerVars, socketVars, conn, wire, ingestVars>>

WakeUp ==
  /\ epc = "asleep" /\ now >= nextAt
  /\ epc' = "ready"
  /\ UNCHANGED <<now, nextAt, frames, starts, late, latest, workerVars, socketVars, conn,
                 wire, ingestVars>>

-----------------------------------------------------------------------------
(* The end of the worker                                                    *)

\* The command task of WorkerCore has stored the flag.
RequestShutdown ==
  /\ alive /\ ~shutdown
  /\ shutdown' = TRUE
  /\ UNCHANGED <<now, emulatorVars, alive, socketVars, conn, wire, ingestVars>>

\* The process is killed or crashes, or select! in main ends with the command
\* task.  What is in the socket can still be read.
Exit ==
  /\ alive
  /\ alive' = FALSE
  /\ UNCHANGED <<now, emulatorVars, shutdown, socketVars, conn, wire, ingestVars>>

\* The frame socket task is what ends select!.
SeesShutdown ==
  /\ spc = "polling" /\ shutdown
  /\ Exit

-----------------------------------------------------------------------------
(* handle_frame_socket, FrameConnection::send_frame                         *)

Bind ==
  /\ alive /\ spc = "starting"
  /\ spc' = "accepting"
  /\ UNCHANGED <<now, emulatorVars, workerVars, sending, conn, wire, ingestVars>>

Accept ==
  /\ alive /\ spc = "accepting" /\ conn = "open"
  /\ spc' = "polling"
  /\ UNCHANGED <<now, emulatorVars, workerVars, sending, conn, wire, ingestVars>>

Write(n, part) ==
  /\ alive /\ conn = "open" /\ Len(wire) < Buffer
  /\ wire' = Append(wire, [pic |-> n, part |-> part])

\* Whatever latest_frame holds is sent, new or not.
SendHead ==
  /\ spc = "polling" /\ ~shutdown /\ latest # 0
  /\ Write(latest, "head")
  /\ sending' = latest
  /\ spc' = "writing"
  /\ UNCHANGED <<now, emulatorVars, workerVars, conn, ingestVars>>

\* Mutation: the data are taken from latest_frame when they are written.
NewestData == latest

PacketData == sending

SendData ==
  /\ spc = "writing"
  /\ Write(PacketData, "data")
  /\ spc' = "polling"
  /\ UNCHANGED <<now, emulatorVars, workerVars, sending, conn, ingestVars>>

SendFails ==
  /\ alive /\ conn = "dropped"
  /\ spc = "writing" \/ (spc = "polling" /\ ~shutdown /\ latest # 0)
  /\ spc' = "accepting"
  /\ UNCHANGED <<now, emulatorVars, workerVars, sending, conn, wire, ingestVars>>

-----------------------------------------------------------------------------
(* spawn_frame_ingest, FrameConnection::recv_frame                          *)

Reachable == alive /\ spc # "starting"

\* Mutation: one attempt only.
GivesUp == TRUE

LastTry == tries = 1

\* One turn of the loop.  A connection waits in the backlog until it is
\* accepted.
TryConnect ==
  /\ ipc = "connecting"
  /\ \/ /\ Reachable
        /\ conn' = "open" /\ ipc' = "reading"
        /\ UNCHANGED tries
     \/ /\ ~Reachable
        /\ tries' = tries - 1
        /\ ipc' = IF LastTry THEN "ended" ELSE ipc
        /\ UNCHANGED conn
  /\ UNCHANGED <<now, emulatorVars, workerVars, socketVars, wire, reading, hub>>

\* The task is over and its connection with it; it does not connect again.
Leave(end) ==
  /\ ipc' = end
  /\ conn' = IF conn = "open" THEN "dropped" ELSE conn
  /\ wire' = <<>>

FrameTooLarge == Leave("ended")

\* Width to data_len.
ReadHead ==
  /\ ipc = "reading" /\ wire # <<>>
  /\ reading' = Head(wire).pic
  /\ \/ reading' \in Oversized /\ FrameTooLarge
     \/ reading' \notin Oversized /\ ipc' = "body" /\ wire' = Tail(wire) /\ UNCHANGED conn
  /\ UNCHANGED <<now, emulatorVars, workerVars, socketVars, tries, hub>>

\* read_exact
ReadData ==
  /\ ipc = "body" /\ wire # <<>>
  /\ ipc' = "pushing"
  /\ wire' = Tail(wire)
  /\ UNCHANGED <<now, emulatorVars, workerVars, socketVars, conn, tries, reading, hub>>

\* Mutation: a picture that another one already follows is skipped, in the hope
\* of that one, which may be cut short.
PushIfLast ==
  /\ ipc = "pushing"
  /\ ipc' = "reading"
  /\ hub' = IF wire = <<>> THEN reading ELSE hub
  /\ UNCHANGED <<now, emulatorVars, workerVars, socketVars, conn, wire, tries, reading>>

\* frame_from_packet knows the one pixel format the worker sends.
PushFrame ==
  /\ ipc = "pushing"
  /\ ipc' = "reading"
  /\ hub' = reading
  /\ UNCHANGED <<now, emulatorVars, workerVars, socketVars, conn, wire, tries, reading>>

\* The stream ends, perhaps within a packet.
ReadFails ==
  /\ ipc \in {"reading", "body"}
  /\ wire = <<>> /\ ~alive
  /\ Leave("ended")
  /\ UNCHANGED <<now, emulatorVars, workerVars, socketVars, tries, reading, hub>>

\* The instance is destroyed: the task is aborted where it waits.
Abort ==
  /\ ipc \notin {"ended", "aborted"}
  /\ Leave("aborted")
  /\ UNCHANGED <<now, emulatorVars, workerVars, socketVars, tries, reading, hub>>

-----------------------------------------------------------------------------
Init ==
  /\ now = 0 /\ nextAt = 0
  /\ epc = "ready" /\ frames = 0 /\ latest = 0
  /\ shutdown = FALSE /\ alive = TRUE
  /\ spc = "starting" /\ sending = 0
  /\ conn = "none" /\ wire = <<>>
  /\ ipc = "connecting" /\ tries = Tries /\ reading = 0 /\ hub = 0
  /\ starts = <<>> /\ late = FALSE

EmulatorStep == StartFrame \/ EndFrame \/ WakeUp

SocketStep == Bind \/ Accept \/ SendHead \/ SendData \/ SendFails \/ SeesShutdown

IngestStep == TryConnect \/ ReadHead \/ ReadData \/ PushFrame \/ ReadFails

Next == Tick \/ EmulatorStep \/ RequestShutdown \/ Exit \/ SocketStep \/ IngestStep \/ Abort

Spec == Init /\ [][Next]_vars

\* Both tasks are scheduled and their timers run.  The emulator thread needs no
\* fairness: what it has drawn is sent even if it never draws again.
Fairness == WF_vars(SocketStep) /\ WF_vars(IngestStep)

FairSpec == Spec /\ Fairness

-----------------------------------------------------------------------------
(* Properties                                                               *)

\* No frame starts early: the n-th not before n - 1 periods have passed.
NeverAhead == epc = "running" => now >= frames * Period

\* As long as no frame was more than a period late, the time frames take and
\* sleeps overrun adds up to nothing.
NoDrift == epc = "asleep" /\ ~late => nextAt = frames * Period

\* After a stall of any length at most two frames are run to catch up: four
\* frames never start within one period.
NoBurst == Len(starts) = 4 => starts[4] - starts[1] >= Period

\* schedule_next_frame_sleep keeps the pace of the emulation, whatever a frame
\* takes.
PaceKept == NeverAhead /\ NoDrift /\ NoBurst

\* The pictures between the emulator and the hub, oldest first.
Pipeline ==
  <<hub>> \o (IF ipc \in {"body", "pushing"} THEN <<reading>> ELSE <<>>)
  \o [k \in DOMAIN wire |-> wire[k].pic]
  \o (IF spc = "writing" /\ wire # <<>> THEN <<sending>> ELSE <<>>) \o <<latest>>

\* Each picture is followed by the same or a later one, and the data the ingest
\* task reads next are those of the packet whose header it has read.
PicturesInOrder ==
  /\ \A j, k \in DOMAIN Pipeline : j < k => Pipeline[j] <= Pipeline[k]
  /\ ipc = "body" /\ wire # <<>> => Head(wire) = [pic |-> reading, part |-> "data"]
  /\ ipc = "reading" /\ wire # <<>> => Head(wire).part = "head"

\* A stream goes dead under a living worker only if the worker bound its frame
\* socket after the last attempt to connect, or drew a picture over the limit.
FrozenExplained ==
  ipc = "ended" => \/ ~alive
                   \/ tries = 0
                   \/ reading \in Oversized

\* What the core has drawn reaches the hub, or something later does, unless the
\* ingest task is over.
PictureArrives ==
  \A n \in Pictures : (latest = n) ~> (hub >= n \/ ipc \in {"ended", "aborted"})
=============================================================================
