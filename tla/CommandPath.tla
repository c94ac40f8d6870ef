----------------------------- MODULE CommandPath ----------------------------
(***************************************************************************)
(* The way of a command from a gateway handler to the emulator and back:   *)
(* the CommandScheduler, the IpcTransport that executes its commands over  *)
(* one cached socket connection (crates/mgba/src/ipc_transport.rs), the    *)
(* framed client and server of crates/ipc and the worker's sequential      *)
(* command loop (src/bin/worker.rs).  Requests and responses carry no      *)
(* identifier: a response is known here by the command that produced it.   *)
(***************************************************************************)
EXTENDS CommandScheduler

CONSTANTS Buffer,   \* commands the worker's end of the socket holds unread
          Large     \* commands whose response does not fit in the socket

ASSUME SocketAssumption == Buffer \in Nat \ {0} /\ Large \subseteq Cmds

VARIABLES
  up,         \* whether the worker still holds its end of the connection
  wire,       \* commands written and not read by the worker
  torn,       \* whether a command was cut off in the middle of its write
  garbled,    \* commands written behind the one that was cut off
  serving,    \* the command the worker is at
  inbox,      \* responses of which the gateway has read nothing
  short,      \* whether the worker is still writing its last response
  adrift,     \* whether the rest of a response the gateway cut comes first
  written,    \* whether the call being executed has written its command
  sent,       \* history: commands written, in order
  performed,  \* history: commands the worker finished, in order
  received,   \* history: the response each successful call returned
  cuts,       \* history: how many responses the gateway lost, whole or in part
  cutsAt      \* history: cuts when the call received its response

conVars   == <<up, torn, garbled, serving, short>>
histVars  == <<sent, performed, received, cuts, cutsAt>>
pathVars  == <<conVars, histVars, wire, inbox, adrift, written>>
allVars   == <<vars, pathVars>>

-----------------------------------------------------------------------------
(* IpcTransport::send, executed by the scheduler                            *)

\* client.call: send_command.  Behind a command that was cut off, the worker
\* takes the bytes of this one for the rest of that one: they hold zeros, so
\* that neither is ever parsed.
WriteCommand ==
  /\ wpc = "exec" /\ ~written /\ up
  /\ Len(wire) < Buffer
  /\ written' = TRUE
  /\ \/ torn /\ garbled' = garbled \cup {current} /\ UNCHANGED wire
     \/ ~torn /\ wire' = Append(wire, current) /\ UNCHANGED garbled
  /\ sent' = Append(sent, current)
  /\ UNCHANGED <<vars, up, torn, serving, short, inbox, adrift,
                 performed, received, cuts, cutsAt>>

\* Five seconds in write_framed while the worker reads nothing: the call is
\* dropped before or after the first bytes of its command.
TimeOutWriting ==
  /\ ~written /\ up
  /\ Len(wire) >= Buffer \/ torn
  /\ Finish("timeout")
  /\ torn' \in BOOLEAN /\ (torn => torn')
  /\ UNCHANGED <<histVars, up, garbled, serving, short, wire, inbox, adrift, written>>

\* The next bytes to read are those of a response, all of it written.
Readable == ~adrift /\ inbox # <<>> /\ (Len(inbox) > 1 \/ ~short)

\* The message does not parse, or the connection is gone: the next write
\* fails, and so does a read once no whole response is left in the socket.
\* No call reads after that one.
CallFails ==
  /\ \/ ~written
     \/ written /\ ~up /\ ~Readable
  /\ Finish("error")
  /\ written' = FALSE
  /\ UNCHANGED <<conVars, histVars, wire, inbox, adrift>>

\* Mutation: the response is taken from the wrong end of the stream.
NewestResponse == inbox[Len(inbox)]

\* recv_response: the next response on the stream, whatever it answers.
NextResponse == Head(inbox)

ReadResponse ==
  /\ written /\ Readable
  /\ Finish("ok")
  /\ written' = FALSE
  /\ inbox' = Tail(inbox)
  /\ received' = [received EXCEPT ![current] = NextResponse]
  /\ cutsAt' = [cutsAt EXCEPT ![current] = cuts]
  /\ UNCHANGED <<conVars, wire, adrift, sent, performed, cuts>>

\* What a call has read goes with it when it is dropped: the next one starts
\* behind that, inside a response if the worker was still writing.
ReadAllThereIs ==
  /\ inbox' = <<>>
  /\ adrift' = short
  /\ cuts' = cuts + Len(inbox)

\* Mutation: a timed out call takes its command back and tries it again.
TimeOutResend ==
  /\ written /\ up /\ ~Readable
  /\ Finish("timeout")
  /\ written' = FALSE
  /\ ReadAllThereIs
  /\ wire' = Append(wire, current)
  /\ sent' = Append(sent, current)
  /\ UNCHANGED <<conVars, performed, received, cutsAt>>

\* Mutation: what the worker has not read is withdrawn.
TimeOutWithdraw ==
  /\ written /\ up /\ ~Readable
  /\ Finish("timeout")
  /\ written' = FALSE
  /\ ReadAllThereIs
  /\ wire' = <<>>
  /\ UNCHANGED <<conVars, sent, performed, received, cutsAt>>

\* Five seconds without a whole response: the call is dropped at the await it
\* is at.  Its command and the response to come stay on the connection, which
\* is kept.
TimeOut ==
  /\ written /\ up /\ ~Readable
  /\ Finish("timeout")
  /\ written' = FALSE
  /\ ReadAllThereIs
  /\ UNCHANGED <<conVars, wire, sent, performed, received, cutsAt>>

\* Inside a response read_framed takes the next bytes for a length: as a rule
\* it is too large at once, else that many bytes are read and do not parse.
\* It stops behind k further responses, or inside the last of them.
Misread ==
  /\ written /\ adrift
  /\ Finish("error")
  /\ written' = FALSE
  /\ \E k \in 0 .. Len(inbox) :
       /\ inbox' = SubSeq(inbox, k + 1, Len(inbox))
       /\ cuts' = cuts + k
       /\ adrift' \in BOOLEAN /\ (adrift' \/ ~short \/ k < Len(inbox))
  /\ UNCHANGED <<conVars, wire, sent, performed, received, cutsAt>>

-----------------------------------------------------------------------------
(* handle_commands in the worker                                            *)

ReadCommand ==
  /\ up /\ serving = NoCmd /\ ~short /\ wire # <<>>
  /\ serving' = Head(wire)
  /\ wire' = Tail(wire)
  /\ UNCHANGED <<vars, histVars, up, torn, garbled, short, inbox, adrift, written>>

\* The handler is done (a held button is released, the core answered) and the
\* length of the response is written.
Respond ==
  /\ serving # NoCmd
  /\ serving' = NoCmd
  /\ performed' = Append(performed, serving)
  /\ inbox' = Append(inbox, serving)
  /\ short' = TRUE
  /\ UNCHANGED <<vars, up, torn, garbled, wire, adrift, written,
                 sent, received, cuts, cutsAt>>

\* A response that does not fit is taken in only while it is being read.
HasSpace == performed[Len(performed)] \in Large => written /\ Len(inbox) <= 1

\* The rest of the response.
RespondRest ==
  /\ up /\ short
  /\ HasSpace
  /\ short' = FALSE
  /\ UNCHANGED <<vars, histVars, up, torn, garbled, serving, wire, inbox, adrift, written>>

\* The worker exits, or closes the connection because a command does not parse.
\* The gateway never reconnects: the scheduler stays in the cache with this
\* transport.
HangUp ==
  /\ up
  /\ up' = FALSE
  /\ wire' = <<>>
  /\ serving' = NoCmd
  /\ UNCHANGED <<vars, histVars, torn, garbled, short, inbox, adrift, written>>

-----------------------------------------------------------------------------
PathInit ==
  /\ Init
  /\ up = TRUE /\ torn = FALSE /\ short = FALSE /\ adrift = FALSE
  /\ wire = <<>> /\ inbox = <<>>
  /\ garbled = {}
  /\ serving = NoCmd
  /\ written = FALSE
  /\ sent = <<>> /\ performed = <<>>
  /\ received = [c \in Cmds |-> NoCmd]
  /\ cuts = 0 /\ cutsAt = [c \in Cmds |-> 0]

CallStep == WriteCommand \/ TimeOutWriting \/ ReadResponse \/ TimeOut \/ Misread

ExecuteStep == CallStep \/ CallFails

EmulatorStep == ReadCommand \/ Respond \/ RespondRest

PathNext ==
  \/ (CallerStep \/ WorkerStep) /\ UNCHANGED pathVars
  \/ ExecuteStep
  \/ EmulatorStep
  \/ HangUp

PathSpec == PathInit /\ [][PathNext]_allVars

\* As for the scheduler; the worker's loop is a task of its own process, and
\* each of its handlers ends.  A call never has to fail, it can time out.
PathFairness ==
  /\ WF_allVars(WorkerStep /\ UNCHANGED pathVars)
  /\ WF_allVars(CallStep)
  /\ WF_allVars(~up /\ CallFails)
  /\ WF_allVars(EmulatorStep)
  /\ \A c \in Cmds : WF_allVars(Enqueue(c) /\ UNCHANGED pathVars)

FairPathSpec == PathSpec /\ PathFairness

-----------------------------------------------------------------------------
(* Properties                                                               *)

PathTypeOK ==
  /\ TypeOK
  /\ up \in BOOLEAN /\ torn \in BOOLEAN /\ short \in BOOLEAN
  /\ adrift \in BOOLEAN /\ written \in BOOLEAN
  /\ wire \in Seq(Cmds) /\ inbox \in Seq(Cmds)
  /\ garbled \subseteq Cmds
  /\ sent \in Seq(Cmds) /\ performed \in Seq(Cmds)
  /\ serving \in Cmds \cup {NoCmd}
  /\ received \in [Cmds -> Cmds \cup {NoCmd}]
  /\ cuts \in Nat /\ cutsAt \in [Cmds -> Nat]

Position(c) == CHOOSE i \in DOMAIN sent : sent[i] = c

\* Calls before c that wrote their command and got no response.
UnansweredBefore(c) ==
  Cardinality({i \in 1 .. Position(c) - 1 : received[sent[i]] = NoCmd})

\* A successful call returns the response to the command written as many
\* places earlier as calls were left without one, less the responses that
\* were lost in a cut stream: its own only when the two are equal, and never
\* one to a later command, whatever was cut off and misread in between.
AnswersShift ==
  \A c \in Cmds :
    received[c] # NoCmd
    => /\ cutsAt[c] <= UnansweredBefore(c)
       /\ received[c] = sent[Position(c) - UnansweredBefore(c) + cutsAt[c]]

\* No command is performed twice, and the worker performs commands in the
\* order the scheduler picked them, timed out or not.
PerformedOnceInOrder ==
  \A i, j \in DOMAIN performed :
    i < j => /\ performed[i] # performed[j]
             /\ \E a, b \in DOMAIN started :
                  a < b /\ started[a] = performed[i] /\ started[b] = performed[j]

\* The worker waits to write a large response and no call reads it.
Stalled == short /\ ~HasSpace /\ wpc = "pop" /\ chan = <<>> /\ Queued = {}

\* A written command is performed although its caller may have been told that
\* it timed out, unless the connection is lost, an earlier command was cut off
\* on it, or the worker waits for the next call to read a large response.
WrittenIsPerformed ==
  \A c \in Cmds :
    (c \in InSeq(sent)) ~> (c \in InSeq(performed) \cup garbled \/ ~up \/ Stalled)

\* crates/gateway/tests/session_command_service.rs:91: the response of a
\* command is what the worker answered to that command.
AnswerMatchesCommand ==
  \A c \in Cmds : received[c] # NoCmd => received[c] = c
=============================================================================
