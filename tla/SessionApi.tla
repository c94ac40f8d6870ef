------------------------------ MODULE SessionApi ----------------------------
(***************************************************************************)
(* The routes under /api/sessions (crates/gateway/src/lib.rs) from the     *)
(* request of a client to the memory of the emulator: the checks of the    *)
(* command's text and of the grants (crates/auth), the event of the input  *)
(* log, the call with its timeout, and the worker that performs it.        *)
(* The order in which a scheduler picks its commands is in                 *)
(* CommandScheduler, the loss of a connection in CommandPath, and the      *)
(* worker's own timeout in WorkerCore.  The RAM is that part of it which   *)
(* the running game leaves alone.                                          *)
(***************************************************************************)
EXTENDS CommandText

CONSTANTS Clients,     \* callers, one request at a time each
          Requests,    \* what each may send: route, args, session, credentials
          Sessions,
          PrincipalOf, \* the principal of each registered token
          First,       \* <<principal, session, role>> granted so far
          Invitations, \* those that may be granted or revoked
          MaxLate,     \* bound: calls the transport gives up until no more are sent
          MaxBacklog,  \* bound: calls inside a session
          MaxOrphans   \* bound: those of them whose handler has gone

Tokens == DOMAIN PrincipalOf

\* A request names a session, and its query has the fields of its route.
ASSUME RequestsAssumption ==
  /\ None \notin Clients
  /\ \A c \in Clients : \A q \in Requests[c] :
       q # None /\ q.session \in Sessions /\ IsRequest(q)

VARIABLES
  grants,     \* AclService.grants
  cpc,        \* where each client's call is
  req,        \* its request
  event,      \* its event in the input log
  ans,        \* status and text of its answer
  queue,      \* calls inside the scheduler of each session
  exec,       \* the call its transport executes
  wire,       \* calls written and not performed by the worker
  inbox,      \* responses written and not read
  emu,        \* the emulator: its RAM and the saved slots
  late,       \* calls the transport has given up
  origin,     \* history: who wrote the bytes of emu, with what value and offset
  truth,      \* history: what the client's read should say
  pressed,    \* history: the press performed for the client's call
  powerless   \* history: clients whose principal had no say over the session
              \* when the call was sent, nor got it before it was admitted

aclVars    == <<grants>>
callVars   == <<cpc, req, event, ans>>
pathVars   == <<queue, exec, wire, inbox, late>>
workerVars == <<emu, origin>>
noteVars   == <<truth, pressed, powerless>>
vars == <<aclVars, callVars, pathVars, workerVars, noteVars>>

NoCall == [from |-> None, q |-> None]

-----------------------------------------------------------------------------
(* crates/auth                                                              *)

Allows(role, permission) ==
  \/ role = "admin"
  \/ role = "owner" /\ permission # "AdminLifecycle"
  \/ role = "controller"
     /\ permission \in {"ViewStream", "ViewInputLogs", "SendKey", "ReadMemory"}
  \/ role = "viewer" /\ permission \in {"ViewStream", "ViewInputLogs"}

\* Mutation: the flag of the grant is not looked at.
IgnoresRevoked(p, s, permission) ==
  <<p, s>> \in DOMAIN grants /\ Allows(grants[<<p, s>>].role, permission)

CheckPrincipal(p, s, permission) ==
  /\ <<p, s>> \in DOMAIN grants
  /\ ~grants[<<p, s>>].revoked
  /\ Allows(grants[<<p, s>>].role, permission)

\* principal_token: the first header hides the second.
Credential(q) == IF q.header # None THEN q.header ELSE q.bearer

\* A reader's and a writer's routes, as command_endpoint is called.
PermissionFor(route) ==
  CASE route \in ReadRoutes \cup {"currentframe"}               -> "ReadMemory"
    [] route \in WriteRoutes \cup SlotRoutes \cup InputRoutes \cup {"reset"} -> "SendKey"
    [] route = "screenshot"                                     -> "ViewStream"
    [] route = "logs"                                           -> "ViewInputLogs"

\* authorize, auth_response: 0 is no refusal.
Refusal(q) ==
  IF Credential(q) \notin Tokens THEN 401
  ELSE IF CheckPrincipal(PrincipalOf[Credential(q)], q.session, PermissionFor(q.route))
       THEN 0 ELSE 403

\* In the reference: a say over a session is any role but the viewer's.
HasSay(acl, q) ==
  /\ Credential(q) \in Tokens
  /\ LET key == <<PrincipalOf[Credential(q)], q.session>> IN
     key \in DOMAIN acl /\ ~acl[key].revoked /\ acl[key].role # "viewer"

SetGrants(acl) ==
  /\ grants' = acl
  /\ powerless' = {c \in powerless : cpc[c] # "sent" \/ ~HasSay(acl, req[c])}
  /\ UNCHANGED <<callVars, pathVars, workerVars, truth, pressed>>

\* grant: a grant of the same principal and session is replaced.
Grant(p, s, role) ==
  SetGrants([k \in DOMAIN grants \cup {<<p, s>>} |->
               IF k = <<p, s>> THEN [role |-> role, revoked |-> FALSE] ELSE grants[k]])

Revoke(p, s) ==
  /\ <<p, s>> \in DOMAIN grants
  /\ SetGrants([grants EXCEPT ![<<p, s>>].revoked = TRUE])

-----------------------------------------------------------------------------
(* The handlers                                                             *)

Send(c, q) ==
  /\ cpc[c] = "idle" /\ late[q.session] < MaxLate
  /\ cpc' = [cpc EXCEPT ![c] = "sent"]
  /\ req' = [req EXCEPT ![c] = q]
  /\ powerless' = IF HasSay(grants, q) THEN powerless \ {c} ELSE powerless \cup {c}
  /\ UNCHANGED <<aclVars, event, ans, pathVars, workerVars, truth, pressed>>

Answer(c, status, text) ==
  /\ cpc' = [cpc EXCEPT ![c] = "answered"]
  /\ ans' = [ans EXCEPT ![c] = <<status, text>>]

Inside(s) == Len(queue[s]) + Len(wire[s]) + Len(inbox[s])

\* command_endpoint up to the scheduler, where the call waits: the text is
\* checked before the token is.
Admit(c) ==
  LET q == req[c] IN
  /\ cpc[c] = "sent" /\ q.route \notin ViewRoutes
  /\ \/ /\ ~ValidCommand(q)
        /\ Answer(c, 400, None)
        /\ UNCHANGED <<event, queue>>
     \/ /\ ValidCommand(q) /\ Refusal(q) # 0
        /\ Answer(c, Refusal(q), None)
        /\ UNCHANGED <<event, queue>>
     \/ /\ ValidCommand(q) /\ Refusal(q) = 0 /\ Inside(q.session) < MaxBacklog
        /\ cpc' = [cpc EXCEPT ![c] = "waiting"]
        /\ event' = [event EXCEPT ![c] = IF q.route \in InputRoutes THEN "pending" ELSE @]
        /\ queue' = [queue EXCEPT ![q.session] = Append(@, [from |-> c, q |-> q])]
        /\ UNCHANGED ans
  /\ UNCHANGED <<aclVars, req, exec, wire, inbox, late, workerVars, noteVars>>

\* screenshot and logs answer from the frame hub and the input log: 503 without
\* a frame, 500 for one that is no picture.
ViewStatus(q) ==
  IF Refusal(q) # 0 THEN {Refusal(q)} ELSE IF q.route = "logs" THEN {200} ELSE {200, 500, 503}

View(c) ==
  /\ cpc[c] = "sent" /\ req[c].route \in ViewRoutes
  /\ \E status \in ViewStatus(req[c]) : Answer(c, status, None)
  /\ UNCHANGED <<aclVars, req, event, pathVars, workerVars, noteVars>>

\* complete_input, fail_input
Logged(c, end) == event' = [event EXCEPT ![c] = IF @ = "pending" THEN end ELSE @]

\* The result of a call, if its handler still waits.
Result(call, status, text) ==
  IF call.from = None THEN UNCHANGED callVars
  ELSE /\ Answer(call.from, status, text)
       /\ Logged(call.from, IF status = 200 THEN "completed" ELSE "failed")
       /\ UNCHANGED req

Orphaned(call, c) == IF call.from = c THEN [call EXCEPT !.from = None] ELSE call
Orphans(s) ==
  Cardinality({k \in DOMAIN queue[s] : queue[s][k].from = None}
              \cup {-k : k \in {k \in DOMAIN wire[s] : wire[s][k].from = None}})
AllOrphaned(calls, c) == [k \in DOMAIN calls |-> Orphaned(calls[k], c)]

\* Five seconds: the handler drops its call, which goes on without it.
GatewayTimeout(c) ==
  LET s == req[c].session IN
  /\ cpc[c] = "waiting" /\ Orphans(s) < MaxOrphans
  /\ Answer(c, 504, None)
  /\ Logged(c, "failed")
  /\ queue' = [queue EXCEPT ![s] = AllOrphaned(@, c)]
  /\ exec' = [exec EXCEPT ![s] = Orphaned(@, c)]
  /\ wire' = [wire EXCEPT ![s] = AllOrphaned(@, c)]
  /\ UNCHANGED <<aclVars, req, inbox, late, workerVars, noteVars>>

\* The client reads its answer; what the model kept about the call is dropped.
Done(c) ==
  /\ cpc[c] = "answered"
  /\ cpc' = [cpc EXCEPT ![c] = "idle"]
  /\ req' = [req EXCEPT ![c] = None]
  /\ event' = [event EXCEPT ![c] = "none"]
  /\ ans' = [ans EXCEPT ![c] = None]
  /\ truth' = [truth EXCEPT ![c] = None]
  /\ pressed' = [pressed EXCEPT ![c] = None]
  /\ powerless' = powerless \ {c}
  /\ UNCHANGED <<aclVars, pathVars, workerVars>>

-----------------------------------------------------------------------------
(* IpcTransport::send                                                       *)

Execute(s) ==
  /\ exec[s] = NoCall
  /\ \E k \in DOMAIN queue[s] :
       LET call == queue[s][k] IN
       /\ queue' = [queue EXCEPT ![s] = SubSeq(@, 1, k - 1) \o SubSeq(@, k + 1, Len(@))]
       /\ \/ /\ Parse(call.q) = Refused
             /\ Result(call, 502, None)
             /\ UNCHANGED <<exec, wire>>
          \/ /\ Parse(call.q) # Refused
             /\ exec' = [exec EXCEPT ![s] = call]
             /\ wire' = [wire EXCEPT ![s] = Append(@, call)]
             /\ UNCHANGED callVars
  /\ UNCHANGED <<aclVars, inbox, late, workerVars, noteVars>>

\* The next response on the connection, whose command may not be the call's own.
Receive(s) ==
  /\ exec[s] # NoCall /\ inbox[s] # <<>>
  /\ Result(exec[s], 200, Text(Head(inbox[s])))
  /\ exec' = [exec EXCEPT ![s] = NoCall]
  /\ inbox' = [inbox EXCEPT ![s] = Tail(@)]
  /\ wire' = [wire EXCEPT ![s] = AllOrphaned(@, exec[s].from)]
  /\ UNCHANGED <<aclVars, queue, late, workerVars, noteVars>>

\* The command and its response stay on the connection.  That a call may also be
\* given up inside a response is in CommandPath; here the properties about
\* answers end with the first call that was given up (InStep).
TransportTimeout(s) ==
  /\ exec[s] # NoCall /\ inbox[s] = <<>> /\ late[s] < MaxLate
  /\ Result(exec[s], 502, None)
  /\ exec' = [exec EXCEPT ![s] = NoCall]
  /\ late' = [late EXCEPT ![s] = @ + 1]
  /\ wire' = [wire EXCEPT ![s] = AllOrphaned(@, exec[s].from)]
  /\ UNCHANGED <<aclVars, queue, inbox, workerVars, noteVars>>

-----------------------------------------------------------------------------
(* The worker                                                               *)

Digit(o) == (o.value \div Byte^o.offset) % Byte

\* The reference for the bytes and for the text of a read.
Overwritten(q, bytes) ==
  [b \in RamBytes |-> IF b \in Covered(q)
                      THEN [value |-> q.args[2].n, offset |-> CHOOSE i \in Offsets(q, b) : TRUE]
                      ELSE bytes[b]]

Reading(q, bytes) ==
  LET at(i) == CHOOSE b \in RamBytes : i \in Offsets(q, b)
      d(i)  == Digit(bytes[at(i)])
  IN IF ~WhollyInRam(q) THEN <<"error">>
     ELSE CASE Width(q) = 1 -> <<"decimal", d(0)>>
            [] Width(q) = 2 -> <<"decimal", d(0) + Byte * d(1)>>
            [] OTHER        -> <<"hex", [k \in 1 .. Width(q) |-> d(k - 1)]>>

NoteOf(call, note, value) ==
  IF call.from = None THEN note ELSE [note EXCEPT ![call.from] = value]

\* The worker is at a command of this kind and sends its response.
Serve(s, op, response) ==
  /\ wire[s] # <<>> /\ Parse(Head(wire[s]).q).op = op
  /\ inbox' = [inbox EXCEPT ![s] = Append(@, response)]
  /\ wire' = [wire EXCEPT ![s] = Tail(@)]
  /\ UNCHANGED <<aclVars, callVars, queue, exec, late, powerless>>

Served(s)  == Head(wire[s])
Command(s) == Parse(Served(s).q)

KeepsEmulator == UNCHANGED workerVars
KeepsNotes    == UNCHANGED <<truth, pressed>>

PerformRead(s) ==
  /\ Serve(s, "read", ReadMemory(emu[s].ram, Command(s).at, Command(s).size))
  /\ truth' = NoteOf(Served(s), truth, Reading(Served(s).q, origin[s].ram))
  /\ UNCHANGED pressed /\ KeepsEmulator

PerformWrite(s) ==
  LET call == Served(s) IN
  /\ Serve(s, "write", [kind |-> IF InRam(Command(s).at, Len(Command(s).data))
                                 THEN "ok" ELSE "error"])
  /\ emu' = [emu EXCEPT ![s].ram = WriteMemory(@, Command(s).at, Command(s).data)]
  /\ origin' = [origin EXCEPT ![s].ram = IF WhollyInRam(call.q) THEN Overwritten(call.q, @) ELSE @]
  /\ KeepsNotes

Stored(slots, slot, data) == [k \in DOMAIN slots \cup {slot} |-> IF k = slot THEN data ELSE slots[k]]

\* The response carries the state, of which its text says "ok".
PerformSave(s) ==
  LET slot == Command(s).slot IN
  /\ \/ /\ Serve(s, "save", [kind |-> "ok"])
        /\ emu' = [emu EXCEPT ![s].slots = Stored(@, slot, emu[s].ram)]
        /\ origin' = [origin EXCEPT ![s].slots = Stored(@, slot, origin[s].ram)]
     \/ Serve(s, "save", [kind |-> "error"]) /\ KeepsEmulator
  /\ KeepsNotes

PerformLoad(s) ==
  LET slot == Command(s).slot IN
  /\ \/ /\ Serve(s, "load", [kind |-> "ok"])
        /\ slot \in DOMAIN emu[s].slots
        /\ emu' = [emu EXCEPT ![s].ram = emu[s].slots[slot]]
        /\ origin' = [origin EXCEPT ![s].ram = origin[s].slots[slot]]
     \/ Serve(s, "load", [kind |-> "error"]) /\ KeepsEmulator
  /\ KeepsNotes

\* Zero in every byte, which no write put there.
Zero       == [value |-> 0, offset |-> 0]
BlankBytes == [b \in RamBytes |-> Zero]
BlankRam   == [b \in RamBytes |-> Digit(Zero)]

\* The core decides what a reset does to the RAM.
PerformReset(s) ==
  /\ Serve(s, "reset", [kind |-> "ok"])
  /\ \/ KeepsEmulator
     \/ /\ emu' = [emu EXCEPT ![s].ram = BlankRam]
        /\ origin' = [origin EXCEPT ![s].ram = BlankBytes]
  /\ KeepsNotes

PerformFrame(s) ==
  /\ Serve(s, "frame", [kind |-> "frame"])
  /\ KeepsEmulator /\ KeepsNotes

\* Pressed, held for its frames and released: WorkerCore has the steps.
PerformPress(s) ==
  /\ Serve(s, "press", [kind |-> "ok"])
  /\ pressed' = NoteOf(Served(s), pressed, <<Command(s).button, Command(s).frames>>)
  /\ UNCHANGED truth /\ KeepsEmulator

Perform(s) ==
  \/ PerformRead(s) \/ PerformWrite(s) \/ PerformSave(s) \/ PerformLoad(s)
  \/ PerformReset(s) \/ PerformFrame(s) \/ PerformPress(s)

-----------------------------------------------------------------------------
NoSlots == [k \in {} |-> None]

Init ==
  /\ grants = [k \in {<<i[1], i[2]>> : i \in First} |->
                 [role |-> (CHOOSE i \in First : <<i[1], i[2]>> = k)[3], revoked |-> FALSE]]
  /\ cpc = [c \in Clients |-> "idle"]
  /\ req = [c \in Clients |-> None]
  /\ event = [c \in Clients |-> "none"]
  /\ ans = [c \in Clients |-> None]
  /\ queue = [s \in Sessions |-> <<>>]
  /\ exec = [s \in Sessions |-> NoCall]
  /\ wire = [s \in Sessions |-> <<>>]
  /\ inbox = [s \in Sessions |-> <<>>]
  /\ late = [s \in Sessions |-> 0]
  /\ emu = [s \in Sessions |-> [ram |-> BlankRam, slots |-> NoSlots]]
  /\ origin = [s \in Sessions |-> [ram |-> BlankBytes, slots |-> NoSlots]]
  /\ truth = [c \in Clients |-> None]
  /\ pressed = [c \in Clients |-> None]
  /\ powerless = {}

AclStep ==
  \/ \E i \in Invitations : Grant(i[1], i[2], i[3])
  \/ \E i \in Invitations : Revoke(i[1], i[2])

ClientStep(c) ==
  (\E q \in Requests[c] : Send(c, q)) \/ Admit(c) \/ View(c) \/ GatewayTimeout(c) \/ Done(c)

SessionStep(s) == Execute(s) \/ Receive(s) \/ TransportTimeout(s) \/ Perform(s)

Next ==
  \/ AclStep
  \/ \E c \in Clients : ClientStep(c)
  \/ \E s \in Sessions : SessionStep(s)

Spec == Init /\ [][Next]_vars

-----------------------------------------------------------------------------
(* Properties                                                               *)

Succeeded(c) == cpc[c] = "answered" /\ ans[c][1] = 200

\* No call of this client's session has been given up by the transport.
InStep(c) == late[req[c].session] = 0

\* Every byte of the RAM, and of every saved slot, is the digit that the last
\* write over it, or the last saved state it was loaded from, puts there, and a
\* read that is answered says what the bytes were when it was performed: for
\* relative and absolute addresses, any overlap of 8, 16 and 32 bit accesses,
\* values too large for their width, and calls that timed out.  A read of no
\* bytes is left out: it has an answer, or an error beyond the RAM.
ReadBack ==
  /\ \A s \in Sessions, b \in RamBytes :
       /\ emu[s].ram[b] = Digit(origin[s].ram[b])
       /\ \A k \in DOMAIN emu[s].slots : emu[s].slots[k][b] = Digit(origin[s].slots[k][b])
  /\ \A c \in Clients : /\ Succeeded(c) /\ InStep(c)
                        /\ req[c].route \in ReadRoutes /\ Width(req[c]) > 0
                        => ans[c][2] = truth[c]

\* A tap or hold that is answered and logged as completed was performed, with
\* the button and the duration its request asked for, if that fits its type and
\* no earlier call of the session has shifted the answers; one that was refused
\* is not in the log.
LogTellsPress ==
  \A c \in Clients : cpc[c] = "answered" /\ req[c].route \in InputRoutes =>
    /\ event[c] = "completed" /\ InStep(c) =>
         TooLong(req[c]) \/ pressed[c] = AskedPress(req[c])
    /\ ans[c][1] \in {400, 401, 403} => event[c] = "none"

\* A call that was sent when its principal had no say over the session, or only
\* a viewer's, and that got none before it was admitted, neither reads the RAM
\* nor presses a button, however long it is under way and whatever is granted
\* or revoked meanwhile.
NoSayNoEffect ==
  \A c \in powerless : truth[c] = None /\ pressed[c] = None
                       /\ \A s \in Sessions : \A k \in DOMAIN wire[s] : wire[s][k].from # c
=============================================================================
