--------------------------- MODULE SessionApiProofs --------------------------
(***************************************************************************)
(* Proofs about SessionApi and CommandText: who has no say over a session  *)
(* neither reads nor presses anything in it, the log tells what was        *)
(* pressed, and a read says what the bytes are, for every size of a byte,  *)
(* of the RAM and of the requests.                                         *)
(***************************************************************************)
EXTENDS SessionApi, SequenceTheorems, FiniteSetTheorems, TLAPS

-----------------------------------------------------------------------------
(* Types                                                                    *)

AllRequests == UNION {Requests[c] : c \in Clients}

Calls == [from : Clients \cup {None}, q : {q \in AllRequests : ValidCommand(q)}]

\* What the calls are; the RAM is in MemoryInv.
ApiTypes ==
  /\ cpc \in [Clients -> {"idle", "sent", "waiting", "answered"}]
  /\ req \in [Clients -> AllRequests \cup {None}]
  /\ \A c \in Clients : cpc[c] # "idle" => req[c] \in AllRequests
  /\ event \in [Clients -> {"none", "pending", "completed", "failed"}]
  /\ DOMAIN ans = Clients /\ DOMAIN truth = Clients /\ DOMAIN pressed = Clients
  /\ queue \in [Sessions -> Seq(Calls)] /\ wire \in [Sessions -> Seq(Calls)]
  /\ exec \in [Sessions -> Calls \cup {NoCall}]
  /\ DOMAIN inbox = Sessions
  /\ late \in [Sessions -> Nat]
  /\ powerless \subseteq Clients

-----------------------------------------------------------------------------
(* The sequences of calls                                                   *)

\* A sequence without its k-th member.
Without(s, k) == SubSeq(s, 1, k - 1) \o SubSeq(s, k + 1, Len(s))

LEMMA WithoutProperties ==
  ASSUME NEW S, NEW s \in Seq(S), NEW k \in DOMAIN s
  PROVE  /\ Without(s, k) \in Seq(S)
         /\ \A i \in DOMAIN Without(s, k) :
              \/ i \in DOMAIN s \ {k} /\ i < k /\ Without(s, k)[i] = s[i]
              \/ i + 1 \in DOMAIN s \ {k} /\ i >= k /\ Without(s, k)[i] = s[i + 1]
<1>1. PICK n \in Nat : n = Len(s) /\ DOMAIN s = 1 .. n /\ \A i \in 1 .. n : s[i] \in S
  BY LenProperties, ElementOfSeq
<1>2. k \in 1 .. n
  BY <1>1
<1> DEFINE a == SubSeq(s, 1, k - 1)
           b == SubSeq(s, k + 1, n)
<1>3. a \in Seq(S) /\ Len(a) = k - 1 /\ \A i \in 1 .. k - 1 : a[i] = s[i]
  <2>1. \A i \in 1 .. k - 1 : s[i] \in S
    BY <1>1, <1>2
  <2>2. /\ SubSeq(s, 1, k - 1) \in Seq(S)
        /\ Len(SubSeq(s, 1, k - 1)) = IF 1 <= k - 1 THEN k - 1 - 1 + 1 ELSE 0
        /\ \A i \in 1 .. k - 1 - 1 + 1 : SubSeq(s, 1, k - 1)[i] = s[1 + i - 1]
    BY <1>2, <2>1, SubSeqProperties
  <2> QED
    BY <1>2, <2>2
<1>4. b \in Seq(S) /\ Len(b) = n - k /\ \A i \in 1 .. n - k : b[i] = s[k + i]
  <2>1. \A i \in k + 1 .. n : s[i] \in S
    BY <1>1, <1>2
  <2>2. /\ SubSeq(s, k + 1, n) \in Seq(S)
        /\ Len(SubSeq(s, k + 1, n)) = IF k + 1 <= n THEN n - (k + 1) + 1 ELSE 0
        /\ \A i \in 1 .. n - (k + 1) + 1 : SubSeq(s, k + 1, n)[i] = s[k + 1 + i - 1]
    BY <1>2, <2>1, SubSeqProperties
  <2>3. /\ n - (k + 1) + 1 = n - k /\ (k + 1 <= n \/ n - k = 0)
        /\ \A i \in 1 .. n - k : k + 1 + i - 1 = k + i
    BY <1>2
  <2> QED
    BY <2>2, <2>3
<1>5. Without(s, k) = a \o b
  BY <1>1 DEF Without
<1> HIDE DEF a, b
<1>6. /\ a \o b \in Seq(S) /\ Len(a \o b) = n - 1
      /\ \A i \in 1 .. n - 1 : (a \o b)[i] = IF i <= k - 1 THEN a[i] ELSE b[i - (k - 1)]
  <2>1. /\ a \o b \in Seq(S) /\ Len(a \o b) = Len(a) + Len(b)
        /\ \A i \in 1 .. Len(a) + Len(b) :
             (a \o b)[i] = IF i <= Len(a) THEN a[i] ELSE b[i - Len(a)]
    BY <1>3, <1>4, ConcatProperties
  <2>2. Len(a) + Len(b) = n - 1
    BY <1>2, <1>3, <1>4
  <2> QED
    BY <1>3, <2>1, <2>2
<1>7. DOMAIN (a \o b) = 1 .. n - 1
  BY <1>6, LenProperties
<1>8. ASSUME NEW i \in 1 .. n - 1
      PROVE  \/ i \in 1 .. n /\ i # k /\ i < k /\ (a \o b)[i] = s[i]
             \/ i + 1 \in 1 .. n /\ i + 1 # k /\ i >= k /\ (a \o b)[i] = s[i + 1]
  <2>1. CASE i <= k - 1
    BY <1>2, <1>3, <1>6, <2>1
  <2>2. CASE ~(i <= k - 1)
    <3>1. i - (k - 1) \in 1 .. n - k /\ k + (i - (k - 1)) = i + 1
      BY <1>2, <2>2
    <3>2. (a \o b)[i] = s[i + 1]
      BY <1>4, <1>6, <2>2, <3>1
    <3> QED
      BY <1>2, <2>2, <3>2
  <2> QED
    BY <2>1, <2>2
<1> QED
  BY <1>1, <1>5, <1>6, <1>7, <1>8

\* What becomes of calls when the handler of one goes away.
LEMMA OrphanedProperties ==
  ASSUME NEW calls \in Seq(Calls), NEW c \in Clients \cup {None}
  PROVE  /\ AllOrphaned(calls, c) \in Seq(Calls)
         /\ DOMAIN AllOrphaned(calls, c) = DOMAIN calls
         /\ Len(AllOrphaned(calls, c)) = Len(calls)
         /\ \A k \in DOMAIN calls :
              /\ AllOrphaned(calls, c)[k] = Orphaned(calls[k], c)
              /\ AllOrphaned(calls, c)[k].q = calls[k].q
              /\ AllOrphaned(calls, c)[k].from \in {None, calls[k].from} \ ({c} \ {None})
<1>1. PICK n \in Nat : n = Len(calls) /\ DOMAIN calls = 1 .. n /\ \A i \in 1 .. n : calls[i] \in Calls
  BY LenProperties, ElementOfSeq
<1>2. \A i \in 1 .. n : Orphaned(calls[i], c) \in Calls
  BY <1>1 DEF Orphaned, Calls
<1>3. [i \in 1 .. n |-> Orphaned(calls[i], c)] \in Seq(Calls)
  BY <1>2, IsASeq
<1>4. AllOrphaned(calls, c) \in Seq(Calls)
  BY <1>1, <1>3 DEF AllOrphaned
<1>5. DOMAIN AllOrphaned(calls, c) = 1 .. n
  BY <1>1 DEF AllOrphaned
<1>6. Len(AllOrphaned(calls, c)) = n
  BY <1>4, <1>5, LenProperties
<1>7. \A k \in 1 .. n : AllOrphaned(calls, c)[k] = Orphaned(calls[k], c)
  BY <1>1 DEF AllOrphaned
<1>8. \A k \in 1 .. n : /\ Orphaned(calls[k], c).q = calls[k].q
                        /\ Orphaned(calls[k], c).from \in {None, calls[k].from} \ ({c} \ {None})
  BY <1>1 DEF Orphaned, Calls
<1> QED
  BY <1>1, <1>4, <1>5, <1>6, <1>7, <1>8

LEMMA OrphanedCall ==
  ASSUME NEW call \in Calls \cup {NoCall}, NEW c \in Clients
  PROVE  /\ Orphaned(call, c) \in Calls \cup {NoCall}
         /\ Orphaned(call, c).q = call.q
         /\ Orphaned(call, c).from \in {None, call.from} \ {c}
         /\ Orphaned(call, c) = NoCall <=> call = NoCall
  BY RequestsAssumption DEF Orphaned, Calls, NoCall, AllRequests

-----------------------------------------------------------------------------
(* Whose calls are under way                                                *)

\* A handler that still waits for a call is that of the call's request.
Held(call, s) ==
  call.from # None => /\ cpc[call.from] = "waiting"
                      /\ req[call.from] = call.q /\ call.q.session = s

\* A call is in the queue or executed, once; what is on the wire belongs to the
\* call being executed, or to nobody.
CallsAt(s) ==
  /\ \A k \in DOMAIN queue[s] :
       /\ Held(queue[s][k], s)
       /\ queue[s][k].from # None =>
            /\ exec[s].from # queue[s][k].from
            /\ \A j \in DOMAIN queue[s] : queue[s][j].from = queue[s][k].from => j = k
  /\ Held(exec[s], s)
  /\ \A k \in DOMAIN wire[s] :
       Held(wire[s][k], s) /\ wire[s][k].from \in {None, exec[s].from}

CallsInv == \A s \in Sessions : CallsAt(s)

-----------------------------------------------------------------------------
(* Types of the calls                                                       *)

LEMMA ApiTypesInit == Init => ApiTypes
<1>1. <<>> \in Seq(Calls)
  BY EmptySeq
<1> QED
  BY <1>1 DEF Init, ApiTypes

\* What the result of a call does.
LEMMA ResultEffect ==
  ASSUME ApiTypes, NEW call \in Calls, NEW status, NEW text, Result(call, status, text)
  PROVE  /\ cpc' \in [Clients -> {"idle", "sent", "waiting", "answered"}]
         /\ event' \in [Clients -> {"none", "pending", "completed", "failed"}]
         /\ req' = req /\ DOMAIN ans' = Clients
         /\ \A c \in Clients \ {call.from} :
              cpc'[c] = cpc[c] /\ event'[c] = event[c] /\ ans'[c] = ans[c]
         /\ call.from \in Clients =>
              /\ cpc'[call.from] = "answered" /\ ans'[call.from] = <<status, text>>
              /\ event'[call.from] = IF event[call.from] # "pending" THEN event[call.from]
                                     ELSE IF status = 200 THEN "completed" ELSE "failed"
<1>1. CASE call.from = None
  <2>1. cpc' = cpc /\ req' = req /\ event' = event /\ ans' = ans
    BY <1>1 DEF Result, callVars
  <2>2. call.from \notin Clients
    BY <1>1, RequestsAssumption
  <2> QED
    BY <2>1, <2>2 DEF ApiTypes
<1>2. CASE call.from # None
  <2>1. call.from \in Clients
    BY <1>2 DEF Calls
  <2> QED
    <3>1. /\ cpc' = [cpc EXCEPT ![call.from] = "answered"] /\ req' = req
          /\ ans' = [ans EXCEPT ![call.from] = <<status, text>>]
      BY <1>2 DEF Result, Answer
    <3>2. PICK end \in {"completed", "failed"} :
            /\ event' = [event EXCEPT ![call.from] = IF @ = "pending" THEN end ELSE @]
            /\ end = IF status = 200 THEN "completed" ELSE "failed"
      BY <1>2 DEF Result, Logged
    <3> QED
      BY <2>1, <3>1, <3>2 DEF ApiTypes
<1> QED
  BY <1>1, <1>2

\* The call the worker is at.
LEMMA ServedCall ==
  ASSUME ApiTypes, NEW s \in Sessions, wire[s] # <<>>
  PROVE  /\ Served(s) \in Calls /\ Tail(wire[s]) \in Seq(Calls)
         /\ Len(wire[s]) \in Nat \ {0} /\ DOMAIN wire[s] = 1 .. Len(wire[s])
         /\ Len(Tail(wire[s])) = Len(wire[s]) - 1
         /\ \A k \in DOMAIN Tail(wire[s]) : k + 1 \in DOMAIN wire[s]
                                            /\ Tail(wire[s])[k] = wire[s][k + 1]
         /\ Served(s) = wire[s][1]
<1>1. wire[s] \in Seq(Calls)
  BY DEF ApiTypes
<1>2. /\ Head(wire[s]) \in Calls /\ Tail(wire[s]) \in Seq(Calls)
      /\ Len(Tail(wire[s])) = Len(wire[s]) - 1 /\ Head(wire[s]) = wire[s][1]
      /\ \A k \in 1 .. Len(Tail(wire[s])) : Tail(wire[s])[k] = wire[s][k + 1]
  BY <1>1, HeadTailProperties
<1>3. PICK n \in Nat : n = Len(wire[s]) /\ DOMAIN wire[s] = 1 .. n /\ n # 0
  BY <1>1, LenProperties, EmptySeq
<1>4. DOMAIN Tail(wire[s]) = 1 .. n - 1
  BY <1>2, <1>3, LenProperties
<1>5. \A k \in 1 .. n - 1 : k + 1 \in 1 .. n
  BY <1>3
<1> QED
  BY <1>2, <1>3, <1>4, <1>5 DEF Served

\* What a command that the worker performs leaves alone.
LEMMA PerformEffect ==
  ASSUME ApiTypes, NEW s \in Sessions, Perform(s)
  PROVE  /\ wire[s] # <<>>
         /\ wire' = [wire EXCEPT ![s] = Tail(wire[s])]
         /\ \E r : inbox' = [inbox EXCEPT ![s] = Append(inbox[s], r)]
         /\ UNCHANGED <<aclVars, callVars, queue, exec, late, powerless>>
         /\ DOMAIN truth' = Clients /\ DOMAIN pressed' = Clients
         /\ \A c \in Clients \ {Served(s).from} : truth'[c] = truth[c] /\ pressed'[c] = pressed[c]
<1>1. Serve(s, "read", ReadMemory(emu[s].ram, Command(s).at, Command(s).size))
      \/ (\E op, r : Serve(s, op, r))
  BY DEF Perform, PerformRead, PerformWrite, PerformSave, PerformLoad, PerformReset,
         PerformFrame, PerformPress
<1>2. \E op, r : Serve(s, op, r)
  BY <1>1
<1>3. /\ \E value : truth' = NoteOf(Served(s), truth, value) \/ truth' = truth
      /\ \E value : pressed' = NoteOf(Served(s), pressed, value) \/ pressed' = pressed
  BY DEF Perform, PerformRead, PerformWrite, PerformSave, PerformLoad, PerformReset,
         PerformFrame, PerformPress, KeepsNotes
<1>4. /\ DOMAIN truth' = Clients /\ DOMAIN pressed' = Clients
      /\ \A c \in Clients \ {Served(s).from} : truth'[c] = truth[c] /\ pressed'[c] = pressed[c]
  BY <1>3 DEF NoteOf, ApiTypes
<1> QED
  BY <1>2, <1>4 DEF Serve

LEMMA ApiTypesStep ==
  ASSUME ApiTypes, CallsInv, [Next]_vars
  PROVE  ApiTypes'
<1>1. CASE AclStep
  <2>1. UNCHANGED <<callVars, pathVars, truth, pressed>> /\ powerless' \subseteq powerless
    BY <1>1 DEF AclStep, Grant, Revoke, SetGrants
  <2> QED
    BY <2>1 DEF ApiTypes, callVars, pathVars
<1>2. ASSUME NEW c \in Clients, NEW q \in Requests[c], Send(c, q)
      PROVE  ApiTypes'
  <2>1. q \in AllRequests
    BY DEF AllRequests
  <2> QED
    BY <1>2, <2>1 DEF Send, ApiTypes, pathVars
<1>3. ASSUME NEW c \in Clients, Admit(c)
      PROVE  ApiTypes'
  <2>1. /\ UNCHANGED <<req, exec, wire, inbox, late, truth, pressed, powerless>>
        /\ cpc' \in [Clients -> {"idle", "sent", "waiting", "answered"}]
        /\ \A d \in Clients : cpc'[d] # "idle" => req[d] \in AllRequests
        /\ event' \in [Clients -> {"none", "pending", "completed", "failed"}]
        /\ DOMAIN ans' = Clients
    BY <1>3 DEF Admit, Answer, ApiTypes, noteVars
  <2>2. queue' \in [Sessions -> Seq(Calls)]
    <3>1. CASE queue' = queue
      BY <3>1 DEF ApiTypes
    <3>2. CASE /\ ValidCommand(req[c])
               /\ queue' = [queue EXCEPT ![req[c].session] = Append(@, [from |-> c, q |-> req[c]])]
      <4>1. req[c] \in AllRequests /\ cpc[c] = "sent"
        BY <1>3 DEF Admit, ApiTypes
      <4>2. [from |-> c, q |-> req[c]] \in Calls
        BY <3>2, <4>1 DEF Calls
      <4> HIDE DEF Calls
      <4>3. \A s \in Sessions : Append(queue[s], [from |-> c, q |-> req[c]]) \in Seq(Calls)
        BY <4>2, AppendProperties DEF ApiTypes
      <4> QED
        BY <3>2, <4>3 DEF ApiTypes
    <3> QED
      BY <1>3, <3>1, <3>2 DEF Admit
  <2> QED
    BY <2>1, <2>2 DEF ApiTypes
<1>4. ASSUME NEW c \in Clients, View(c)
      PROVE  ApiTypes'
  BY <1>4 DEF View, Answer, ApiTypes, pathVars, noteVars
<1>5. ASSUME NEW c \in Clients, GatewayTimeout(c)
      PROVE  ApiTypes'
  <2>1. /\ UNCHANGED <<req, inbox, late, truth, pressed, powerless>>
        /\ cpc' \in [Clients -> {"idle", "sent", "waiting", "answered"}]
        /\ \A d \in Clients : cpc'[d] # "idle" => req[d] \in AllRequests
        /\ event' \in [Clients -> {"none", "pending", "completed", "failed"}]
        /\ DOMAIN ans' = Clients
    BY <1>5 DEF GatewayTimeout, Answer, Logged, ApiTypes, noteVars
  <2>2. \A s \in Sessions : /\ AllOrphaned(queue[s], c) \in Seq(Calls)
                            /\ AllOrphaned(wire[s], c) \in Seq(Calls)
                            /\ Orphaned(exec[s], c) \in Calls \cup {NoCall}
    BY OrphanedProperties, OrphanedCall DEF ApiTypes
  <2>3. /\ queue' \in [Sessions -> Seq(Calls)] /\ wire' \in [Sessions -> Seq(Calls)]
        /\ exec' \in [Sessions -> Calls \cup {NoCall}]
    BY <1>5, <2>2 DEF GatewayTimeout, ApiTypes
  <2> QED
    BY <2>1, <2>3 DEF ApiTypes
<1>6. ASSUME NEW c \in Clients, Done(c)
      PROVE  ApiTypes'
  BY <1>6 DEF Done, ApiTypes, pathVars
<1>7. ASSUME NEW s \in Sessions, Execute(s)
      PROVE  ApiTypes'
  <2>1. PICK k \in DOMAIN queue[s] :
          /\ queue' = [queue EXCEPT ![s] = Without(queue[s], k)]
          /\ \/ Result(queue[s][k], 502, None) /\ UNCHANGED <<exec, wire>>
             \/ /\ exec' = [exec EXCEPT ![s] = queue[s][k]]
                /\ wire' = [wire EXCEPT ![s] = Append(@, queue[s][k])]
                /\ UNCHANGED callVars
    BY <1>7 DEF Execute, Without, ApiTypes
  <2>2. queue[s] \in Seq(Calls)
    BY DEF ApiTypes
  <2>3. queue[s][k] \in Calls /\ Without(queue[s], k) \in Seq(Calls)
    BY <2>2, ElementOfSeq, LenProperties, WithoutProperties
  <2>4. queue' \in [Sessions -> Seq(Calls)]
    BY <2>1, <2>3 DEF ApiTypes
  <2>5. UNCHANGED <<inbox, late, truth, pressed, powerless>>
    BY <1>7 DEF Execute, noteVars
  <2>6. CASE Result(queue[s][k], 502, None) /\ UNCHANGED <<exec, wire>>
    <3>1. /\ cpc' \in [Clients -> {"idle", "sent", "waiting", "answered"}]
          /\ event' \in [Clients -> {"none", "pending", "completed", "failed"}]
          /\ req' = req /\ DOMAIN ans' = Clients
      BY <2>3, <2>6, ResultEffect
    <3>2. queue[s][k].from # None => req[queue[s][k].from] = queue[s][k].q
      BY DEF CallsInv, CallsAt, Held
    <3>3. \A c \in Clients : cpc'[c] # "idle" => req[c] \in AllRequests
      <4> SUFFICES ASSUME NEW c \in Clients, cpc'[c] # "idle"
                   PROVE  req[c] \in AllRequests
        OBVIOUS
      <4>1. CASE c = queue[s][k].from
        BY <2>3, <3>2, <4>1, RequestsAssumption DEF Calls
      <4>2. CASE c # queue[s][k].from
        <5>1. cpc'[c] = cpc[c]
          BY <2>3, <2>6, <4>2, ResultEffect
        <5> QED
          BY <5>1 DEF ApiTypes
      <4> QED
        BY <4>1, <4>2
    <3> QED
      BY <2>4, <2>5, <2>6, <3>1, <3>3 DEF ApiTypes
  <2>7. CASE /\ exec' = [exec EXCEPT ![s] = queue[s][k]]
             /\ wire' = [wire EXCEPT ![s] = Append(@, queue[s][k])]
             /\ UNCHANGED callVars
    <3>1. Append(wire[s], queue[s][k]) \in Seq(Calls)
      BY <2>3, AppendProperties DEF ApiTypes
    <3>2. wire' \in [Sessions -> Seq(Calls)] /\ exec' \in [Sessions -> Calls \cup {NoCall}]
      BY <2>3, <2>7, <3>1 DEF ApiTypes
    <3> QED
      BY <2>4, <2>5, <2>7, <3>2 DEF ApiTypes, callVars
  <2> QED
    BY <2>1, <2>6, <2>7
<1>8. ASSUME NEW s \in Sessions, Receive(s) \/ TransportTimeout(s)
      PROVE  ApiTypes'
  <2>1. /\ exec[s] # NoCall /\ exec' = [exec EXCEPT ![s] = NoCall]
        /\ wire' = [wire EXCEPT ![s] = AllOrphaned(@, exec[s].from)]
        /\ UNCHANGED <<queue, truth, pressed, powerless>>
        /\ \E status, text : Result(exec[s], status, text)
    BY <1>8 DEF Receive, TransportTimeout, noteVars
  <2>2. exec[s] \in Calls /\ exec[s].from \in Clients \cup {None}
    BY <2>1 DEF ApiTypes, Calls
  <2>3. DOMAIN inbox' = Sessions /\ late' \in [Sessions -> Nat]
    <3>1. CASE Receive(s)
      BY <3>1 DEF Receive, ApiTypes
    <3>2. CASE TransportTimeout(s)
      BY <3>2 DEF TransportTimeout, ApiTypes
    <3> QED
      BY <1>8, <3>1, <3>2
  <2>4. AllOrphaned(wire[s], exec[s].from) \in Seq(Calls)
    BY <2>2, OrphanedProperties DEF ApiTypes
  <2>5. wire' \in [Sessions -> Seq(Calls)] /\ exec' \in [Sessions -> Calls \cup {NoCall}]
    BY <2>1, <2>4 DEF ApiTypes
  <2>6. /\ cpc' \in [Clients -> {"idle", "sent", "waiting", "answered"}]
        /\ event' \in [Clients -> {"none", "pending", "completed", "failed"}]
        /\ req' = req /\ DOMAIN ans' = Clients
    BY <2>1, <2>2, ResultEffect
  <2>7. exec[s].from # None => req[exec[s].from] = exec[s].q
    BY <2>1 DEF CallsInv, CallsAt, Held
  <2>8. ASSUME NEW c \in Clients, cpc'[c] # "idle"
        PROVE  req[c] \in AllRequests
    <3>1. CASE c = exec[s].from
      BY <2>2, <2>7, <3>1, RequestsAssumption DEF Calls
    <3>2. CASE c # exec[s].from
      <4>1. cpc'[c] = cpc[c]
        BY <2>1, <2>2, <3>2, ResultEffect
      <4> QED
        BY <2>8, <4>1 DEF ApiTypes
    <3> QED
      BY <3>1, <3>2
  <2> QED
    BY <2>1, <2>3, <2>5, <2>6, <2>8 DEF ApiTypes
<1>9. ASSUME NEW s \in Sessions, Perform(s)
      PROVE  ApiTypes'
  <2>1. /\ wire[s] # <<>> /\ wire' = [wire EXCEPT ![s] = Tail(wire[s])]
        /\ \E r : inbox' = [inbox EXCEPT ![s] = Append(inbox[s], r)]
        /\ UNCHANGED <<callVars, queue, exec, late, powerless>>
        /\ DOMAIN truth' = Clients /\ DOMAIN pressed' = Clients
    BY <1>9, PerformEffect
  <2>2. Tail(wire[s]) \in Seq(Calls)
    BY <2>1, ServedCall
  <2> QED
    BY <2>1, <2>2 DEF ApiTypes, callVars
<1>10. CASE UNCHANGED vars
  BY <1>10 DEF vars, callVars, pathVars, noteVars, ApiTypes
<1> QED
  BY <1>1, <1>2, <1>3, <1>4, <1>5, <1>6, <1>7, <1>8, <1>9, <1>10
     DEF Next, ClientStep, SessionStep

LEMMA CallsInit == Init => CallsInv
  BY DEF Init, CallsInv, CallsAt, Held, NoCall

\* The calls of a session, one by one.
LEMMA SessionCalls ==
  ASSUME ApiTypes, NEW s \in Sessions
  PROVE  /\ queue[s] \in Seq(Calls) /\ wire[s] \in Seq(Calls)
         /\ \A k \in DOMAIN queue[s] : queue[s][k] \in Calls
         /\ \A k \in DOMAIN wire[s] : wire[s][k] \in Calls
         /\ exec[s] \in Calls \cup {NoCall}
  BY ElementOfSeq, LenProperties DEF ApiTypes

LEMMA CallFrom ==
  ASSUME NEW call \in Calls \cup {NoCall}
  PROVE  call.from \in Clients \cup {None} /\ (call.from # None => call \in Calls)
  BY DEF Calls, NoCall

\* A session whose calls stay, and whose waiting handlers do.
LEMMA CallsStay ==
  ASSUME ApiTypes, NEW s \in Sessions, CallsAt(s),
         queue'[s] = queue[s], exec'[s] = exec[s], wire'[s] = wire[s],
         \A c \in Clients : cpc[c] = "waiting" /\ req[c].session = s
                            => cpc'[c] = "waiting" /\ req'[c] = req[c]
  PROVE  CallsAt(s)'
<1>1. ASSUME NEW call \in Calls \cup {NoCall}, Held(call, s)
      PROVE  Held(call, s)'
  BY <1>1, CallFrom DEF Held
<1>2. \A k \in DOMAIN queue[s] : Held(queue[s][k], s)'
  BY <1>1, SessionCalls DEF CallsAt
<1>3. \A k \in DOMAIN wire[s] : Held(wire[s][k], s)'
  BY <1>1, SessionCalls DEF CallsAt
<1>4. Held(exec[s], s)'
  BY <1>1, SessionCalls DEF CallsAt
<1> QED
  BY <1>2, <1>3, <1>4 DEF CallsAt, Held

\* A handler waits in its request's session only.
LEMMA HeldHere ==
  ASSUME NEW s \in Sessions, NEW t \in Sessions, NEW call, Held(call, s), call.from # None,
         s # t
  PROVE  /\ cpc[call.from] = "waiting" /\ req[call.from] = call.q
         /\ req[call.from].session # t
  BY DEF Held

LEMMA CallsStep ==
  ASSUME ApiTypes, CallsInv, [Next]_vars
  PROVE  CallsInv'
<1>1. ASSUME UNCHANGED <<queue, exec, wire>>,
             \A c \in Clients : cpc[c] = "waiting" => cpc'[c] = "waiting" /\ req'[c] = req[c]
      PROVE  CallsInv'
  BY <1>1, CallsStay DEF CallsInv
<1>2. CASE AclStep
  BY <1>1, <1>2 DEF AclStep, Grant, Revoke, SetGrants, callVars, pathVars
<1>3. ASSUME NEW c \in Clients, NEW q \in Requests[c], Send(c, q)
      PROVE  CallsInv'
  BY <1>1, <1>3 DEF Send, pathVars, ApiTypes
<1>4. ASSUME NEW c \in Clients, View(c) \/ Done(c)
      PROVE  CallsInv'
  BY <1>1, <1>4 DEF View, Done, Answer, pathVars, ApiTypes
<1>5. ASSUME NEW c \in Clients, Admit(c)
      PROVE  CallsInv'
  <2>1. CASE queue' = queue
    BY <1>1, <1>5, <2>1 DEF Admit, Answer, ApiTypes
  <2>2. CASE queue' # queue
    <3>1. /\ queue' = [queue EXCEPT ![req[c].session] = Append(@, [from |-> c, q |-> req[c]])]
          /\ cpc[c] = "sent" /\ cpc' = [cpc EXCEPT ![c] = "waiting"]
          /\ req[c] \in AllRequests /\ ValidCommand(req[c])
          /\ UNCHANGED <<req, exec, wire>>
      BY <1>5, <2>2 DEF Admit, ApiTypes
    <3>2. PICK s \in Sessions, call \in Calls :
            /\ s = req[c].session /\ call = [from |-> c, q |-> req[c]]
            /\ call.from = c /\ call.q = req[c]
      BY <3>1, RequestsAssumption DEF Calls, AllRequests
    <3>3. \A d \in Clients : cpc[d] = "waiting" => cpc'[d] = "waiting" /\ req'[d] = req[d]
      BY <3>1 DEF ApiTypes
    <3>4. ASSUME NEW t \in Sessions, t # s
          PROVE  CallsAt(t)'
      <4>1. queue'[t] = queue[t] /\ exec'[t] = exec[t] /\ wire'[t] = wire[t]
        BY <3>1, <3>2, <3>4 DEF ApiTypes
      <4> QED
        BY <3>3, <4>1, CallsStay DEF CallsInv
    <3>5. \A other \in Calls \cup {NoCall} :
            Held(other, s) => Held(other, s)' /\ other.from # c
      BY <3>1, <3>3, CallFrom, RequestsAssumption DEF Held
    <3>6. Held(call, s)'
      BY <3>1, <3>2 DEF Held, ApiTypes
    <3>7. PICK n \in Nat :
            /\ DOMAIN queue[s] = 1 .. n /\ DOMAIN queue'[s] = 1 .. n + 1
            /\ \A k \in 1 .. n : queue'[s][k] = queue[s][k]
            /\ queue'[s][n + 1] = call
      <4>1. queue[s] \in Seq(Calls) /\ queue'[s] = Append(queue[s], call)
        BY <3>1, <3>2 DEF ApiTypes
      <4>2. PICK n \in Nat : n = Len(queue[s]) /\ DOMAIN queue[s] = 1 .. n
        BY <4>1, LenProperties
      <4>3. /\ queue'[s] \in Seq(Calls) /\ Len(queue'[s]) = n + 1
            /\ \A k \in 1 .. n : queue'[s][k] = queue[s][k]
            /\ queue'[s][n + 1] = call
        BY <3>2, <4>1, <4>2, AppendProperties
      <4> QED
        BY <4>2, <4>3, LenProperties
    <3>8. \A k \in 1 .. n + 1 : k \in 1 .. n \/ k = n + 1
      OBVIOUS
    <3>9. /\ CallsAt(s) /\ exec[s] \in Calls \cup {NoCall}
          /\ \A k \in 1 .. n : queue[s][k] \in Calls
          /\ \A k \in DOMAIN wire[s] : wire[s][k] \in Calls
      BY <3>7, SessionCalls DEF CallsInv
    <3>10. \A k \in 1 .. n : queue[s][k].from # c
      BY <3>5, <3>7, <3>9 DEF CallsAt
    <3>11. exec[s].from # c
      BY <3>5, <3>9 DEF CallsAt
    <3>12. (\A k \in DOMAIN queue[s] : Held(queue[s][k], s))'
      BY <3>5, <3>6, <3>7, <3>8, <3>9 DEF CallsAt, Held
    <3>13. (\A k \in DOMAIN wire[s] :
              Held(wire[s][k], s) /\ wire[s][k].from \in {None, exec[s].from})'
      BY <3>1, <3>5, <3>9 DEF CallsAt, Held
    <3>14. Held(exec[s], s)'
      BY <3>1, <3>5, <3>9 DEF CallsAt, Held
    <3>15. ASSUME NEW k \in DOMAIN queue'[s], queue'[s][k].from # None
           PROVE  /\ exec'[s].from # queue'[s][k].from
                  /\ \A j \in DOMAIN queue'[s] : queue'[s][j].from = queue'[s][k].from => j = k
      <4>1. CASE k = n + 1
        BY <3>1, <3>2, <3>7, <3>8, <3>10, <3>11, <4>1
      <4>2. CASE k \in 1 .. n
        <5>1. /\ exec[s].from # queue[s][k].from
              /\ \A j \in 1 .. n : queue[s][j].from = queue[s][k].from => j = k
          BY <3>7, <3>9, <3>15, <4>2 DEF CallsAt
        <5> QED
          BY <3>1, <3>2, <3>7, <3>8, <3>10, <4>2, <5>1
      <4> QED
        BY <3>7, <3>8, <4>1, <4>2
    <3>16. CallsAt(s)'
      BY <3>12, <3>13, <3>14, <3>15 DEF CallsAt
    <3> QED
      BY <3>4, <3>16 DEF CallsInv
  <2> QED
    BY <2>1, <2>2
<1>6. ASSUME NEW c \in Clients, GatewayTimeout(c)
      PROVE  CallsInv'
  <2>1. /\ cpc[c] = "waiting" /\ cpc' = [cpc EXCEPT ![c] = "answered"] /\ req' = req
        /\ queue' = [queue EXCEPT ![req[c].session] = AllOrphaned(@, c)]
        /\ exec' = [exec EXCEPT ![req[c].session] = Orphaned(@, c)]
        /\ wire' = [wire EXCEPT ![req[c].session] = AllOrphaned(@, c)]
    BY <1>6 DEF GatewayTimeout, Answer
  <2>2. PICK s \in Sessions : s = req[c].session
    <3>1. req[c] \in AllRequests
      BY <2>1 DEF ApiTypes
    <3> QED
      BY <3>1, RequestsAssumption DEF AllRequests
  <2>3. ASSUME NEW t \in Sessions, t # s
        PROVE  CallsAt(t)'
    <3>1. \A d \in Clients : cpc[d] = "waiting" /\ req[d].session = t
                             => cpc'[d] = "waiting" /\ req'[d] = req[d]
      BY <2>1, <2>2, <2>3 DEF ApiTypes
    <3>2. queue'[t] = queue[t] /\ exec'[t] = exec[t] /\ wire'[t] = wire[t]
      BY <2>1, <2>2, <2>3 DEF ApiTypes
    <3> QED
      BY <3>1, <3>2, CallsStay DEF CallsInv
  <2>4. CallsAt(s)'
    <3>1. /\ queue'[s] = AllOrphaned(queue[s], c) /\ wire'[s] = AllOrphaned(wire[s], c)
          /\ exec'[s] = Orphaned(exec[s], c)
      BY <2>1, <2>2 DEF ApiTypes
    <3>2. \A call \in Calls \cup {NoCall} : Held(call, s) => Held(Orphaned(call, c), s)'
      <4> SUFFICES ASSUME NEW call \in Calls \cup {NoCall}, Held(call, s),
                          Orphaned(call, c).from # None
                   PROVE  Held(Orphaned(call, c), s)'
        BY DEF Held
      <4>1. /\ Orphaned(call, c).q = call.q
            /\ Orphaned(call, c).from = call.from /\ call.from \in Clients \ {c}
        BY OrphanedCall, CallFrom
      <4> QED
        BY <2>1, <4>1 DEF Held, ApiTypes
    <3>3. /\ DOMAIN queue'[s] = DOMAIN queue[s]
          /\ \A k \in DOMAIN queue[s] : /\ queue'[s][k] = Orphaned(queue[s][k], c)
                                        /\ queue[s][k] \in Calls
      BY <2>2, <3>1, OrphanedProperties, SessionCalls
    <3>4. /\ DOMAIN wire'[s] = DOMAIN wire[s]
          /\ \A k \in DOMAIN wire[s] : /\ wire'[s][k] = Orphaned(wire[s][k], c)
                                       /\ wire[s][k] \in Calls
      BY <2>2, <3>1, OrphanedProperties, SessionCalls
    <3>5. CallsAt(s) /\ exec[s] \in Calls \cup {NoCall}
      BY <2>2, SessionCalls DEF CallsInv
    <3>6. \A call \in Calls \cup {NoCall} :
            Orphaned(call, c).from = IF call.from = c THEN None ELSE call.from
      BY DEF Orphaned, Calls, NoCall
    <3>7. (\A k \in DOMAIN queue[s] : Held(queue[s][k], s))'
      BY <3>2, <3>3, <3>5 DEF CallsAt, Held
    <3>8. (\A k \in DOMAIN wire[s] : Held(wire[s][k], s))'
      BY <3>2, <3>4, <3>5 DEF CallsAt, Held
    <3>9. Held(exec[s], s)'
      BY <3>1, <3>2, <3>5 DEF CallsAt, Held
    <3>10. \A k \in DOMAIN wire'[s] : wire'[s][k].from \in {None, exec'[s].from}
      BY <3>1, <3>4, <3>5, <3>6 DEF CallsAt
    <3>11. ASSUME NEW k \in DOMAIN queue'[s], queue'[s][k].from # None
           PROVE  /\ exec'[s].from # queue'[s][k].from
                  /\ \A j \in DOMAIN queue'[s] : queue'[s][j].from = queue'[s][k].from => j = k
      BY <3>1, <3>3, <3>5, <3>6, <3>11 DEF CallsAt
    <3> QED
      BY <3>7, <3>8, <3>9, <3>10, <3>11 DEF CallsAt
  <2> QED
    BY <2>3, <2>4 DEF CallsInv
<1>7. ASSUME NEW s \in Sessions, Execute(s)
      PROVE  CallsInv'
  <2>1. PICK k \in DOMAIN queue[s] :
          /\ queue' = [queue EXCEPT ![s] = Without(queue[s], k)]
          /\ \/ Result(queue[s][k], 502, None) /\ UNCHANGED <<exec, wire>>
             \/ /\ exec' = [exec EXCEPT ![s] = queue[s][k]]
                /\ wire' = [wire EXCEPT ![s] = Append(@, queue[s][k])]
                /\ UNCHANGED callVars
    BY <1>7 DEF Execute, Without, ApiTypes
  <2>2. exec[s] = NoCall /\ CallsAt(s)
    BY <1>7 DEF Execute, CallsInv
  <2>3. PICK call \in Calls : call = queue[s][k]
    BY SessionCalls
  <2>4. Held(call, s) /\ call \in Calls \cup {NoCall}
    BY <2>2, <2>3 DEF CallsAt
  <2>5. /\ UNCHANGED req
        /\ \A c \in Clients : c # call.from => cpc'[c] = cpc[c]
    <3>1. CASE Result(call, 502, None)
      BY <3>1, ResultEffect
    <3>2. CASE UNCHANGED callVars
      BY <3>2 DEF callVars
    <3> QED
      BY <2>1, <2>3, <3>1, <3>2
  <2>6. ASSUME NEW t \in Sessions, t # s
        PROVE  CallsAt(t)'
    <3>1. \A d \in Clients : cpc[d] = "waiting" /\ req[d].session = t
                             => cpc'[d] = "waiting" /\ req'[d] = req[d]
      <4> SUFFICES ASSUME NEW d \in Clients, cpc[d] = "waiting", req[d].session = t,
                          d = call.from
                   PROVE  FALSE
        BY <2>5
      <4>1. call.from # None
        BY RequestsAssumption
      <4> QED
        BY <2>4, <2>6, <4>1 DEF Held
    <3>2. queue'[t] = queue[t] /\ exec'[t] = exec[t] /\ wire'[t] = wire[t]
      BY <2>1, <2>6 DEF ApiTypes
    <3> QED
      BY <3>1, <3>2, CallsStay DEF CallsInv
  <2>7. \A j \in DOMAIN queue[s] : queue[s][j].from = call.from /\ call.from # None => j = k
    BY <2>2, <2>3 DEF CallsAt
  <2>8. \A other \in Calls \cup {NoCall} :
          Held(other, s) /\ (other.from = call.from => other.from = None) => Held(other, s)'
    BY <2>5, CallFrom DEF Held
  <2>9. /\ queue'[s] = Without(queue[s], k)
        /\ \A i \in DOMAIN queue'[s] :
             \E j \in DOMAIN queue[s] \ {k} :
               /\ queue'[s][i] = queue[s][j]
               /\ j = IF i < k THEN i ELSE i + 1
    <3>1. queue'[s] = Without(queue[s], k) /\ queue[s] \in Seq(Calls)
      BY <2>1 DEF ApiTypes
    <3>2. PICK n \in Nat : DOMAIN queue[s] = 1 .. n
      BY <3>1, LenProperties
    <3>3. \A i \in DOMAIN Without(queue[s], k) :
            \/ i \in DOMAIN queue[s] \ {k} /\ i < k /\ Without(queue[s], k)[i] = queue[s][i]
            \/ /\ i + 1 \in DOMAIN queue[s] \ {k} /\ i >= k
               /\ Without(queue[s], k)[i] = queue[s][i + 1]
      BY <3>1, WithoutProperties
    <3>4. DOMAIN Without(queue[s], k) \subseteq Nat
      <4>1. Without(queue[s], k) \in Seq(Calls)
        BY <3>1, WithoutProperties
      <4> QED
        BY <4>1, LenProperties
    <3>5. \A i \in Nat : i >= k => ~(i < k)
      BY <3>2
    <3> QED
      BY <3>1, <3>3, <3>4, <3>5
  <2>10. DOMAIN queue'[s] \subseteq Nat /\ k \in Nat
    <3>1. queue'[s] \in Seq(Calls) /\ queue[s] \in Seq(Calls)
      BY <2>9, WithoutProperties DEF ApiTypes
    <3> QED
      BY <3>1, LenProperties
  <2>11. (\A i \in DOMAIN queue[s] : Held(queue[s][i], s))'
    <3> SUFFICES ASSUME NEW i \in DOMAIN queue'[s]
                 PROVE  Held(queue[s][i], s)'
      OBVIOUS
    <3>1. PICK j \in DOMAIN queue[s] \ {k} : queue'[s][i] = queue[s][j]
      BY <2>9
    <3>2. PICK other \in Calls : other = queue[s][j]
      BY SessionCalls
    <3>3. Held(other, s) /\ (other.from = call.from => other.from = None)
      BY <2>2, <2>7, <3>1, <3>2 DEF CallsAt
    <3>4. Held(other, s)'
      BY <2>8, <3>3
    <3> QED
      BY <3>1, <3>2, <3>4 DEF Held
  <2>12. ASSUME NEW i \in DOMAIN queue'[s], queue'[s][i].from # None
         PROVE  /\ exec'[s].from # queue'[s][i].from
                /\ \A m \in DOMAIN queue'[s] : queue'[s][m].from = queue'[s][i].from => m = i
    <3>1. PICK j \in DOMAIN queue[s] \ {k} :
            queue'[s][i] = queue[s][j] /\ j = IF i < k THEN i ELSE i + 1
      BY <2>9
    <3>2. exec'[s].from \in {None, call.from}
      BY <2>1, <2>2, <2>3 DEF NoCall, ApiTypes
    <3>3. queue[s][j].from # call.from
      BY <2>7, <2>12, <3>1
    <3>4. ASSUME NEW m \in DOMAIN queue'[s], queue'[s][m].from = queue'[s][i].from
          PROVE  m = i
      <4>1. PICK h \in DOMAIN queue[s] \ {k} :
              queue'[s][m] = queue[s][h] /\ h = IF m < k THEN m ELSE m + 1
        BY <2>9
      <4>2. h = j
        BY <2>2, <2>12, <3>1, <3>4, <4>1 DEF CallsAt
      <4>3. i \in Nat /\ m \in Nat /\ k \in Nat
        BY <2>10
      <4> QED
        BY <3>1, <4>1, <4>2, <4>3
    <3> QED
      BY <2>12, <3>1, <3>2, <3>3, <3>4
  <2>13. Held(exec[s], s)' /\ (\A i \in DOMAIN wire[s] :
                                 /\ Held(wire[s][i], s)
                                 /\ wire[s][i].from \in {None, exec[s].from})'
    <3>1. \A i \in DOMAIN wire[s] : wire[s][i].from = None /\ wire[s][i] \in Calls
      BY <2>2, SessionCalls DEF CallsAt, NoCall
    <3>2. CASE Result(call, 502, None) /\ UNCHANGED <<exec, wire>>
      BY <2>2, <3>1, <3>2 DEF Held, NoCall
    <3>3. CASE /\ exec' = [exec EXCEPT ![s] = call]
               /\ wire' = [wire EXCEPT ![s] = Append(@, call)]
               /\ UNCHANGED callVars
      <4>1. exec'[s] = call /\ wire'[s] = Append(wire[s], call) /\ wire[s] \in Seq(Calls)
        BY <3>3 DEF ApiTypes
      <4>2. PICK n \in Nat : /\ DOMAIN wire[s] = 1 .. n /\ DOMAIN wire'[s] = 1 .. n + 1
                             /\ \A i \in 1 .. n : wire'[s][i] = wire[s][i]
                             /\ wire'[s][n + 1] = call
        <5>1. PICK n \in Nat : n = Len(wire[s]) /\ DOMAIN wire[s] = 1 .. n
          BY <4>1, LenProperties
        <5>2. /\ wire'[s] \in Seq(Calls) /\ Len(wire'[s]) = n + 1
              /\ \A i \in 1 .. n : wire'[s][i] = wire[s][i]
              /\ wire'[s][n + 1] = call
          BY <4>1, <5>1, AppendProperties
        <5> QED
          BY <5>1, <5>2, LenProperties
      <4>3. \A i \in 1 .. n + 1 : i \in 1 .. n \/ i = n + 1
        OBVIOUS
      <4>4. Held(call, s)'
        BY <2>4, <3>3 DEF Held, callVars
      <4>5. Held(exec[s], s)'
        BY <4>1, <4>4 DEF Held
      <4>6. ASSUME NEW i \in DOMAIN wire'[s]
            PROVE  Held(wire[s][i], s)' /\ wire'[s][i].from \in {None, exec'[s].from}
        <5>1. CASE i \in 1 .. n
          BY <3>1, <4>2, <5>1 DEF Held
        <5>2. CASE i = n + 1
          BY <4>1, <4>2, <4>4, <5>2 DEF Held
        <5> QED
          BY <4>2, <4>3, <5>1, <5>2
      <4> QED
        BY <4>5, <4>6
    <3> QED
      BY <2>1, <2>3, <3>2, <3>3
  <2>14. CallsAt(s)'
    BY <2>11, <2>12, <2>13 DEF CallsAt
  <2> QED
    BY <2>6, <2>14 DEF CallsInv
<1>8. ASSUME NEW s \in Sessions, Receive(s) \/ TransportTimeout(s)
      PROVE  CallsInv'
  <2>1. /\ exec[s] # NoCall /\ exec' = [exec EXCEPT ![s] = NoCall]
        /\ wire' = [wire EXCEPT ![s] = AllOrphaned(@, exec[s].from)]
        /\ queue' = queue
        /\ \E status, text : Result(exec[s], status, text)
    BY <1>8 DEF Receive, TransportTimeout
  <2>2. PICK call \in Calls : call = exec[s]
    BY <2>1 DEF ApiTypes
  <2>3. CallsAt(s) /\ Held(call, s) /\ call.from \in Clients \cup {None}
    BY <2>2 DEF CallsInv, CallsAt, Calls
  <2>4. UNCHANGED req /\ \A c \in Clients : c # call.from => cpc'[c] = cpc[c]
    BY <2>1, <2>2, ResultEffect
  <2>5. ASSUME NEW t \in Sessions, t # s
        PROVE  CallsAt(t)'
    <3>1. \A d \in Clients : cpc[d] = "waiting" /\ req[d].session = t
                             => cpc'[d] = "waiting" /\ req'[d] = req[d]
      <4> SUFFICES ASSUME NEW d \in Clients, cpc[d] = "waiting", req[d].session = t,
                          d = call.from
                   PROVE  FALSE
        BY <2>4
      <4>1. call.from # None
        BY RequestsAssumption
      <4> QED
        BY <2>3, <2>5, <4>1 DEF Held
    <3>2. queue'[t] = queue[t] /\ exec'[t] = exec[t] /\ wire'[t] = wire[t]
      BY <2>1, <2>5 DEF ApiTypes
    <3> QED
      BY <3>1, <3>2, CallsStay DEF CallsInv
  <2>6. \A other \in Calls \cup {NoCall} :
          Held(other, s) /\ (other.from = call.from => other.from = None) => Held(other, s)'
    BY <2>4, CallFrom DEF Held
  <2>7. (\A k \in DOMAIN queue[s] : Held(queue[s][k], s))'
    <3> SUFFICES ASSUME NEW k \in DOMAIN queue[s]
                 PROVE  Held(queue[s][k], s)'
      BY <2>1
    <3>1. PICK other \in Calls : other = queue[s][k]
      BY SessionCalls
    <3>2. Held(other, s) /\ (other.from = call.from => other.from = None)
      BY <2>2, <2>3, <3>1 DEF CallsAt
    <3>3. Held(other, s)'
      BY <2>6, <3>2
    <3> QED
      BY <2>1, <3>1, <3>3 DEF Held
  <2>8. exec'[s] = NoCall
    BY <2>1 DEF ApiTypes
  <2>9. /\ DOMAIN wire'[s] = DOMAIN wire[s]
        /\ \A k \in DOMAIN wire[s] : wire'[s][k].from \in {None, wire[s][k].from} \ ({call.from} \ {None})
    <3>1. wire'[s] = AllOrphaned(wire[s], call.from) /\ wire[s] \in Seq(Calls)
      BY <2>1, <2>2 DEF ApiTypes
    <3> QED
      BY <2>3, <3>1, OrphanedProperties
  <2>10. \A k \in DOMAIN wire'[s] : wire'[s][k].from = None
    BY <2>2, <2>3, <2>9 DEF CallsAt
  <2>11. CallsAt(s)'
    BY <2>1, <2>3, <2>7, <2>8, <2>10 DEF CallsAt, Held, NoCall
  <2> QED
    BY <2>5, <2>11 DEF CallsInv
<1>9. ASSUME NEW s \in Sessions, Perform(s)
      PROVE  CallsInv'
  <2>1. /\ wire[s] # <<>> /\ wire' = [wire EXCEPT ![s] = Tail(wire[s])]
        /\ UNCHANGED <<callVars, queue, exec>>
    BY <1>9, PerformEffect
  <2>2. UNCHANGED <<cpc, req>>
    BY <2>1 DEF callVars
  <2>3. ASSUME NEW t \in Sessions
        PROVE  CallsAt(t)'
    <3>1. CASE t # s
      BY <2>1, <2>2, <3>1, CallsStay DEF CallsInv, ApiTypes
    <3>2. CASE t = s
      <4>1. \A k \in DOMAIN wire'[s] : k + 1 \in DOMAIN wire[s] /\ wire'[s][k] = wire[s][k + 1]
        BY <2>1, ServedCall DEF ApiTypes
      <4>2. CallsAt(s)
        BY DEF CallsInv
      <4> QED
        BY <2>1, <2>2, <3>2, <4>1, <4>2 DEF CallsAt, Held
    <3> QED
      BY <3>1, <3>2
  <2> QED
    BY <2>3 DEF CallsInv
<1>10. CASE UNCHANGED vars
  BY <1>1, <1>10 DEF vars, callVars, pathVars
<1> QED
  BY <1>2, <1>3, <1>4, <1>5, <1>6, <1>7, <1>8, <1>9, <1>10
     DEF Next, ClientStep, SessionStep

-----------------------------------------------------------------------------
(* Who has a say                                                            *)

\* Who had no say is waited for by nobody and has left no trace.
SayInv ==
  \A c \in Clients :
    /\ cpc[c] \in {"idle", "sent"} => truth[c] = None /\ pressed[c] = None
    /\ c \in powerless => /\ cpc[c] \in {"sent", "answered"}
                          /\ truth[c] = None /\ pressed[c] = None
                          /\ cpc[c] = "sent" => ~HasSay(grants, req[c])

\* A command is admitted only for a principal with a say.
LEMMA AdmittedHasSay ==
  ASSUME NEW q, ValidCommand(q), Refusal(q) = 0
  PROVE  HasSay(grants, q)
<1>1. /\ Credential(q) \in Tokens
      /\ CheckPrincipal(PrincipalOf[Credential(q)], q.session, PermissionFor(q.route))
  BY DEF Refusal
<1>2. PermissionFor(q.route) \in {"ReadMemory", "SendKey"}
  BY DEF ValidCommand, PermissionFor, ReadRoutes, WriteRoutes, SlotRoutes, InputRoutes
<1>3. \A role : Allows(role, PermissionFor(q.route)) => role # "viewer"
  BY <1>2 DEF Allows
<1> QED
  BY <1>1, <1>3 DEF HasSay, CheckPrincipal

LEMMA SayInit == Init => SayInv
  BY DEF Init, SayInv

\* The handler whose call is in a session waits.
LEMMA WaitsFor ==
  ASSUME ApiTypes, CallsInv, NEW s \in Sessions, NEW call,
         \/ call = exec[s]
         \/ \E k \in DOMAIN queue[s] : call = queue[s][k]
         \/ wire[s] # <<>> /\ call = Served(s),
         call.from # None
  PROVE  /\ call \in Calls /\ call.from \in Clients
         /\ cpc[call.from] = "waiting" /\ req[call.from] = call.q /\ call.q.session = s
<1>1. CallsAt(s)
  BY DEF CallsInv
<1>2. Held(call, s) /\ call \in Calls \cup {NoCall}
  <2>1. CASE call = exec[s]
    BY <1>1, <2>1, SessionCalls DEF CallsAt
  <2>2. CASE \E k \in DOMAIN queue[s] : call = queue[s][k]
    BY <1>1, <2>2, SessionCalls DEF CallsAt
  <2>3. CASE wire[s] # <<>> /\ call = Served(s)
    <3>1. 1 \in DOMAIN wire[s] /\ call = wire[s][1]
      BY <2>3, ServedCall
    <3> QED
      BY <1>1, <3>1, SessionCalls DEF CallsAt
  <2> QED
    BY <2>1, <2>2, <2>3
<1> QED
  BY <1>2, CallFrom DEF Held

LEMMA SayStep ==
  ASSUME ApiTypes, CallsInv, SayInv, [Next]_vars
  PROVE  SayInv'
<1>1. CASE AclStep
  <2>1. PICK acl : SetGrants(acl)
    BY <1>1 DEF AclStep, Grant, Revoke
  <2>2. /\ grants' = acl /\ UNCHANGED <<cpc, req, truth, pressed>>
        /\ powerless' = {c \in powerless : cpc[c] # "sent" \/ ~HasSay(acl, req[c])}
    BY <2>1 DEF SetGrants, callVars
  <2> QED
    BY <2>2 DEF SayInv, HasSay
<1>2. ASSUME NEW c \in Clients, NEW q \in Requests[c], Send(c, q)
      PROVE  SayInv'
  <2>1. /\ cpc[c] = "idle" /\ cpc' = [cpc EXCEPT ![c] = "sent"]
        /\ req' = [req EXCEPT ![c] = q]
        /\ powerless' = IF HasSay(grants, q) THEN powerless \ {c} ELSE powerless \cup {c}
        /\ UNCHANGED <<grants, truth, pressed>>
    BY <1>2 DEF Send, aclVars
  <2>2. req'[c] = q /\ cpc'[c] = "sent" /\ truth[c] = None /\ pressed[c] = None
    BY <2>1 DEF ApiTypes, SayInv
  <2>3. ASSUME NEW d \in Clients, d # c
        PROVE  /\ req'[d] = req[d] /\ cpc'[d] = cpc[d]
               /\ d \in powerless' <=> d \in powerless
    BY <2>1, <2>3 DEF ApiTypes
  <2>4. c \in powerless' <=> ~HasSay(grants, q)
    BY <2>1
  <2> QED
    BY <2>1, <2>2, <2>3, <2>4 DEF SayInv, HasSay
<1>3. ASSUME NEW c \in Clients, Admit(c)
      PROVE  SayInv'
  <2>1. /\ cpc[c] = "sent" /\ UNCHANGED <<grants, req, truth, pressed, powerless>>
        /\ \A d \in Clients : d # c => cpc'[d] = cpc[d]
        /\ \/ cpc'[c] = "answered"
           \/ cpc'[c] = "waiting" /\ ValidCommand(req[c]) /\ Refusal(req[c]) = 0
    BY <1>3 DEF Admit, Answer, aclVars, noteVars, ApiTypes
  <2>2. cpc'[c] = "waiting" => c \notin powerless
    BY <2>1, AdmittedHasSay DEF SayInv
  <2> QED
    BY <2>1, <2>2 DEF SayInv, HasSay
<1>4. ASSUME NEW c \in Clients, View(c)
      PROVE  SayInv'
  BY <1>4 DEF View, Answer, SayInv, aclVars, noteVars, ApiTypes, HasSay
<1>5. ASSUME NEW c \in Clients, GatewayTimeout(c)
      PROVE  SayInv'
  <2>1. /\ cpc[c] = "waiting" /\ cpc' = [cpc EXCEPT ![c] = "answered"]
        /\ UNCHANGED <<grants, req, truth, pressed, powerless>>
    BY <1>5 DEF GatewayTimeout, Answer, aclVars, noteVars
  <2> QED
    BY <2>1 DEF SayInv, ApiTypes, HasSay
<1>6. ASSUME NEW c \in Clients, Done(c)
      PROVE  SayInv'
  <2>1. /\ cpc' = [cpc EXCEPT ![c] = "idle"] /\ req' = [req EXCEPT ![c] = None]
        /\ truth' = [truth EXCEPT ![c] = None] /\ pressed' = [pressed EXCEPT ![c] = None]
        /\ powerless' = powerless \ {c} /\ UNCHANGED grants
    BY <1>6 DEF Done, aclVars
  <2> QED
    BY <2>1 DEF SayInv, ApiTypes, HasSay
<1>7. ASSUME UNCHANGED <<grants, req, truth, pressed, powerless>>,
             \A c \in Clients : \/ cpc'[c] = cpc[c]
                                \/ cpc[c] = "waiting" /\ cpc'[c] = "answered"
      PROVE  SayInv'
  BY <1>7 DEF SayInv, HasSay
<1>8. ASSUME NEW s \in Sessions, Execute(s) \/ Receive(s) \/ TransportTimeout(s)
      PROVE  SayInv'
  <2>1. UNCHANGED <<grants, truth, pressed, powerless>>
    BY <1>8 DEF Execute, Receive, TransportTimeout, aclVars, noteVars
  <2>2. CASE UNCHANGED callVars
    BY <1>7, <2>1, <2>2 DEF callVars
  <2>3. CASE ~(UNCHANGED callVars)
    <3>1. PICK call, status, text :
            /\ Result(call, status, text)
            /\ \/ call = exec[s] /\ exec[s] # NoCall
               \/ \E k \in DOMAIN queue[s] : call = queue[s][k]
      BY <1>8, <2>3 DEF Execute, Receive, TransportTimeout
    <3>2. call \in Calls
      BY <3>1, SessionCalls DEF ApiTypes
    <3>3. req' = req /\ \A c \in Clients : c # call.from => cpc'[c] = cpc[c]
      BY <3>1, <3>2, ResultEffect
    <3>4. call.from # None => cpc[call.from] = "waiting" /\ cpc'[call.from] = "answered"
      BY <3>1, <3>2, WaitsFor, ResultEffect
    <3>5. \A c \in Clients : c = call.from => call.from # None
      BY RequestsAssumption
    <3> QED
      BY <1>7, <2>1, <3>3, <3>4, <3>5
  <2> QED
    BY <2>2, <2>3
<1>9. ASSUME NEW s \in Sessions, Perform(s)
      PROVE  SayInv'
  <2>1. /\ wire[s] # <<>> /\ UNCHANGED <<grants, cpc, req, powerless>>
        /\ \A c \in Clients \ {Served(s).from} : truth'[c] = truth[c] /\ pressed'[c] = pressed[c]
    BY <1>9, PerformEffect DEF aclVars, callVars
  <2>2. \A c \in Clients : c = Served(s).from => cpc[c] = "waiting"
    BY <2>1, WaitsFor, RequestsAssumption
  <2> QED
    BY <2>1, <2>2 DEF SayInv, HasSay
<1>10. CASE UNCHANGED vars
  BY <1>7, <1>10 DEF vars, aclVars, callVars, noteVars
<1> QED
  BY <1>1, <1>2, <1>3, <1>4, <1>5, <1>6, <1>8, <1>9, <1>10 DEF Next, ClientStep, SessionStep

\* Whoever had no say over a session, or only a viewer's, when a call was sent
\* and until it was admitted reads and presses nothing in it, whatever is
\* granted or revoked later (crates/gateway/src/lib.rs:600).
THEOREM NoSayNothingDone == Spec => []NoSayNoEffect
<1>1. ApiTypes /\ CallsInv /\ SayInv => NoSayNoEffect
  <2> SUFFICES ASSUME ApiTypes, CallsInv, SayInv, NEW c \in powerless
               PROVE  /\ truth[c] = None /\ pressed[c] = None
                      /\ \A s \in Sessions : \A k \in DOMAIN wire[s] : wire[s][k].from # c
    BY DEF NoSayNoEffect
  <2>1. c \in Clients /\ c # None /\ cpc[c] # "waiting" /\ truth[c] = None /\ pressed[c] = None
    BY RequestsAssumption DEF ApiTypes, SayInv
  <2> QED
    BY <2>1 DEF CallsInv, CallsAt, Held
<1> QED
  BY <1>1, ApiTypesInit, ApiTypesStep, CallsInit, CallsStep, SayInit, SayStep, PTL DEF Spec

-----------------------------------------------------------------------------
(* What an address stands for                                               *)

\* The bytes of an access that fits: from its start on, each with one offset.
LEMMA InsideRam ==
  ASSUME NEW q, NEW at \in Nat, q.args[1].n = at, NEW w \in Nat \ {0}, Width(q) = w,
         InRam(at, w)
  PROVE  /\ RamStart(at) \in Nat /\ RamStart(at) + w <= RamSize
         /\ \A b \in RamBytes : \A i \in 0 .. w - 1 :
              i \in Offsets(q, b) <=> b = RamStart(at) + i
         /\ \A b \in RamBytes : \A i \in Offsets(q, b) :
              i = b - RamStart(at) /\ i \in 0 .. w - 1
<1>1. RamStart(at) \in Nat /\ RamStart(at) + w <= RamSize
  BY RamAssumption DEF RamStart, InRam
<1>2. \A b \in RamBytes : \A i \in 0 .. w - 1 :
        i \in Offsets(q, b) <=> at + i = b \/ at + i = RamBase + b
  BY DEF Offsets, Names
<1>3. \A b \in RamBytes : \A i \in 0 .. w - 1 :
        at + i = b \/ at + i = RamBase + b <=> b = RamStart(at) + i
  <2>1. CASE at >= RamBase
    BY <2>1, RamAssumption DEF RamStart, RamBytes
  <2>2. CASE ~(at >= RamBase)
    BY <1>1, <2>2, RamAssumption DEF RamStart, RamBytes
  <2> QED
    BY <2>1, <2>2
<1>4. \A b \in RamBytes : \A i \in Offsets(q, b) : i \in 0 .. w - 1
  BY DEF Offsets
<1>5. \A b \in RamBytes : \A i \in 0 .. w - 1 : b = RamStart(at) + i => i = b - RamStart(at)
  BY <1>1 DEF RamBytes
<1> QED
  BY <1>1, <1>2, <1>3, <1>4, <1>5

\* A byte is under an access that fits if its distance from the start is.
LEMMA CoveredInside ==
  ASSUME NEW q, NEW at \in Nat, q.args[1].n = at, NEW w \in Nat \ {0}, Width(q) = w,
         InRam(at, w)
  PROVE  /\ Covered(q) = RamStart(at) .. RamStart(at) + w - 1
         /\ \A b \in RamBytes : b \in Covered(q) <=> b - RamStart(at) + 1 \in 1 .. w
         /\ \A b \in Covered(q) : (CHOOSE i \in Offsets(q, b) : TRUE) = b - RamStart(at)
<1>1. /\ RamStart(at) \in Nat /\ RamStart(at) + w <= RamSize
      /\ \A b \in RamBytes : \A i \in 0 .. w - 1 :
           i \in Offsets(q, b) <=> b = RamStart(at) + i
      /\ \A b \in RamBytes : \A i \in Offsets(q, b) :
           i = b - RamStart(at) /\ i \in 0 .. w - 1
  BY InsideRam
<1> DEFINE start == RamStart(at)
<1>2. start \in Nat /\ start + w <= RamSize
  BY <1>1
<1>3. \A b \in RamBytes : \A i \in 0 .. w - 1 : i \in Offsets(q, b) <=> b = start + i
  BY <1>1
<1>4. \A b \in RamBytes : \A i \in Offsets(q, b) : i = b - start /\ i \in 0 .. w - 1
  BY <1>1
<1> HIDE DEF start
<1>5. \A b \in RamBytes : b \in start .. start + w - 1 => b - start \in Offsets(q, b)
  <2> SUFFICES ASSUME NEW b \in RamBytes, b \in start .. start + w - 1
               PROVE  b - start \in Offsets(q, b)
    OBVIOUS
  <2>1. b - start \in 0 .. w - 1 /\ b = start + (b - start)
    BY <1>2 DEF RamBytes
  <2> QED
    BY <1>3, <2>1
<1>6. \A b \in RamBytes : Offsets(q, b) # {} => b \in start .. start + w - 1
  BY <1>2, <1>4 DEF RamBytes
<1>7. \A b \in start .. start + w - 1 : b \in RamBytes
  BY <1>2, RamAssumption DEF RamBytes
<1>8. Covered(q) = start .. start + w - 1
  BY <1>5, <1>6, <1>7 DEF Covered
<1>9. \A b \in RamBytes : b \in start .. start + w - 1 <=> b - start + 1 \in 1 .. w
  BY <1>2 DEF RamBytes
<1>10. \A b \in Covered(q) : (CHOOSE i \in Offsets(q, b) : TRUE) = b - start
  <2> SUFFICES ASSUME NEW b \in Covered(q)
               PROVE  (CHOOSE i \in Offsets(q, b) : TRUE) \in Offsets(q, b) /\ b \in RamBytes
    BY <1>4
  <2> QED
    BY DEF Covered
<1> QED
  BY <1>8, <1>9, <1>10 DEF start

\* An access lies wholly in the RAM just if the worker's range check says so.
LEMMA RangeCheck ==
  ASSUME NEW q, NEW at \in Nat, q.args[1].n = at, NEW w \in Nat \ {0}, Width(q) = w
  PROVE  WhollyInRam(q) <=> InRam(at, w)
<1>1. CASE InRam(at, w)
  <2>1. Covered(q) = RamStart(at) .. RamStart(at) + w - 1 /\ RamStart(at) \in Nat
    BY <1>1, CoveredInside, InsideRam
  <2>2. PICK start \in Nat : start = RamStart(at)
    BY <2>1
  <2>3. Cardinality(start .. start + w - 1) = w
    <3>1. Cardinality(start .. start + w - 1)
            = IF start > start + w - 1 THEN 0 ELSE start + w - 1 - start + 1
      BY FS_Interval
    <3> QED
      BY <3>1
  <2> QED
    BY <1>1, <2>1, <2>2, <2>3 DEF WhollyInRam
<1>2. CASE ~InRam(at, w)
  \* One of its offsets is no byte's; the others are one byte's each.
  <2>1. PICK gap \in 0 .. w - 1 : \A b \in RamBytes : gap \notin Offsets(q, b)
    <3>1. CASE at >= RamBase
      <4>1. \A b \in RamBytes : at + (w - 1) # b /\ at + (w - 1) # RamBase + b
        BY <1>2, <3>1, RamAssumption DEF InRam, RamStart, RamBytes
      <4> QED
        BY <4>1 DEF Offsets, Names
    <3>2. CASE at < RamBase /\ at >= RamSize
      <4>1. \A b \in RamBytes : at + 0 # b /\ at + 0 # RamBase + b
        BY <3>2, RamAssumption DEF RamBytes
      <4> QED
        BY <4>1 DEF Offsets, Names
    <3>3. CASE at < RamBase /\ at < RamSize
      <4>1. RamSize - at \in 0 .. w - 1
        BY <1>2, <3>3, RamAssumption DEF InRam, RamStart
      <4>2. \A b \in RamBytes : at + (RamSize - at) # b /\ at + (RamSize - at) # RamBase + b
        BY <3>3, RamAssumption DEF RamBytes
      <4> QED
        BY <4>1, <4>2 DEF Offsets, Names
    <3> QED
      BY <3>1, <3>2, <3>3, RamAssumption
  <2> DEFINE used == {i \in 0 .. w - 1 : \E b \in RamBytes : i \in Offsets(q, b)}
             byte == [i \in used |-> CHOOSE b \in RamBytes : i \in Offsets(q, b)]
  <2>2. IsFiniteSet(used) /\ Cardinality(used) < w
    <3>1. IsFiniteSet(0 .. w - 1) /\ Cardinality(0 .. w - 1) = w
      BY FS_Interval
    <3>2. used \in SUBSET (0 .. w - 1) /\ used # 0 .. w - 1
      BY <2>1
    <3> HIDE DEF used
    <3>3. /\ IsFiniteSet(used) /\ Cardinality(used) <= Cardinality(0 .. w - 1)
          /\ Cardinality(0 .. w - 1) # Cardinality(used)
      BY <3>1, <3>2, FS_Subset
    <3>4. Cardinality(used) \in Nat
      BY <3>3, FS_CardinalityType
    <3> QED
      BY <3>1, <3>3, <3>4
  <2>3. \A i \in used : \A b, d \in RamBytes : i \in Offsets(q, b) /\ i \in Offsets(q, d) => b = d
    <3>1. \A i \in Nat : \A b, d \in RamBytes :
            at + i \in {b, RamBase + b} /\ at + i \in {d, RamBase + d} => b = d
      BY RamAssumption DEF RamBytes
    <3> QED
      BY <3>1 DEF Offsets, Names
  <2>4. byte \in Surjection(used, Covered(q))
    <3>1. \A i \in used : byte[i] \in RamBytes /\ i \in Offsets(q, byte[i])
      OBVIOUS
    <3>2. \A i \in used : byte[i] \in Covered(q)
      BY <3>1 DEF Covered
    <3>3. \A b \in Covered(q) : \E i \in used : byte[i] = b
      <4> SUFFICES ASSUME NEW b \in Covered(q)
                   PROVE  \E i \in used : byte[i] = b
        OBVIOUS
      <4>1. PICK i : i \in Offsets(q, b) /\ b \in RamBytes
        BY DEF Covered
      <4>2. i \in used
        BY <4>1 DEF Offsets
      <4> QED
        BY <2>3, <3>1, <4>1, <4>2
    <3> HIDE DEF used
    <3> QED
      BY <3>2, <3>3 DEF Surjection
  <2> HIDE DEF used, byte
  <2>5. IsFiniteSet(Covered(q)) /\ Cardinality(Covered(q)) <= Cardinality(used)
    BY <2>2, <2>4, FS_Surjection
  <2>6. PICK m \in Nat, n \in Nat : m = Cardinality(Covered(q)) /\ n = Cardinality(used)
    BY <2>2, <2>5, FS_CardinalityType
  <2> QED
    BY <1>2, <2>2, <2>5, <2>6 DEF WhollyInRam
<1> QED
  BY <1>1, <1>2

-----------------------------------------------------------------------------
(* What a call's text is parsed into                                        *)

Routes == ReadRoutes \cup WriteRoutes \cup SlotRoutes \cup InputRoutes \cup {"reset", "currentframe"}

\* The route of a valid command, and its arguments, if they are numbers.
LEMMA CommandArguments ==
  ASSUME NEW q \in AllRequests, ValidCommand(q)
  PROVE  /\ q.route \in Routes
         /\ q.route # "hold" => Arguments(q) = q.args
         /\ q.route \in ReadRoutes \cup WriteRoutes \cup SlotRoutes => q.args[1].n \in Nat
         /\ q.route \in WriteRoutes \cup {"readrange"} => q.args[2].n \in Nat
<1>1. IsRequest(q) /\ q.route \in Routes
  BY RequestsAssumption
     DEF AllRequests, ValidCommand, Routes, ReadRoutes, WriteRoutes, SlotRoutes, InputRoutes
<1>2. PICK n \in ArgumentCounts(q.route) :
        /\ DOMAIN q.args = 1 .. n
        /\ \A i \in 1 .. n : /\ q.args[i].form \in Forms
                             /\ IsNumeric(q.args[i]) => q.args[i].n \in Nat
  BY <1>1, Zenon DEF IsRequest
<1>3. q.route # "hold" => Arguments(q) = q.args
  BY DEF Arguments
<1>4. ASSUME q.route \in ReadRoutes \cup WriteRoutes \cup SlotRoutes
      PROVE  q.args[1].n \in Nat
  <2>1. n \in {1, 2}
    BY <1>2, <1>4 DEF ArgumentCounts, ReadRoutes, WriteRoutes, SlotRoutes, ViewRoutes
  <2>2. IsNumeric(q.args[1])
    BY <1>3, <1>4 DEF ValidCommand, ReadRoutes, WriteRoutes, SlotRoutes, IsNumeric, IsDecimal,
                      InputRoutes
  <2> QED
    BY <1>2, <2>1, <2>2
<1>5. ASSUME q.route \in WriteRoutes \cup {"readrange"}
      PROVE  q.args[2].n \in Nat
  <2>1. n = 2
    BY <1>2, <1>5 DEF ArgumentCounts, WriteRoutes, SlotRoutes, ViewRoutes
  <2>2. IsNumeric(q.args[2])
    BY <1>3, <1>5 DEF ValidCommand, WriteRoutes, SlotRoutes, IsNumeric, IsDecimal, InputRoutes
  <2> QED
    BY <1>2, <2>1, <2>2
<1> QED
  BY <1>1, <1>3, <1>4, <1>5

\* The kind of command follows from the route.
LEMMA ParsedKind ==
  ASSUME NEW q \in AllRequests, ValidCommand(q)
  PROVE  /\ Parse(q).op = "read"  => q.route \in ReadRoutes
         /\ Parse(q).op = "write" => q.route \in WriteRoutes
         /\ Parse(q).op = "press" <=> q.route \in InputRoutes
         /\ q.route \in ReadRoutes => Parse(q).op \in {"read", "unknown command"}
<1>1. q.route \in Routes
  BY CommandArguments
<1>2. CASE q.route \in ReadRoutes
  BY <1>2 DEF Parse, Refused, ReadRoutes, WriteRoutes, SlotRoutes, InputRoutes
<1>3. CASE q.route \in WriteRoutes
  BY <1>3 DEF Parse, Refused, ReadRoutes, WriteRoutes, SlotRoutes, InputRoutes
<1>4. CASE q.route \in SlotRoutes
  BY <1>4 DEF Parse, Refused, ReadRoutes, WriteRoutes, SlotRoutes, InputRoutes
<1>5. CASE q.route \in InputRoutes
  BY <1>5 DEF Parse, Refused, ReadRoutes, WriteRoutes, SlotRoutes, InputRoutes
<1>6. CASE q.route \in {"reset", "currentframe"}
  BY <1>6 DEF Parse, Refused, ReadRoutes, WriteRoutes, SlotRoutes, InputRoutes
<1> QED
  BY <1>1, <1>2, <1>3, <1>4, <1>5, <1>6 DEF Routes

LEMMA ParsedRead ==
  ASSUME NEW q \in AllRequests, ValidCommand(q), Parse(q).op = "read"
  PROVE  /\ q.route \in ReadRoutes
         /\ Parse(q).at = q.args[1].n /\ q.args[1].n \in Nat
         /\ Parse(q).size = Width(q) /\ Width(q) \in Nat
<1>1. q.route \in ReadRoutes
  BY ParsedKind
<1>2. Arguments(q) = q.args /\ q.args[1].n \in Nat
  BY <1>1, CommandArguments DEF ReadRoutes
<1>3. Parse(q) = [op |-> "read", at |-> q.args[1].n, size |-> Width(q)] \/ Parse(q) = Refused
  BY <1>1, <1>2 DEF Parse
<1>4. Width(q) \in Nat
  BY <1>1, CommandArguments DEF Width, ReadRoutes
<1>5. Parse(q) # Refused
  <2>1. Refused.op = "unknown command"
    BY DEF Refused
  <2> QED
    BY <2>1
<1> QED
  BY <1>1, <1>2, <1>3, <1>4, <1>5

LEMMA ParsedWrite ==
  ASSUME NEW q \in AllRequests, ValidCommand(q), Parse(q).op = "write"
  PROVE  /\ q.route \in WriteRoutes
         /\ Parse(q).at = q.args[1].n /\ q.args[1].n \in Nat
         /\ Parse(q).data = LittleEndian(q.args[2].n, Width(q)) /\ Width(q) \in {1, 2, 4}
         /\ q.args[2].n \in Nat
<1>1. q.route \in WriteRoutes
  BY ParsedKind
<1>2. Arguments(q) = q.args /\ q.args[1].n \in Nat /\ q.args[2].n \in Nat
  BY <1>1, CommandArguments DEF WriteRoutes
<1>3. \/ Parse(q) = [op |-> "write", at |-> q.args[1].n,
                     data |-> LittleEndian(q.args[2].n, Width(q))]
      \/ Parse(q) = Refused
  BY <1>1, <1>2 DEF Parse, WriteRoutes, ReadRoutes
<1>4. Width(q) \in {1, 2, 4}
  BY <1>1 DEF Width, WriteRoutes
<1>5. Parse(q) # Refused
  <2>1. Refused.op = "unknown command"
    BY DEF Refused
  <2> QED
    BY <2>1
<1> QED
  BY <1>1, <1>2, <1>3, <1>4, <1>5

\* A press is the one that was asked for, unless its duration is too long.
LEMMA ParsedPress ==
  ASSUME NEW q \in AllRequests, ValidCommand(q), q.route \in InputRoutes
  PROVE  TooLong(q) \/ <<Parse(q).button, Parse(q).frames>> = AskedPress(q)
<1>1. CASE q.route = "tap"
  BY <1>1, CommandArguments
     DEF Parse, AskedPress, ReadRoutes, WriteRoutes, SlotRoutes
<1>2. CASE q.route = "hold"
  <2>1. IsDecimal(Arguments(q)[2])
    BY <1>2 DEF ValidCommand, IsDuration, WriteRoutes, SlotRoutes
  <2>2. Arguments(q)[1] = q.args[1]
    BY DEF Arguments
  <2>3. Parse(q) = [op |-> "press", button |-> q.args[1].n, frames |-> HoldFrames(Arguments(q)[2])]
    BY <1>2, <2>2 DEF Parse, ReadRoutes, WriteRoutes, SlotRoutes
  <2> QED
    BY <1>2, <2>1, <2>3 DEF TooLong, HoldFrames, AskedPress
<1> QED
  BY <1>1, <1>2 DEF InputRoutes

-----------------------------------------------------------------------------
(* The memory and what is said of it                                        *)

\* The bytes that a history says were written.
Image(bytes) == [b \in RamBytes |-> Digit(bytes[b])]

Histories == [RamBytes -> [value : Nat, offset : Nat]]

\* An emulator whose RAM and saved slots are what their histories say.
Mirrors(emulator, history) ==
  \E bytes, slots :
    /\ bytes \in Histories
    /\ \A k \in DOMAIN slots : slots[k] \in Histories
    /\ history = [ram |-> bytes, slots |-> slots]
    /\ emulator = [ram |-> Image(bytes), slots |-> [k \in DOMAIN slots |-> Image(slots[k])]]

MemoryInv ==
  /\ DOMAIN emu = Sessions /\ DOMAIN origin = Sessions
  /\ \A s \in Sessions : Mirrors(emu[s], origin[s])

LEMMA BlankMirrors == BlankBytes \in Histories /\ Image(BlankBytes) = BlankRam
  BY DEF BlankBytes, BlankRam, Histories, Image, Zero

LEMMA MemoryInit == Init => MemoryInv
<1> SUFFICES ASSUME Init
             PROVE  MemoryInv
  OBVIOUS
<1>1. /\ emu = [s \in Sessions |-> [ram |-> BlankRam, slots |-> NoSlots]]
      /\ origin = [s \in Sessions |-> [ram |-> BlankBytes, slots |-> NoSlots]]
  BY DEF Init
<1>2. DOMAIN NoSlots = {} /\ NoSlots = [k \in DOMAIN NoSlots |-> Image(NoSlots[k])]
  BY DEF NoSlots
<1>3. Mirrors([ram |-> BlankRam, slots |-> NoSlots], [ram |-> BlankBytes, slots |-> NoSlots])
  BY <1>2, BlankMirrors DEF Mirrors
<1> QED
  BY <1>1, <1>3 DEF MemoryInv

\* The bytes of a value, the first of them first, are its digits.
LEMMA WrittenBytes ==
  ASSUME NEW bytes \in Histories, NEW q \in AllRequests, ValidCommand(q), Parse(q).op = "write"
  PROVE  /\ WriteMemory(Image(bytes), Parse(q).at, Parse(q).data)
              = Image(IF WhollyInRam(q) THEN Overwritten(q, bytes) ELSE bytes)
         /\ Overwritten(q, bytes) \in Histories
<1>1. PICK at \in Nat, v \in Nat, w \in Nat \ {0} :
        /\ at = q.args[1].n /\ v = q.args[2].n /\ w = Width(q)
        /\ Parse(q).at = at /\ Parse(q).data = LittleEndian(v, w)
  BY ParsedWrite
<1> DEFINE data == LittleEndian(v, w)
<1>2. /\ DOMAIN data = 1 .. w /\ Len(data) = w /\ Parse(q).data = data
      /\ \A i \in 1 .. w : data[i] = Digit([value |-> v, offset |-> i - 1])
  BY <1>1 DEF LittleEndian, Digit
<1> HIDE DEF data
<1>3. WhollyInRam(q) <=> InRam(at, w)
  BY <1>1, RangeCheck
<1>4. Overwritten(q, bytes) \in Histories
  <2> SUFFICES ASSUME NEW b \in RamBytes, b \in Covered(q)
               PROVE  (CHOOSE i \in Offsets(q, b) : TRUE) \in Nat
    BY <1>1 DEF Overwritten, Histories
  <2>1. (CHOOSE i \in Offsets(q, b) : TRUE) \in Offsets(q, b)
    BY DEF Covered
  <2> QED
    BY <1>1, <2>1 DEF Offsets
<1>5. CASE ~InRam(at, w)
  <2>1. WriteMemory(Image(bytes), at, data) = [b \in RamBytes |-> Image(bytes)[b]]
    BY <1>2, <1>5 DEF WriteMemory
  <2>2. Image(bytes) = [b \in RamBytes |-> Image(bytes)[b]]
    BY DEF Image
  <2> QED
    BY <1>1, <1>2, <1>3, <1>4, <1>5, <2>1, <2>2
<1>6. CASE InRam(at, w)
  <2>1. /\ \A b \in RamBytes : b \in Covered(q) <=> b - RamStart(at) + 1 \in 1 .. w
        /\ \A b \in Covered(q) : (CHOOSE i \in Offsets(q, b) : TRUE) = b - RamStart(at)
        /\ RamStart(at) \in Nat
    BY <1>1, <1>6, CoveredInside, InsideRam
  <2>2. WriteMemory(Image(bytes), at, data)
          = [b \in RamBytes |-> IF b - RamStart(at) + 1 \in 1 .. w
                                THEN data[b - RamStart(at) + 1] ELSE Digit(bytes[b])]
    BY <1>2, <1>6 DEF WriteMemory, Image
  <2>3. \A b \in RamBytes : b - RamStart(at) + 1 \in 1 .. w
          => data[b - RamStart(at) + 1] = Digit([value |-> v, offset |-> b - RamStart(at)])
    <3> SUFFICES ASSUME NEW b \in RamBytes, b - RamStart(at) + 1 \in 1 .. w
                 PROVE  data[b - RamStart(at) + 1] = Digit([value |-> v, offset |-> b - RamStart(at)])
      OBVIOUS
    <3>1. PICK i \in 1 .. w : i = b - RamStart(at) + 1 /\ i - 1 = b - RamStart(at)
      BY <2>1 DEF RamBytes
    <3> QED
      BY <1>2, <3>1
  <2>4. \A b \in RamBytes : Overwritten(q, bytes)[b]
          = IF b - RamStart(at) + 1 \in 1 .. w
            THEN [value |-> v, offset |-> b - RamStart(at)] ELSE bytes[b]
    BY <1>1, <2>1 DEF Overwritten
  <2>5. Image(Overwritten(q, bytes))
          = [b \in RamBytes |-> IF b - RamStart(at) + 1 \in 1 .. w
                                THEN Digit([value |-> v, offset |-> b - RamStart(at)])
                                ELSE Digit(bytes[b])]
    BY <2>4 DEF Image
  <2> HIDE DEF Digit
  <2> QED
    BY <1>1, <1>2, <1>3, <1>4, <1>6, <2>2, <2>3, <2>5
<1> QED
  BY <1>5, <1>6

\* The text of a read of some bytes says what they are.
LEMMA ReadText ==
  ASSUME NEW bytes \in Histories, NEW q \in AllRequests, ValidCommand(q), Parse(q).op = "read",
         Width(q) > 0
  PROVE  Text(ReadMemory(Image(bytes), Parse(q).at, Parse(q).size)) = Reading(q, bytes)
<1>1. PICK at \in Nat, w \in Nat \ {0} :
        /\ at = q.args[1].n /\ w = Width(q) /\ Parse(q).at = at /\ Parse(q).size = w
  BY ParsedRead
<1>2. WhollyInRam(q) <=> InRam(at, w)
  BY <1>1, RangeCheck
<1>3. CASE ~InRam(at, w)
  BY <1>1, <1>2, <1>3 DEF ReadMemory, Text, Reading
<1>4. CASE InRam(at, w)
  <2> DEFINE at0(i) == CHOOSE b \in RamBytes : i \in Offsets(q, b)
             data == [i \in 1 .. w |-> Image(bytes)[RamStart(at) + i - 1]]
  <2>1. \A i \in 0 .. w - 1 : at0(i) = RamStart(at) + i /\ RamStart(at) + i \in RamBytes
    <3>1. /\ RamStart(at) \in Nat /\ RamStart(at) + w <= RamSize
          /\ \A b \in RamBytes : \A i \in 0 .. w - 1 :
               i \in Offsets(q, b) <=> b = RamStart(at) + i
      BY <1>1, <1>4, InsideRam
    <3>2. \A i \in 0 .. w - 1 : RamStart(at) + i \in RamBytes
      BY <3>1, RamAssumption DEF RamBytes
    <3> QED
      BY <3>1, <3>2
  <2>2. \A i \in 1 .. w : i - 1 \in 0 .. w - 1 /\ RamStart(at) + i - 1 = RamStart(at) + (i - 1)
    BY <1>1, <1>4, InsideRam
  <2>3. DOMAIN data = 1 .. w /\ Len(data) = w
        /\ \A i \in 1 .. w : data[i] = Digit(bytes[at0(i - 1)])
    <3>1. DOMAIN data = 1 .. w /\ Len(data) = w
      OBVIOUS
    <3>2. ASSUME NEW i \in 1 .. w
          PROVE  data[i] = Digit(bytes[at0(i - 1)])
      <4>1. /\ at0(i - 1) = RamStart(at) + (i - 1) /\ RamStart(at) + (i - 1) \in RamBytes
            /\ RamStart(at) + i - 1 = RamStart(at) + (i - 1)
        BY <2>1, <2>2
      <4> HIDE DEF at0
      <4> QED
        BY <4>1 DEF Image
    <3> QED
      BY <3>1, <3>2
  <2>4. data = [i \in 1 .. w |-> Digit(bytes[at0(i - 1)])]
    BY <2>3
  <2>5. ReadMemory(Image(bytes), at, w) = [kind |-> "data", data |-> data]
    BY <1>4 DEF ReadMemory
  <2>6. Reading(q, bytes)
          = CASE w = 1 -> <<"decimal", Digit(bytes[at0(0)])>>
              [] w = 2 -> <<"decimal", Digit(bytes[at0(0)]) + Byte * Digit(bytes[at0(1)])>>
              [] OTHER -> <<"hex", [k \in 1 .. w |-> Digit(bytes[at0(k - 1)])]>>
    BY <1>1, <1>2, <1>4 DEF Reading
  <2> HIDE DEF data, at0
  <2>7. Text([kind |-> "data", data |-> data])
          = IF w = 1 THEN <<"decimal", data[1]>>
            ELSE IF w = 2 THEN <<"decimal", data[1] + Byte * data[2]>>
                 ELSE <<"hex", data>>
    BY <2>3 DEF Text
  <2>8. CASE w = 1
    BY <1>1, <2>3, <2>5, <2>6, <2>7, <2>8
  <2>9. CASE w = 2
    BY <1>1, <2>3, <2>5, <2>6, <2>7, <2>9
  <2>10. CASE w # 1 /\ w # 2
    BY <1>1, <2>4, <2>5, <2>6, <2>7, <2>10
  <2> QED
    BY <2>8, <2>9, <2>10
<1> QED
  BY <1>3, <1>4

\* An emulator keeps mirroring its history through whatever it performs.
LEMMA MemoryPerformed ==
  ASSUME ApiTypes, MemoryInv, NEW s \in Sessions, Perform(s)
  PROVE  MemoryInv'
<1>1. PICK bytes, slots :
        /\ bytes \in Histories
        /\ \A k \in DOMAIN slots : slots[k] \in Histories
        /\ origin[s] = [ram |-> bytes, slots |-> slots]
        /\ emu[s] = [ram |-> Image(bytes), slots |-> [k \in DOMAIN slots |-> Image(slots[k])]]
  BY DEF MemoryInv, Mirrors
<1> DEFINE images == [k \in DOMAIN slots |-> Image(slots[k])]
<1>12. s \in DOMAIN emu /\ s \in DOMAIN origin /\ emu[s] = [ram |-> Image(bytes), slots |-> images]
  BY <1>1 DEF MemoryInv
<1> HIDE DEF images
<1>2. Served(s).q \in AllRequests /\ ValidCommand(Served(s).q)
  BY PerformEffect, ServedCall DEF Calls
<1>3. ASSUME NEW bytes2 \in Histories, NEW slots2,
             \A k \in DOMAIN slots2 : slots2[k] \in Histories,
             origin' = [origin EXCEPT ![s] = [ram |-> bytes2, slots |-> slots2]],
             emu' = [emu EXCEPT ![s] = [ram |-> Image(bytes2),
                                        slots |-> [k \in DOMAIN slots2 |-> Image(slots2[k])]]]
      PROVE  MemoryInv'
  BY <1>3 DEF MemoryInv, Mirrors
<1>4. CASE UNCHANGED workerVars
  BY <1>4 DEF workerVars, MemoryInv
<1>5. CASE PerformWrite(s)
  <2> DEFINE bytes2 == IF WhollyInRam(Served(s).q) THEN Overwritten(Served(s).q, bytes) ELSE bytes
  <2>1. Parse(Served(s).q).op = "write"
    BY <1>5 DEF PerformWrite, Serve, Served
  <2>2. /\ WriteMemory(Image(bytes), Command(s).at, Command(s).data) = Image(bytes2)
        /\ bytes2 \in Histories
    BY <1>1, <1>2, <2>1, WrittenBytes DEF Command
  <2>3. /\ origin' = [origin EXCEPT ![s].ram = bytes2]
        /\ emu' = [emu EXCEPT ![s].ram = WriteMemory(Image(bytes), Command(s).at, Command(s).data)]
    BY <1>1, <1>5 DEF PerformWrite, MemoryInv
  <2> HIDE DEF bytes2
  <2>4. /\ origin' = [origin EXCEPT ![s] = [ram |-> bytes2, slots |-> slots]]
        /\ emu' = [emu EXCEPT ![s] = [ram |-> Image(bytes2), slots |-> images]]
    <3>1. /\ [origin[s] EXCEPT !.ram = bytes2] = [ram |-> bytes2, slots |-> slots]
          /\ [emu[s] EXCEPT !.ram = Image(bytes2)] = [ram |-> Image(bytes2), slots |-> images]
      BY <1>1, <1>12
    <3> QED
      BY <2>2, <2>3, <3>1
  <2> QED
    BY <1>1, <1>3, <2>2, <2>4 DEF images
<1>6. ASSUME NEW slot, emu' = [emu EXCEPT ![s].slots = Stored(@, slot, emu[s].ram)],
             origin' = [origin EXCEPT ![s].slots = Stored(@, slot, origin[s].ram)]
      PROVE  MemoryInv'
  <2> DEFINE slots2 == Stored(slots, slot, bytes)
  <2>1. \A k \in DOMAIN slots2 : slots2[k] \in Histories
    BY <1>1 DEF Stored
  <2>2. Stored(images, slot, Image(bytes)) = [k \in DOMAIN slots2 |-> Image(slots2[k])]
    BY DEF Stored, images
  <2> HIDE DEF slots2
  <2>3. /\ origin' = [origin EXCEPT ![s] = [ram |-> bytes, slots |-> slots2]]
        /\ emu' = [emu EXCEPT ![s] = [ram |-> Image(bytes),
                                      slots |-> [k \in DOMAIN slots2 |-> Image(slots2[k])]]]
    <3>1. origin' = [origin EXCEPT ![s] = [ram |-> bytes, slots |-> Stored(slots, slot, bytes)]]
      <4>1. [origin[s] EXCEPT !.slots = Stored(@, slot, origin[s].ram)]
              = [ram |-> bytes, slots |-> Stored(slots, slot, bytes)]
        BY <1>1
      <4> QED
        BY <1>6, <4>1
    <3>2. emu' = [emu EXCEPT ![s] = [ram |-> Image(bytes),
                                     slots |-> Stored(images, slot, Image(bytes))]]
      <4>1. [emu[s] EXCEPT !.slots = Stored(@, slot, emu[s].ram)]
              = [ram |-> Image(bytes), slots |-> Stored(images, slot, Image(bytes))]
        BY <1>12
      <4> QED
        BY <1>6, <4>1
    <3> QED
      BY <2>2, <3>1, <3>2 DEF slots2
  <2> QED
    BY <1>1, <1>3, <2>1, <2>3
<1>7. ASSUME NEW slot, slot \in DOMAIN emu[s].slots,
             emu' = [emu EXCEPT ![s].ram = emu[s].slots[slot]],
             origin' = [origin EXCEPT ![s].ram = origin[s].slots[slot]]
      PROVE  MemoryInv'
  <2>1. slot \in DOMAIN slots /\ slots[slot] \in Histories
    BY <1>1, <1>7
  <2>2. /\ origin' = [origin EXCEPT ![s] = [ram |-> slots[slot], slots |-> slots]]
        /\ emu' = [emu EXCEPT ![s] = [ram |-> Image(slots[slot]), slots |-> images]]
    <3>1. /\ [origin[s] EXCEPT !.ram = origin[s].slots[slot]] = [ram |-> slots[slot], slots |-> slots]
          /\ [emu[s] EXCEPT !.ram = emu[s].slots[slot]]
               = [ram |-> Image(slots[slot]), slots |-> images]
      <4>1. images[slot] = Image(slots[slot])
        BY <2>1 DEF images
      <4> QED
        BY <1>1, <1>12, <4>1
    <3> QED
      BY <1>7, <3>1
  <2> QED
    BY <1>1, <1>3, <2>1, <2>2 DEF images
<1>8. ASSUME emu' = [emu EXCEPT ![s].ram = BlankRam],
             origin' = [origin EXCEPT ![s].ram = BlankBytes]
      PROVE  MemoryInv'
  <2>1. /\ origin' = [origin EXCEPT ![s] = [ram |-> BlankBytes, slots |-> slots]]
        /\ emu' = [emu EXCEPT ![s] = [ram |-> Image(BlankBytes), slots |-> images]]
    <3>1. /\ [origin[s] EXCEPT !.ram = BlankBytes] = [ram |-> BlankBytes, slots |-> slots]
          /\ [emu[s] EXCEPT !.ram = BlankRam] = [ram |-> Image(BlankBytes), slots |-> images]
      BY <1>1, <1>12, BlankMirrors
    <3> QED
      BY <1>8, <3>1
  <2> QED
    BY <1>1, <1>3, <2>1, BlankMirrors DEF images
<1>9. CASE PerformSave(s)
  BY <1>4, <1>6, <1>9 DEF PerformSave, KeepsEmulator
<1>10. CASE PerformLoad(s)
  BY <1>4, <1>7, <1>10 DEF PerformLoad, KeepsEmulator
<1>11. CASE PerformReset(s)
  BY <1>4, <1>8, <1>11 DEF PerformReset, KeepsEmulator
<1> QED
  BY <1>4, <1>5, <1>9, <1>10, <1>11
     DEF Perform, PerformRead, PerformFrame, PerformPress, KeepsEmulator

LEMMA MemoryStep ==
  ASSUME ApiTypes, MemoryInv, [Next]_vars
  PROVE  MemoryInv'
<1>1. CASE UNCHANGED workerVars
  BY <1>1 DEF workerVars, MemoryInv
<1>2. UNCHANGED workerVars \/ \E s \in Sessions : Perform(s)
  BY DEF Next, AclStep, Grant, Revoke, SetGrants, ClientStep, Send, Admit, View, GatewayTimeout,
         Done, SessionStep, Execute, Receive, TransportTimeout, vars
<1> QED
  BY <1>1, <1>2, MemoryPerformed

-----------------------------------------------------------------------------
(* As long as no call has been given up                                     *)

\* What a response says of its own call.
Noted(call, response) ==
  call.from # None =>
    /\ call.q.route \in ReadRoutes /\ Width(call.q) > 0
       => truth[call.from] = Text(response)
    /\ call.q.route \in InputRoutes
       => pressed[call.from] = <<Parse(call.q).button, Parse(call.q).frames>>

\* A connection holds nothing, or the call being executed, or its response.
Resting(s)    == exec[s] = NoCall /\ wire[s] = <<>> /\ inbox[s] = <<>>
Performing(s) == exec[s] # NoCall /\ wire[s] = <<exec[s]>> /\ inbox[s] = <<>>
Performed(s)  == /\ exec[s] # NoCall /\ wire[s] = <<>>
                 /\ \E r : inbox[s] = <<r>> /\ Noted(exec[s], r)

StepAt(s) == late[s] = 0 => Resting(s) \/ Performing(s) \/ Performed(s)

StepInv == \A s \in Sessions : StepAt(s)

LEMMA StepInit == Init => StepInv
  BY DEF Init, StepInv, StepAt, Resting

\* What is kept about the call of a waiting handler.
LEMMA StepStays ==
  ASSUME NEW s, StepAt(s), exec'[s] = exec[s], wire'[s] = wire[s], inbox'[s] = inbox[s],
         late'[s] = late[s],
         exec[s].from # None => /\ truth'[exec[s].from] = truth[exec[s].from]
                                /\ pressed'[exec[s].from] = pressed[exec[s].from]
  PROVE  StepAt(s)'
  BY DEF StepAt, Resting, Performing, Performed, Noted

\* The response of the command that is performed says of its call what the
\* model has kept.
LEMMA PerformNotes ==
  ASSUME ApiTypes, MemoryInv, NEW s \in Sessions, Perform(s)
  PROVE  \E r : /\ inbox' = [inbox EXCEPT ![s] = Append(inbox[s], r)]
                /\ \A call : call = Served(s) => Noted(call, r)'
<1>1. PICK call \in Calls : call = Served(s)
  BY PerformEffect, ServedCall
<1>2. /\ call.from \in Clients \cup {None} /\ call.q \in AllRequests /\ ValidCommand(call.q)
      /\ Command(s) = Parse(call.q)
  BY <1>1 DEF Calls, Command
<1>3. PICK bytes \in Histories : origin[s].ram = bytes /\ emu[s].ram = Image(bytes)
  BY DEF MemoryInv, Mirrors
<1> DEFINE Says(r) ==
      call.from # None =>
        /\ call.q.route \in ReadRoutes /\ Width(call.q) > 0
           => truth'[call.from] = Text(r)
        /\ call.q.route \in InputRoutes
           => pressed'[call.from] = <<Parse(call.q).button, Parse(call.q).frames>>
<1>4. \A r : Says(r) => Noted(call, r)'
  BY DEF Noted
<1>5. SUFFICES \E r : inbox' = [inbox EXCEPT ![s] = Append(inbox[s], r)] /\ Says(r)
  BY <1>1, <1>4
<1> HIDE DEF Says
<1>6. \A op, r : Serve(s, op, r) =>
        inbox' = [inbox EXCEPT ![s] = Append(inbox[s], r)] /\ Parse(call.q).op = op
  BY <1>1 DEF Serve, Served
<1>7. CASE PerformRead(s)
  <2> DEFINE r == ReadMemory(Image(bytes), Parse(call.q).at, Parse(call.q).size)
  <2>1. Serve(s, "read", r) /\ truth' = NoteOf(call, truth, Reading(call.q, bytes))
    BY <1>1, <1>2, <1>3, <1>7 DEF PerformRead
  <2>2. Parse(call.q).op = "read"
    BY <1>6, <2>1
  <2>3. call.q.route \in ReadRoutes /\ call.q.route \notin InputRoutes
    BY <1>2, <2>2, ParsedKind DEF ReadRoutes, InputRoutes
  <2>4. Width(call.q) > 0 => Text(r) = Reading(call.q, bytes)
    BY <1>2, <2>2, ReadText
  <2> HIDE DEF r
  <2>5. Says(r)
    BY <1>2, <2>1, <2>3, <2>4 DEF Says, NoteOf, ApiTypes
  <2> QED
    BY <1>6, <2>1, <2>5
<1>8. CASE PerformPress(s)
  <2> DEFINE r == [kind |-> "ok"]
  <2>1. /\ Serve(s, "press", r)
        /\ pressed' = NoteOf(call, pressed, <<Parse(call.q).button, Parse(call.q).frames>>)
    BY <1>1, <1>2, <1>8 DEF PerformPress
  <2>2. Parse(call.q).op = "press"
    BY <1>6, <2>1
  <2>3. call.q.route \in InputRoutes /\ call.q.route \notin ReadRoutes
    BY <1>2, <2>2, ParsedKind DEF ReadRoutes, InputRoutes
  <2> HIDE DEF r
  <2>4. Says(r)
    BY <1>2, <2>1, <2>3 DEF Says, NoteOf, ApiTypes
  <2> QED
    BY <1>6, <2>1, <2>4
<1>9. ASSUME NEW op, NEW r, Serve(s, op, r), op \notin {"read", "unknown command", "press"}
      PROVE  \E x : inbox' = [inbox EXCEPT ![s] = Append(inbox[s], x)] /\ Says(x)
  <2>1. Parse(call.q).op = op
    BY <1>6, <1>9
  <2>2. call.q.route \notin ReadRoutes /\ call.q.route \notin InputRoutes
    BY <1>2, <1>9, <2>1, ParsedKind
  <2> QED
    BY <1>6, <1>9, <2>2 DEF Says
<1>10. PerformRead(s) \/ PerformPress(s)
       \/ \E op, r : Serve(s, op, r) /\ op \in {"write", "save", "load", "reset", "frame"}
  <2>1. \A r : Serve(s, "write", r) => \E op, x : Serve(s, op, x) /\ op \in {"write", "save", "load", "reset", "frame"}
    OBVIOUS
  <2>2. \A r : Serve(s, "save", r) => \E op, x : Serve(s, op, x) /\ op \in {"write", "save", "load", "reset", "frame"}
    OBVIOUS
  <2>3. \A r : Serve(s, "load", r) => \E op, x : Serve(s, op, x) /\ op \in {"write", "save", "load", "reset", "frame"}
    OBVIOUS
  <2>4. \A r : Serve(s, "reset", r) => \E op, x : Serve(s, op, x) /\ op \in {"write", "save", "load", "reset", "frame"}
    OBVIOUS
  <2>5. \A r : Serve(s, "frame", r) => \E op, x : Serve(s, op, x) /\ op \in {"write", "save", "load", "reset", "frame"}
    OBVIOUS
  <2> QED
    BY <2>1, <2>2, <2>3, <2>4, <2>5
       DEF Perform, PerformWrite, PerformSave, PerformLoad, PerformReset, PerformFrame
<1> QED
  BY <1>7, <1>8, <1>9, <1>10

LEMMA StepStep ==
  ASSUME ApiTypes, CallsInv, MemoryInv, StepInv, [Next]_vars
  PROVE  StepInv'
<1>0. \A s \in Sessions : exec[s].from # None => exec[s].from \in Clients /\ cpc[exec[s].from] = "waiting"
  BY WaitsFor
<1>1. ASSUME UNCHANGED <<exec, wire, inbox, late>>,
             \A c \in Clients : cpc[c] = "waiting" => truth'[c] = truth[c] /\ pressed'[c] = pressed[c]
      PROVE  StepInv'
  BY <1>0, <1>1, StepStays DEF StepInv
<1>2. CASE AclStep
  BY <1>1, <1>2 DEF AclStep, Grant, Revoke, SetGrants, pathVars
<1>3. ASSUME NEW c \in Clients, (\E q \in Requests[c] : Send(c, q)) \/ Admit(c) \/ View(c)
      PROVE  StepInv'
  BY <1>1, <1>3 DEF Send, Admit, View, pathVars, noteVars
<1>4. ASSUME NEW c \in Clients, GatewayTimeout(c)
      PROVE  StepInv'
  <2>0. PICK s : s = req[c].session
    OBVIOUS
  <2>1. /\ exec' = [exec EXCEPT ![s] = Orphaned(@, c)]
        /\ wire' = [wire EXCEPT ![s] = AllOrphaned(@, c)]
        /\ UNCHANGED <<inbox, late, truth, pressed>>
    BY <1>4, <2>0 DEF GatewayTimeout, noteVars
  <2>2. ASSUME NEW t \in Sessions, t # s
        PROVE  StepAt(t)'
    BY <2>1, <2>2, StepStays DEF StepInv, ApiTypes
  <2>3. ASSUME s \in Sessions
        PROVE  StepAt(s)'
    <3>1. exec'[s] = Orphaned(exec[s], c) /\ wire'[s] = AllOrphaned(wire[s], c)
      BY <2>1, <2>3 DEF ApiTypes
    <3>2. exec'[s] = NoCall <=> exec[s] = NoCall
      BY <2>3, <3>1, OrphanedCall DEF ApiTypes
    <3>3. AllOrphaned(<<>>, c) = <<>> /\ AllOrphaned(<<exec[s]>>, c) = <<Orphaned(exec[s], c)>>
      BY DEF AllOrphaned
    <3>4. \A r : Noted(exec[s], r) => Noted(exec[s], r)'
      <4>1. exec'[s].q = exec[s].q /\ exec'[s].from \in {None, exec[s].from}
        <5>1. PICK call \in Calls \cup {NoCall} : call = exec[s]
          BY <2>3 DEF ApiTypes
        <5>2. /\ Orphaned(call, c).q = call.q
              /\ Orphaned(call, c).from \in {None, call.from} \ {c}
          BY OrphanedCall
        <5> QED
          BY <3>1, <5>1, <5>2
      <4> QED
        BY <2>1, <4>1 DEF Noted
    <3> QED
      BY <2>1, <2>3, <3>1, <3>2, <3>3, <3>4
         DEF StepInv, StepAt, Resting, Performing, Performed
  <2> QED
    BY <2>2, <2>3 DEF StepInv
<1>5. ASSUME NEW c \in Clients, Done(c)
      PROVE  StepInv'
  <2>1. /\ cpc[c] = "answered" /\ UNCHANGED <<exec, wire, inbox, late>>
        /\ truth' = [truth EXCEPT ![c] = None] /\ pressed' = [pressed EXCEPT ![c] = None]
    BY <1>5 DEF Done, pathVars
  <2> QED
    BY <1>1, <2>1 DEF ApiTypes
<1>6. ASSUME NEW s \in Sessions, Execute(s)
      PROVE  StepInv'
  <2>1. /\ exec[s] = NoCall /\ UNCHANGED <<inbox, late, truth, pressed>>
        /\ \/ UNCHANGED <<exec, wire>>
           \/ \E k \in DOMAIN queue[s] : /\ exec' = [exec EXCEPT ![s] = queue[s][k]]
                                         /\ wire' = [wire EXCEPT ![s] = Append(@, queue[s][k])]
    BY <1>6 DEF Execute, noteVars
  <2>2. CASE UNCHANGED <<exec, wire>>
    BY <1>1, <2>1, <2>2
  <2>3. ASSUME NEW k \in DOMAIN queue[s], exec' = [exec EXCEPT ![s] = queue[s][k]],
               wire' = [wire EXCEPT ![s] = Append(@, queue[s][k])]
        PROVE  StepInv'
    <3>1. PICK call \in Calls : call = queue[s][k] /\ call # NoCall
      <4>1. PICK call \in Calls : call = queue[s][k]
        BY SessionCalls
      <4>2. call.q # None /\ NoCall.q = None
        BY RequestsAssumption DEF Calls, NoCall, AllRequests
      <4> QED
        BY <4>1, <4>2
    <3>2. exec'[s] = call /\ wire'[s] = Append(wire[s], call)
      BY <2>3, <3>1 DEF ApiTypes
    <3>3. Append(<<>>, call) = <<call>>
      OBVIOUS
    <3>4. late[s] = 0 => Resting(s)
      BY <2>1 DEF StepInv, StepAt, Performing, Performed
    <3>5. StepAt(s)'
      BY <2>1, <3>1, <3>2, <3>3, <3>4 DEF StepAt, Resting, Performing
    <3>6. ASSUME NEW t \in Sessions, t # s
          PROVE  StepAt(t)'
      BY <2>1, <2>3, <3>6, StepStays DEF StepInv, ApiTypes
    <3> QED
      BY <3>5, <3>6 DEF StepInv
  <2> QED
    BY <2>1, <2>2, <2>3
<1>7. ASSUME NEW s \in Sessions, Receive(s)
      PROVE  StepInv'
  <2>1. /\ exec[s] # NoCall /\ inbox[s] # <<>> /\ exec' = [exec EXCEPT ![s] = NoCall]
        /\ inbox' = [inbox EXCEPT ![s] = Tail(@)]
        /\ wire' = [wire EXCEPT ![s] = AllOrphaned(@, exec[s].from)]
        /\ UNCHANGED <<late, truth, pressed>>
    BY <1>7 DEF Receive, noteVars
  <2>2. late[s] = 0 => Performed(s)
    BY <2>1 DEF StepInv, StepAt, Resting, Performing
  <2>3. \A r : Tail(<<r>>) = <<>>
    OBVIOUS
  <2>4. AllOrphaned(<<>>, exec[s].from) = <<>>
    BY DEF AllOrphaned
  <2>5. StepAt(s)'
    <3>1. exec'[s] = NoCall /\ inbox'[s] = Tail(inbox[s]) /\ wire'[s] = AllOrphaned(wire[s], exec[s].from)
      BY <2>1 DEF ApiTypes
    <3> QED
      BY <2>1, <2>2, <2>3, <2>4, <3>1 DEF StepAt, Performed, Resting
  <2>6. ASSUME NEW t \in Sessions, t # s
        PROVE  StepAt(t)'
    BY <2>1, <2>6, StepStays DEF StepInv, ApiTypes
  <2> QED
    BY <2>5, <2>6 DEF StepInv
<1>8. ASSUME NEW s \in Sessions, TransportTimeout(s)
      PROVE  StepInv'
  <2>1. /\ exec' = [exec EXCEPT ![s] = NoCall] /\ late' = [late EXCEPT ![s] = @ + 1]
        /\ wire' = [wire EXCEPT ![s] = AllOrphaned(@, exec[s].from)]
        /\ UNCHANGED <<inbox, truth, pressed>>
    BY <1>8 DEF TransportTimeout, noteVars
  <2>2. StepAt(s)'
    <3>1. late'[s] = late[s] + 1 /\ late[s] \in Nat
      BY <2>1 DEF ApiTypes
    <3>2. late'[s] # 0
      BY <3>1
    <3> QED
      BY <3>2 DEF StepAt
  <2>3. ASSUME NEW t \in Sessions, t # s
        PROVE  StepAt(t)'
    BY <2>1, <2>3, StepStays DEF StepInv, ApiTypes
  <2> QED
    BY <2>2, <2>3 DEF StepInv
<1>9. ASSUME NEW s \in Sessions, Perform(s)
      PROVE  StepInv'
  <2>1. PICK r : /\ inbox' = [inbox EXCEPT ![s] = Append(inbox[s], r)]
                 /\ \A call : call = Served(s) => Noted(call, r)'
    BY <1>9, PerformNotes
  <2>2. /\ wire[s] # <<>> /\ wire' = [wire EXCEPT ![s] = Tail(wire[s])]
        /\ UNCHANGED <<exec, late>>
        /\ \A c \in Clients \ {Served(s).from} : truth'[c] = truth[c] /\ pressed'[c] = pressed[c]
    BY <1>9, PerformEffect
  <2>3. StepAt(s)'
    <3>1. late[s] = 0 => Performing(s)
      BY <2>2 DEF StepInv, StepAt, Resting, Performed
    <3>2. Tail(<<exec[s]>>) = <<>> /\ Append(<<>>, r) = <<r>> /\ Head(<<exec[s]>>) = exec[s]
      OBVIOUS
    <3>3. inbox'[s] = Append(inbox[s], r) /\ wire'[s] = Tail(wire[s])
      BY <2>1, <2>2 DEF ApiTypes
    <3>4. Served(s) = exec[s] => Noted(exec[s], r)'
      <4>1. PICK call : call = exec[s] /\ exec'[s] = call
        BY <2>2
      <4>2. Noted(call, r)' => Noted(exec[s], r)'
        BY <4>1 DEF Noted
      <4> QED
        BY <2>1, <4>1, <4>2
    <3> QED
      BY <2>2, <3>1, <3>2, <3>3, <3>4 DEF StepAt, Performing, Performed, Served
  <2>4. ASSUME NEW t \in Sessions, t # s
        PROVE  StepAt(t)'
    <3>1. exec[t].from # None => exec[t].from \in Clients \ {Served(s).from}
      <4>1. exec[t].from # None => /\ exec[t].from \in Clients
                                   /\ req[exec[t].from] = exec[t].q /\ exec[t].q.session = t
        BY WaitsFor
      <4>2. Served(s).from # None => req[Served(s).from] = Served(s).q /\ Served(s).q.session = s
        BY <2>2, WaitsFor
      <4> QED
        BY <2>4, <4>1, <4>2
    <3> QED
      BY <2>1, <2>2, <2>4, <3>1, StepStays DEF StepInv, ApiTypes
  <2> QED
    BY <2>3, <2>4 DEF StepInv
<1>10. CASE UNCHANGED vars
  BY <1>1, <1>10 DEF vars, pathVars, noteVars
<1> QED
  BY <1>2, <1>3, <1>4, <1>5, <1>6, <1>7, <1>8, <1>9, <1>10 DEF Next, ClientStep, SessionStep

-----------------------------------------------------------------------------
(* What the answer and the log say of a call                                *)

AnswerAt(c) ==
  /\ cpc[c] \in {"idle", "sent"} => event[c] = "none"
  /\ cpc[c] = "waiting" => event[c] \in {"none", "pending"} /\ ValidCommand(req[c])
  /\ cpc[c] = "answered" =>
       /\ ans[c][1] \in {400, 401, 403} => event[c] = "none"
       /\ event[c] = "completed" => ValidCommand(req[c])
       /\ InStep(c) =>
            /\ ans[c][1] = 200 /\ req[c].route \in ReadRoutes /\ Width(req[c]) > 0
               => ans[c][2] = truth[c]
            /\ event[c] = "completed" /\ req[c].route \in InputRoutes
               => pressed[c] = <<Parse(req[c]).button, Parse(req[c]).frames>>

AnswerInv == \A c \in Clients : AnswerAt(c)

LEMMA AnswerInit == Init => AnswerInv
  BY DEF Init, AnswerInv, AnswerAt

\* A call the transport has given up stays given up.
LEMMA LateGrows ==
  ASSUME ApiTypes, [Next]_vars
  PROVE  \A s \in Sessions : late'[s] = 0 => late[s] = 0
<1>1. CASE UNCHANGED late
  BY <1>1
<1>2. ASSUME NEW s \in Sessions, TransportTimeout(s)
      PROVE  \A t \in Sessions : late'[t] = 0 => late[t] = 0
  <2>1. late' = [late EXCEPT ![s] = @ + 1] /\ late[s] \in Nat
    BY <1>2 DEF TransportTimeout, ApiTypes
  <2>2. late'[s] # 0
    BY <2>1 DEF ApiTypes
  <2> QED
    BY <2>1, <2>2 DEF ApiTypes
<1>3. ASSUME NEW s \in Sessions, Perform(s)
      PROVE  UNCHANGED late
  BY <1>3, PerformEffect
<1>4. UNCHANGED late \/ (\E s \in Sessions : TransportTimeout(s)) \/ (\E s \in Sessions : Perform(s))
  BY DEF Next, AclStep, Grant, Revoke, SetGrants, ClientStep, Send, Admit, View, GatewayTimeout,
         Done, SessionStep, Execute, Receive, vars, pathVars
<1> QED
  BY <1>1, <1>2, <1>3, <1>4

\* What a call with no step of its own keeps.
LEMMA AnswerStays ==
  ASSUME ApiTypes, NEW c \in Clients, AnswerAt(c),
         \A s \in Sessions : late'[s] = 0 => late[s] = 0,
         cpc'[c] = cpc[c], req'[c] = req[c], event'[c] = event[c], ans'[c] = ans[c],
         cpc[c] = "waiting" \/ (truth'[c] = truth[c] /\ pressed'[c] = pressed[c])
  PROVE  AnswerAt(c)'
<1>1. cpc[c] # "idle" => req[c].session \in Sessions
  BY RequestsAssumption DEF ApiTypes, AllRequests
<1>2. cpc[c] = "answered" => (InStep(c)' => InStep(c))
  BY <1>1 DEF InStep
<1>3. CASE cpc[c] \in {"idle", "sent"}
  BY <1>3 DEF AnswerAt
<1>4. CASE cpc[c] = "waiting"
  BY <1>4 DEF AnswerAt
<1>5. CASE cpc[c] = "answered"
  BY <1>2, <1>5 DEF AnswerAt
<1> QED
  BY <1>3, <1>4, <1>5 DEF ApiTypes

\* A call whose handler ends with an error of the path.
LEMMA AnswerFails ==
  ASSUME NEW c, AnswerAt(c), cpc[c] = "waiting", cpc'[c] = "answered", req'[c] = req[c],
         NEW status \in {502, 504}, ans'[c][1] = status,
         event'[c] = IF event[c] = "pending" THEN "failed" ELSE event[c]
  PROVE  AnswerAt(c)'
<1>1. event'[c] \in {"none", "failed"}
  BY DEF AnswerAt
<1>2. ans'[c][1] \notin {200, 400, 401, 403}
  OBVIOUS
<1> QED
  BY <1>1, <1>2 DEF AnswerAt

LEMMA AnswerStep ==
  ASSUME ApiTypes, CallsInv, MemoryInv, StepInv, AnswerInv, [Next]_vars
  PROVE  AnswerInv'
<1>0. \A s \in Sessions : late'[s] = 0 => late[s] = 0
  BY LateGrows
<1>1. ASSUME UNCHANGED <<cpc, req, event, ans>>,
             \A c \in Clients : cpc[c] = "waiting" \/ (truth'[c] = truth[c] /\ pressed'[c] = pressed[c])
      PROVE  AnswerInv'
  BY <1>0, <1>1, AnswerStays DEF AnswerInv
<1>2. CASE AclStep
  BY <1>1, <1>2 DEF AclStep, Grant, Revoke, SetGrants, callVars
<1>3. ASSUME NEW c \in Clients, NEW q \in Requests[c], Send(c, q)
      PROVE  AnswerInv'
  <2>1. /\ cpc[c] = "idle" /\ cpc' = [cpc EXCEPT ![c] = "sent"]
        /\ req' = [req EXCEPT ![c] = q] /\ UNCHANGED <<event, ans, truth, pressed>>
    BY <1>3 DEF Send
  <2>2. AnswerAt(c)'
    BY <2>1 DEF AnswerInv, AnswerAt, ApiTypes
  <2>3. \A d \in Clients : d # c => AnswerAt(d)'
    BY <1>0, <2>1, AnswerStays DEF AnswerInv, ApiTypes
  <2> QED
    BY <2>2, <2>3 DEF AnswerInv
<1>4. ASSUME NEW c \in Clients, Admit(c)
      PROVE  AnswerInv'
  <2>1. cpc[c] = "sent" /\ event[c] = "none" /\ UNCHANGED <<req, truth, pressed>>
    BY <1>4 DEF Admit, noteVars, AnswerInv, AnswerAt
  <2>2. \A d \in Clients : d # c => AnswerAt(d)'
    <3>1. \A d \in Clients : d # c =>
            cpc'[d] = cpc[d] /\ req'[d] = req[d] /\ event'[d] = event[d] /\ ans'[d] = ans[d]
      BY <1>4, <2>1 DEF Admit, Answer, ApiTypes
    <3> QED
      BY <1>0, <2>1, <3>1, AnswerStays DEF AnswerInv
  <2>3. AnswerAt(c)'
    <3>1. CASE /\ ValidCommand(req[c]) /\ cpc' = [cpc EXCEPT ![c] = "waiting"]
               /\ event' = [event EXCEPT ![c] = IF req[c].route \in InputRoutes
                                                THEN "pending" ELSE @]
      BY <2>1, <3>1 DEF AnswerAt, ApiTypes
    <3>2. ASSUME NEW status \in {400, 401, 403}, Answer(c, status, None), UNCHANGED event
          PROVE  AnswerAt(c)'
      <4>1. cpc'[c] = "answered" /\ ans'[c][1] = status /\ event'[c] = "none"
        BY <2>1, <3>2 DEF Answer, ApiTypes
      <4> QED
        BY <4>1 DEF AnswerAt
    <3>3. Refusal(req[c]) # 0 => Refusal(req[c]) \in {400, 401, 403}
      BY DEF Refusal
    <3> QED
      BY <1>4, <3>1, <3>2, <3>3 DEF Admit
  <2> QED
    BY <2>2, <2>3 DEF AnswerInv
<1>5. ASSUME NEW c \in Clients, View(c)
      PROVE  AnswerInv'
  <2>1. PICK status : /\ cpc[c] = "sent" /\ req[c].route \in ViewRoutes
                      /\ Answer(c, status, None) /\ UNCHANGED <<req, event, truth, pressed>>
    BY <1>5 DEF View, noteVars
  <2>2. \A d \in Clients : d # c => AnswerAt(d)'
    <3>1. \A d \in Clients : d # c => cpc'[d] = cpc[d] /\ ans'[d] = ans[d]
      BY <2>1 DEF Answer, ApiTypes
    <3> QED
      BY <1>0, <2>1, <3>1, AnswerStays DEF AnswerInv
  <2>3. AnswerAt(c)'
    <3>1. cpc'[c] = "answered" /\ event'[c] = "none" /\ req'[c] = req[c]
      BY <2>1 DEF Answer, ApiTypes, AnswerInv, AnswerAt
    <3>2. req[c].route \notin ReadRoutes
      BY <2>1 DEF ReadRoutes, ViewRoutes
    <3> QED
      BY <3>1, <3>2 DEF AnswerAt
  <2> QED
    BY <2>2, <2>3 DEF AnswerInv
<1>6. ASSUME NEW c \in Clients, GatewayTimeout(c)
      PROVE  AnswerInv'
  <2>1. /\ cpc[c] = "waiting" /\ Answer(c, 504, None) /\ Logged(c, "failed")
        /\ UNCHANGED <<req, truth, pressed>>
    BY <1>6 DEF GatewayTimeout, noteVars
  <2>2. \A d \in Clients : d # c => AnswerAt(d)'
    BY <1>0, <2>1, AnswerStays DEF AnswerInv, Answer, Logged, ApiTypes
  <2>3. AnswerAt(c)'
    <3>1. /\ cpc'[c] = "answered" /\ ans'[c][1] = 504
          /\ event'[c] = IF event[c] = "pending" THEN "failed" ELSE event[c]
      BY <2>1 DEF Answer, Logged, ApiTypes
    <3> QED
      BY <2>1, <3>1, AnswerFails DEF AnswerInv
  <2> QED
    BY <2>2, <2>3 DEF AnswerInv
<1>7. ASSUME NEW c \in Clients, Done(c)
      PROVE  AnswerInv'
  <2>1. /\ cpc' = [cpc EXCEPT ![c] = "idle"] /\ req' = [req EXCEPT ![c] = None]
        /\ event' = [event EXCEPT ![c] = "none"] /\ ans' = [ans EXCEPT ![c] = None]
        /\ truth' = [truth EXCEPT ![c] = None] /\ pressed' = [pressed EXCEPT ![c] = None]
    BY <1>7 DEF Done
  <2>2. AnswerAt(c)'
    BY <2>1 DEF AnswerAt, ApiTypes
  <2>3. \A d \in Clients : d # c => AnswerAt(d)'
    BY <1>0, <2>1, AnswerStays DEF AnswerInv, ApiTypes
  <2> QED
    BY <2>2, <2>3 DEF AnswerInv
<1>8. ASSUME NEW call \in Calls, NEW status, NEW text, Result(call, status, text),
             UNCHANGED <<truth, pressed>>,
             \A c \in Clients : c = call.from => AnswerAt(c)'
      PROVE  AnswerInv'
  <2>1. req' = req /\ \A c \in Clients \ {call.from} :
                        cpc'[c] = cpc[c] /\ event'[c] = event[c] /\ ans'[c] = ans[c]
    BY <1>8, ResultEffect
  <2>2. \A c \in Clients \ {call.from} : AnswerAt(c)'
    BY <1>0, <1>8, <2>1, AnswerStays DEF AnswerInv
  <2> QED
    BY <1>8, <2>2 DEF AnswerInv
<1>9. ASSUME NEW s \in Sessions, Execute(s) \/ TransportTimeout(s)
      PROVE  AnswerInv'
  <2>1. UNCHANGED <<truth, pressed>>
    BY <1>9 DEF Execute, TransportTimeout, noteVars
  <2>2. CASE UNCHANGED callVars
    BY <1>1, <2>1, <2>2 DEF callVars
  <2>3. CASE ~(UNCHANGED callVars)
    <3>1. PICK call : /\ Result(call, 502, None)
                      /\ \/ call = exec[s] /\ exec[s] # NoCall
                         \/ \E k \in DOMAIN queue[s] : call = queue[s][k]
      BY <1>9, <2>3 DEF Execute, TransportTimeout
    <3>2. call \in Calls
      BY <3>1, SessionCalls DEF ApiTypes
    <3>3. ASSUME NEW c \in Clients, c = call.from
          PROVE  AnswerAt(c)'
      <4>1. cpc[c] = "waiting"
        BY <3>1, <3>3, WaitsFor, RequestsAssumption
      <4>2. /\ req'[c] = req[c] /\ cpc'[c] = "answered" /\ ans'[c] = <<502, None>>
            /\ event'[c] = IF event[c] # "pending" THEN event[c]
                           ELSE IF 502 = 200 THEN "completed" ELSE "failed"
        BY <3>1, <3>2, <3>3, ResultEffect
      <4>3. ans'[c][1] = 502 /\ event'[c] = IF event[c] = "pending" THEN "failed" ELSE event[c]
        BY <4>2
      <4> QED
        BY <4>1, <4>2, <4>3, AnswerFails DEF AnswerInv
    <3> QED
      BY <1>8, <2>1, <3>1, <3>2, <3>3
  <2> QED
    BY <2>2, <2>3
<1>10. ASSUME NEW s \in Sessions, Receive(s)
      PROVE  AnswerInv'
  <2>1. /\ exec[s] # NoCall /\ inbox[s] # <<>> /\ UNCHANGED <<late, truth, pressed>>
    BY <1>10 DEF Receive, noteVars
  <2>2. PICK call, text : /\ call \in Calls /\ call = exec[s]
                          /\ text = Text(Head(inbox[s])) /\ Result(call, 200, text)
    BY <1>10, <2>1 DEF Receive, ApiTypes
  <2>3. ASSUME NEW c \in Clients, c = call.from
        PROVE  AnswerAt(c)'
    <3>1. cpc[c] = "waiting" /\ req[c] = call.q /\ call.q.session = s /\ call.from # None
      BY <2>2, <2>3, WaitsFor, RequestsAssumption
    <3>2. /\ req'[c] = req[c] /\ cpc'[c] = "answered" /\ ans'[c] = <<200, text>>
          /\ event'[c] = IF event[c] # "pending" THEN event[c]
                         ELSE IF 200 = 200 THEN "completed" ELSE "failed"
      BY <2>2, <2>3, ResultEffect
    <3>3. late[s] = 0 => Noted(call, Head(inbox[s]))
      <4>1. \A r : Head(<<r>>) = r
        OBVIOUS
      <4>2. late[s] = 0 => Performed(s)
        BY <2>1 DEF StepInv, StepAt, Resting, Performing
      <4> QED
        BY <2>2, <4>1, <4>2 DEF Performed
    <3>4. ValidCommand(req[c])
      BY <3>1 DEF AnswerInv, AnswerAt
    <3>5. InStep(c)' => late[s] = 0
      BY <2>1, <3>1, <3>2 DEF InStep
    <3>6. ans'[c][1] = 200 /\ ans'[c][2] = text
      BY <3>2
    <3>7. truth'[c] = truth[c] /\ pressed'[c] = pressed[c]
      BY <2>1
    <3> QED
      BY <2>2, <2>3, <3>1, <3>2, <3>3, <3>4, <3>5, <3>6, <3>7 DEF AnswerAt, Noted
  <2> QED
    BY <1>8, <2>1, <2>2, <2>3
<1>11. ASSUME NEW s \in Sessions, Perform(s)
      PROVE  AnswerInv'
  <2>1. /\ wire[s] # <<>> /\ UNCHANGED <<cpc, req, event, ans>>
        /\ \A c \in Clients \ {Served(s).from} : truth'[c] = truth[c] /\ pressed'[c] = pressed[c]
    BY <1>11, PerformEffect DEF callVars
  <2>2. \A c \in Clients : c = Served(s).from => cpc[c] = "waiting"
    BY <2>1, WaitsFor, RequestsAssumption
  <2> QED
    BY <1>1, <2>1, <2>2
<1>12. CASE UNCHANGED vars
  BY <1>1, <1>12 DEF vars, callVars, noteVars
<1> QED
  BY <1>2, <1>3, <1>4, <1>5, <1>6, <1>7, <1>9, <1>10, <1>11, <1>12
     DEF Next, ClientStep, SessionStep

-----------------------------------------------------------------------------
(* The theorems                                                             *)

ApiInv == ApiTypes /\ CallsInv /\ MemoryInv /\ StepInv /\ AnswerInv

\* The types of the calls, their place in a session and what is kept of them.
THEOREM ApiInvariant == Spec => []ApiInv
<1>1. Init => ApiInv
  BY ApiTypesInit, CallsInit, MemoryInit, StepInit, AnswerInit DEF ApiInv
<1>2. ApiInv /\ [Next]_vars => ApiInv'
  BY ApiTypesStep, CallsStep, MemoryStep, StepStep, AnswerStep DEF ApiInv
<1> QED
  BY <1>1, <1>2, PTL DEF Spec

\* Every byte of the RAM and of a saved state is the digit its history puts
\* there, and what a client is told of some bytes is what they were when its
\* read was performed, unless a call of the session has timed out
\* (crates/mgba/src/ipc_transport.rs:88, src/bin/worker/core.rs:181).
THEOREM ReadsBack == Spec => []ReadBack
<1>1. ApiInv => ReadBack
  <2> SUFFICES ASSUME ApiInv
               PROVE  ReadBack
    OBVIOUS
  <2>1. ASSUME NEW s \in Sessions, NEW b \in RamBytes
        PROVE  /\ emu[s].ram[b] = Digit(origin[s].ram[b])
               /\ \A k \in DOMAIN emu[s].slots : emu[s].slots[k][b] = Digit(origin[s].slots[k][b])
    <3>1. PICK bytes, slots :
            /\ origin[s] = [ram |-> bytes, slots |-> slots]
            /\ emu[s] = [ram |-> Image(bytes), slots |-> [k \in DOMAIN slots |-> Image(slots[k])]]
      BY DEF ApiInv, MemoryInv, Mirrors
    <3> QED
      BY <3>1 DEF Image
  <2> QED
    BY <2>1 DEF ApiInv, AnswerInv, AnswerAt, ReadBack, Succeeded
<1> QED
  BY <1>1, ApiInvariant, PTL

\* A press the log calls completed was performed with the button and duration
\* that were asked for, and a refused one is not logged
\* (crates/gateway/src/lib.rs:629).
THEOREM LogIsTrue == Spec => []LogTellsPress
<1>1. ApiInv => LogTellsPress
  <2> SUFFICES ASSUME ApiInv, NEW c \in Clients, cpc[c] = "answered", req[c].route \in InputRoutes
               PROVE  /\ event[c] = "completed" /\ InStep(c) =>
                           TooLong(req[c]) \/ pressed[c] = AskedPress(req[c])
                      /\ ans[c][1] \in {400, 401, 403} => event[c] = "none"
    BY DEF LogTellsPress
  <2>1. AnswerAt(c) /\ req[c] \in AllRequests
    BY DEF ApiInv, AnswerInv, ApiTypes
  <2> QED
    BY <2>1, ParsedPress DEF AnswerAt
<1> QED
  BY <1>1, ApiInvariant, PTL
=============================================================================
