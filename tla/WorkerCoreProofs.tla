-------------------------- MODULE WorkerCoreProofs --------------------------
(***************************************************************************)
(* Safety of WorkerCore for any connections, requests and keys.            *)
(***************************************************************************)
EXTENDS WorkerCore, SequenceTheorems, TLAPS

-----------------------------------------------------------------------------
(* Types                                                                    *)

\* What is on a wire, in hand or was asked of the core has been sent.
Known ==
  /\ \A c \in Conns : \A k \in DOMAIN wire[c] : job[wire[c][k]] # None
  /\ cur # None => job[cur] # None
  /\ \A k \in DOMAIN asked : job[asked[k]] # None

TypeInv == TypeOK /\ Known

LEMMA JobTypes ==
  ASSUME NEW j \in Jobs
  PROVE  j.keys \subseteq Keys /\ j.kind \in {"query", "load", "core", "shutdown", "set", "tap"}
BY DEF Jobs

LEMMA TypeInit == Init => TypeInv
<1> SUFFICES ASSUME Init PROVE TypeInv
  OBVIOUS
<1>1. TypeOK
  <2>1. /\ backlog \in Seq(Conns) /\ asked \in Seq(Requests)
        /\ queue \in Seq(Requests) /\ performed \in Seq(Requests)
    BY DEF Init
  <2>2. wire \in [Conns -> Seq(Requests)]
    BY DEF Init
  <2>3. job \in [Requests -> Jobs \cup {None}]
    BY DEF Init
  <2>4. hpc = "accept" /\ epc = "check" /\ game \in BOOLEAN /\ shutdown \in BOOLEAN
    BY RomGivenBoolean DEF Init
  <2> QED
    BY <2>1, <2>2, <2>3, <2>4 DEF Init, TypeOK
<1>2. Known
  <2>1. DOMAIN asked = {} /\ \A c \in Conns : DOMAIN wire[c] = {}
    BY DEF Init
  <2> QED
    BY <2>1 DEF Init, Known
<1> QED
  BY <1>1, <1>2 DEF TypeInv

LEMMA TypeStep ==
  ASSUME TypeInv, [Next]_vars
  PROVE  TypeInv'
<1> USE NoneAssumption, NoJobAssumption DEF TypeInv, TypeOK, Known, Results, TaskGoto
<1> USE DEF clientVars, inVars, taskVars, keyVars, askVars, coreVars
<1>1. ASSUME NEW c \in Conns, Connect(c)
      PROVE  TypeInv'
  BY <1>1 DEF Connect
<1>2. ASSUME NEW c \in Conns, Disconnect(c)
      PROVE  TypeInv'
  BY <1>2 DEF Disconnect
<1>3. ASSUME NEW c \in Conns, NEW r \in Requests, NEW j \in Jobs, Send(c, r, j)
      PROVE  TypeInv'
  BY <1>3 DEF Send
<1>4. CASE Accept
  BY <1>4 DEF Accept
<1>5. CASE Recv
  BY <1>5 DEF Recv
<1>6. CASE RecvFails
  BY <1>6 DEF RecvFails
<1>7. CASE Query
  BY <1>7 DEF Query
<1>8. CASE SetInputState
  BY <1>8, JobTypes DEF SetInputState
<1>9. CASE Press
  BY <1>9, JobTypes DEF Press
<1>10. CASE Release
  BY <1>10 DEF Release
<1>11. CASE AskCore
  BY <1>11 DEF AskCore
<1>12. CASE CoreReplies
  BY <1>12 DEF CoreReplies
<1>13. CASE CoreTimeout
  BY <1>13 DEF CoreTimeout
<1>14. CASE Respond
  BY <1>14 DEF Respond
<1>15. CASE RespondFails
  BY <1>15 DEF RespondFails
<1>16. CASE Shutdown
  BY <1>16 DEF Shutdown
<1>17. CASE CheckShutdown \/ RequestsDone \/ RunFrame \/ CoreHangs
  BY <1>17 DEF CheckShutdown, RequestsDone, RunFrame, CoreHangs
<1>18. CASE HandleRequest
  <2>1. /\ Head(queue) \in Requests
        /\ queue' \in Seq(Requests) /\ performed' \in Seq(Requests)
    BY <1>18 DEF HandleRequest, Perform
  <2>2. /\ reply' \in [Requests -> {"ok", "failed", None}]
        /\ game' \in BOOLEAN
    BY <1>18, <2>1 DEF HandleRequest, Perform
  <2> QED
    BY <1>18, <2>1, <2>2 DEF HandleRequest
<1>19. CASE UNCHANGED vars
  BY <1>19 DEF vars
<1> QED
  BY <1>1, <1>2, <1>3, <1>4, <1>5, <1>6, <1>7, <1>8, <1>9, <1>10, <1>11, <1>12, <1>13,
     <1>14, <1>15, <1>16, <1>17, <1>18, <1>19
     DEF Next, ClientStep, TaskStep, EmulatorStep

\* The state of the worker has its types whatever its clients and the core do
\* (src/bin/worker.rs).
THEOREM WorkerTypes == Spec => []TypeOK
<1>1. Spec => []TypeInv
  BY TypeInit, TypeStep, PTL DEF Spec
<1>2. TypeInv => TypeOK
  BY DEF TypeInv
<1> QED
  BY <1>1, <1>2, PTL

-----------------------------------------------------------------------------
(* Keys                                                                     *)

\* While a button is held, exactly its key is down beside those of
\* SetInputState.
KeysInv ==
  keys = IF hpc = "holding" THEN base \cup job[cur].keys ELSE base

\* Everything but these four steps leaves the keys, and the hold, alone.
KeepsKeys ==
  /\ UNCHANGED keyVars
  /\ \/ hpc # "holding" /\ hpc' # "holding"
     \/ UNCHANGED <<hpc, cur>>

LEMMA KeysStep ==
  ASSUME TypeInv, KeysInv, [Next]_vars
  PROVE  KeysInv'
<1> USE DEF KeysInv, TaskGoto, keyVars
<1>1. ASSUME KeepsKeys, UNCHANGED job
      PROVE  KeysInv'
  BY <1>1 DEF KeepsKeys
<1>2. ASSUME NEW c \in Conns, NEW r \in Requests, NEW j \in Jobs, Send(c, r, j)
      PROVE  KeysInv'
  <2>1. hpc = "holding" => job'[cur] = job[cur]
    BY <1>2 DEF Send, TypeInv, TypeOK, Known
  <2> QED
    BY <1>2, <2>1 DEF Send, taskVars
<1>3. ASSUME NEW c \in Conns, Connect(c) \/ Disconnect(c)
      PROVE  KeysInv'
  BY <1>1, <1>3 DEF KeepsKeys, Connect, Disconnect, taskVars
<1>4. CASE Accept \/ Recv \/ RecvFails \/ Query \/ AskCore \/ CoreReplies \/ CoreTimeout
           \/ Respond \/ RespondFails \/ Shutdown
  BY <1>1, <1>4
     DEF KeepsKeys, clientVars, Accept, Recv, RecvFails, Query, AskCore, CoreReplies,
         CoreTimeout, Respond, RespondFails, Shutdown
<1>5. CASE SetInputState
  BY <1>5 DEF SetInputState
<1>6. CASE Press
  BY <1>6 DEF Press, clientVars
<1>7. CASE Release
  BY <1>7 DEF Release
<1>8. CASE EmulatorStep \/ CoreHangs
  BY <1>1, <1>8
     DEF KeepsKeys, EmulatorStep, CheckShutdown, HandleRequest, RequestsDone, RunFrame,
         CoreHangs, clientVars, taskVars
<1>9. CASE UNCHANGED vars
  BY <1>1, <1>9 DEF KeepsKeys, vars, clientVars, taskVars
<1> QED
  BY <1>2, <1>3, <1>4, <1>5, <1>6, <1>7, <1>8, <1>9 DEF Next, ClientStep, TaskStep

\* A key that a tap or a hold put down comes up at its end, whatever has
\* become of its client (worker.rs:434); only SetInputState leaves keys down.
THEOREM KeysAreReleased == Spec => []KeysReleased
<1>1. Init => KeysInv
  BY DEF Init, KeysInv
<1>2. KeysInv => KeysReleased
  BY DEF KeysInv, KeysReleased
<1> QED
  BY <1>1, <1>2, TypeInit, TypeStep, KeysStep, PTL DEF Spec

-----------------------------------------------------------------------------
(* The core requests                                                        *)

\* No request is written twice, and none is on a wire that was taken off one.
WrittenOnce ==
  /\ \A c, d \in Conns : \A i \in DOMAIN wire[c], k \in DOMAIN wire[d] :
       wire[c][i] = wire[d][k] => c = d /\ i = k
  /\ \A c \in Conns : \A i \in DOMAIN wire[c] :
       wire[c][i] # cur /\ \A k \in DOMAIN asked : wire[c][i] # asked[k]

\* The command in hand has not been asked of the core before its turn.
AskedOnce ==
  /\ hpc = "handle" => \A k \in DOMAIN asked : asked[k] # cur
  /\ \A i, k \in DOMAIN asked : asked[i] = asked[k] => i = k

OrderInv == WrittenOnce /\ AskedOnce /\ asked = performed \o queue

LEMMA OrderInit == Init => OrderInv
<1> SUFFICES ASSUME Init PROVE OrderInv
  OBVIOUS
<1>1. DOMAIN asked = {} /\ \A c \in Conns : DOMAIN wire[c] = {}
  BY DEF Init
<1>2. asked = performed \o queue
  BY DEF Init
<1> QED
  BY <1>1, <1>2 DEF OrderInv, WrittenOnce, AskedOnce

\* What is asked goes to the end of the queue, and what is performed comes from
\* its front.
LEMMA QueueGrows ==
  \A p, q \in Seq(Requests), e \in Requests : Append(p \o q, e) = p \o Append(q, e)
<1> TAKE p, q \in Seq(Requests), e \in Requests
<1>1. p \o q \in Seq(Requests) /\ <<e>> \in Seq(Requests)
  BY ConcatProperties
<1>2. Append(p \o q, e) = (p \o q) \o <<e>> /\ Append(q, e) = q \o <<e>>
  BY <1>1, AppendIsConcat
<1>3. (p \o q) \o <<e>> = p \o (q \o <<e>>)
  BY <1>1, ConcatAssociative
<1> QED
  BY <1>2, <1>3

LEMMA QueueMoves ==
  \A p, q \in Seq(Requests) : q # <<>> => p \o q = Append(p, Head(q)) \o Tail(q)
<1> SUFFICES ASSUME NEW p \in Seq(Requests), NEW q \in Seq(Requests), q # <<>>
             PROVE  p \o q = Append(p, Head(q)) \o Tail(q)
  OBVIOUS
<1>1. /\ Head(q) \in Requests /\ Tail(q) \in Seq(Requests) /\ <<Head(q)>> \in Seq(Requests)
      /\ q = <<Head(q)>> \o Tail(q)
  BY HeadTailProperties, ConcatProperties
<1>2. Append(p, Head(q)) = p \o <<Head(q)>>
  BY <1>1, AppendIsConcat
<1>3. (p \o <<Head(q)>>) \o Tail(q) = p \o (<<Head(q)>> \o Tail(q))
  BY <1>1, ConcatAssociative
<1> QED
  BY <1>1, <1>2, <1>3

\* A step that reads no command, asks nothing and writes nothing.
KeepsOrder ==
  /\ UNCHANGED <<wire, asked, queue, performed>>
  /\ cur' \in {cur, None}
  /\ hpc' = "handle" => hpc = "handle" /\ cur' = cur

LEMMA OrderStep ==
  ASSUME TypeInv, TypeInv', OrderInv, [Next]_vars
  PROVE  OrderInv'
<1> USE NoneAssumption DEF OrderInv, WrittenOnce, AskedOnce, TaskGoto
<1>1. ASSUME KeepsOrder
      PROVE  OrderInv'
  BY <1>1 DEF KeepsOrder, TypeInv, TypeOK
<1>2. ASSUME NEW c \in Conns, NEW r \in Requests, NEW j \in Jobs, Send(c, r, j)
      PROVE  OrderInv'
  <2>1. /\ cur # r
        /\ \A k \in DOMAIN asked : asked[k] # r
        /\ \A d \in Conns : \A k \in DOMAIN wire[d] : wire[d][k] # r
    BY <1>2 DEF Send, TypeInv, Known
  <2>2. /\ Len(wire'[c]) = Len(wire[c]) + 1 /\ wire'[c][Len(wire[c]) + 1] = r
        /\ \A k \in DOMAIN wire[c] : wire'[c][k] = wire[c][k]
        /\ \A d \in Conns \ {c} : wire'[d] = wire[d]
    BY <1>2 DEF Send, TypeInv, TypeOK
  <2>3. \A d \in Conns : \A k \in DOMAIN wire'[d] :
          \/ k \in DOMAIN wire[d] /\ wire'[d][k] = wire[d][k]
          \/ d = c /\ k = Len(wire[c]) + 1 /\ wire'[d][k] = r
    <3>1. ASSUME NEW d \in Conns, NEW k \in DOMAIN wire'[d], d = c
          PROVE  k \in DOMAIN wire[c] \/ k = Len(wire[c]) + 1
      BY <3>1, <2>2, TypeInv' DEF TypeInv, TypeOK
    <3> QED
      BY <3>1, <2>2
  <2>4. UNCHANGED <<hpc, cur, asked, queue, performed>>
    BY <1>2 DEF Send, taskVars, askVars, coreVars
  <2> QED
    BY <2>1, <2>3, <2>4
<1>3. ASSUME NEW c \in Conns, Connect(c) \/ Disconnect(c)
      PROVE  OrderInv'
  BY <1>1, <1>3 DEF KeepsOrder, Connect, Disconnect, inVars, taskVars, askVars, coreVars
<1>4. CASE Accept \/ RecvFails \/ Query \/ SetInputState \/ Press \/ Release \/ CoreReplies
           \/ CoreTimeout \/ Respond \/ RespondFails \/ Shutdown
  BY <1>1, <1>4
     DEF KeepsOrder, inVars, askVars, coreVars, Accept, RecvFails, Query, SetInputState,
         Press, Release, CoreReplies, CoreTimeout, Respond, RespondFails, Shutdown
<1>5. CASE Recv
  <2>1. /\ cur' = wire[held][1] /\ 1 \in DOMAIN wire[held] /\ held \in Conns
        /\ \A k \in DOMAIN wire'[held] : k + 1 \in DOMAIN wire[held] /\ k + 1 # 1
                                        /\ wire'[held][k] = wire[held][k + 1]
        /\ \A d \in Conns \ {held} : wire'[d] = wire[d]
    BY <1>5 DEF Recv, TypeInv, TypeOK
  <2>2. UNCHANGED <<asked, queue, performed>>
    BY <1>5 DEF Recv, askVars, coreVars
  <2> DEFINE was(d, k) == IF d = held THEN k + 1 ELSE k
  <2>3. ASSUME NEW d \in Conns, NEW k \in DOMAIN wire'[d]
        PROVE  /\ was(d, k) \in DOMAIN wire[d] /\ wire'[d][k] = wire[d][was(d, k)]
               /\ k \in Nat /\ d = held => was(d, k) # 1
    <3>1. CASE d = held
      BY <2>1, <3>1, TypeInv' DEF TypeInv, TypeOK
    <3>2. CASE d # held
      BY <2>1, <3>2, TypeInv' DEF TypeInv, TypeOK
    <3> QED
      BY <3>1, <3>2
  <2>4. ASSUME NEW c \in Conns, NEW d \in Conns, NEW i \in DOMAIN wire'[c],
               NEW k \in DOMAIN wire'[d], wire'[c][i] = wire'[d][k]
        PROVE  c = d /\ i = k
    <3>1. c = d /\ was(c, i) = was(d, k)
      BY <2>3, <2>4
    <3>2. i \in Nat /\ k \in Nat
      <4>1. wire'[c] \in Seq(Requests) /\ wire'[d] \in Seq(Requests)
        BY TypeInv' DEF TypeInv, TypeOK
      <4> QED
        BY <4>1
    <3>3. CASE c = held
      BY <3>1, <3>2, <3>3
    <3>4. CASE c # held
      BY <3>1, <3>4
    <3> QED
      BY <3>3, <3>4
  <2>5. ASSUME NEW c \in Conns, NEW i \in DOMAIN wire'[c]
        PROVE  wire'[c][i] # cur' /\ \A k \in DOMAIN asked' : wire'[c][i] # asked'[k]
    <3>1. wire[c][was(c, i)] # wire[held][1]
      BY <2>1, <2>3, <2>5
    <3> QED
      BY <2>1, <2>2, <2>3, <2>5, <3>1
  <2>6. \A k \in DOMAIN asked' : asked'[k] # cur'
    BY <2>1, <2>2
  <2> HIDE DEF was
  <2> QED
    BY <2>2, <2>4, <2>5, <2>6
<1>6. CASE AskCore
  <2>1. /\ cur \in Requests /\ UNCHANGED <<wire, cur, performed>>
        /\ hpc = "handle" /\ hpc' = "waiting"
    BY <1>6 DEF AskCore, TypeInv, TypeOK, inVars, coreVars
  <2>2. \A k \in DOMAIN asked' : \/ k \in DOMAIN asked /\ asked'[k] = asked[k]
                                 \/ k = Len(asked) + 1 /\ asked'[k] = cur
    <3>1. asked \in Seq(Requests) /\ asked' \in Seq(Requests)
      BY TypeInv' DEF TypeInv, TypeOK
    <3>2. /\ Len(asked') = Len(asked) + 1 /\ asked'[Len(asked) + 1] = cur
          /\ \A k \in 1 .. Len(asked) : asked'[k] = asked[k]
      BY <1>6, <2>1, <3>1, AppendProperties DEF AskCore
    <3>3. DOMAIN asked = 1 .. Len(asked) /\ DOMAIN asked' = 1 .. Len(asked')
      BY <3>1
    <3>4. Len(asked) \in Nat
      BY <3>1
    <3> QED
      BY <3>2, <3>3, <3>4
  <2>3. asked' = performed' \o queue'
    <3>1. /\ asked' = Append(performed \o queue, cur) /\ queue' = Append(queue, cur)
          /\ performed \in Seq(Requests) /\ queue \in Seq(Requests)
      BY <1>6 DEF AskCore, TypeInv, TypeOK
    <3>2. Append(performed \o queue, cur) = performed \o Append(queue, cur)
      BY <2>1, <3>1, QueueGrows, Zenon
    <3> QED
      BY <2>1, <3>1, <3>2, Zenon
  <2>4. WrittenOnce'
    <3>1. ASSUME NEW c \in Conns, NEW i \in DOMAIN wire[c], NEW k \in DOMAIN asked'
          PROVE  wire[c][i] # asked'[k]
      BY <2>2
    <3> QED
      BY <2>1, <3>1
  <2>5. AskedOnce'
    BY <2>1, <2>2
  <2> QED
    BY <2>3, <2>4, <2>5
<1>7. CASE HandleRequest
  <2>1. /\ UNCHANGED <<wire, asked, hpc, cur>>
        /\ queue # <<>> /\ queue' = Tail(queue)
        /\ performed' = Append(performed, Head(queue))
    BY <1>7 DEF HandleRequest, Perform, inVars, taskVars
  <2>2. asked' = performed' \o queue'
    <3>1. /\ performed \in Seq(Requests) /\ queue \in Seq(Requests)
          /\ Head(queue) \in Requests
      BY <2>1 DEF TypeInv, TypeOK
    <3>2. performed \o queue = Append(performed, Head(queue)) \o Tail(queue)
      BY <2>1, <3>1, QueueMoves
    <3> QED
      BY <2>1, <3>2
  <2>3. WrittenOnce' /\ AskedOnce'
    BY <2>1
  <2> QED
    BY <2>2, <2>3
<1>8. CASE CheckShutdown \/ RequestsDone \/ RunFrame \/ CoreHangs
  BY <1>1, <1>8
     DEF KeepsOrder, CheckShutdown, RequestsDone, RunFrame, CoreHangs, inVars, taskVars, askVars
<1>9. CASE UNCHANGED vars
  BY <1>1, <1>9 DEF KeepsOrder, vars, inVars, taskVars, askVars, coreVars
<1> QED
  BY <1>2, <1>3, <1>4, <1>5, <1>6, <1>7, <1>8, <1>9 DEF Next, ClientStep, TaskStep, EmulatorStep

\* Whatever times out, the core sees each request once and in the order in
\* which the worker received them (worker.rs:380).
THEOREM CoreSeesOnceInOrder == Spec => []CoreOnceInOrder
<1>1. OrderInv => CoreOnceInOrder
  BY DEF OrderInv, AskedOnce, CoreOnceInOrder
<1> QED
  BY <1>1, TypeInit, TypeStep, OrderInit, OrderStep, PTL DEF Spec

-----------------------------------------------------------------------------
(* Answers                                                                  *)

Outcome == {"ok", "failed"}

\* Only a performed request has a reply.
Replied == \A r \in Requests : reply[r] # None => \E k \in DOMAIN performed : performed[k] = r

AnsweredOwn ==
  \A r \in Requests : answer[r] \in Outcome /\ job[r].kind \in CoreKinds => answer[r] = reply[r]

AnsweredSent == \A r \in Requests : answer[r] # None => job[r] # None

ResultOwn ==
  /\ hpc = "respond" /\ job[cur].kind \in CoreKinds /\ result \in Outcome => result = reply[cur]
  /\ hpc = "holding" => job[cur].kind = "tap"

AnswerInv == Replied /\ AnsweredOwn /\ AnsweredSent /\ ResultOwn

\* A request in the queue has not been replied to.
LEMMA QueuedUnanswered ==
  ASSUME TypeInv, OrderInv, Replied, queue # <<>>
  PROVE  Head(queue) \in Requests /\ reply[Head(queue)] = None
<1>1. /\ performed \in Seq(Requests) /\ queue \in Seq(Requests)
      /\ Head(queue) \in Requests /\ Head(queue) = queue[1] /\ 1 <= Len(queue)
  BY DEF TypeInv, TypeOK
<1>2. /\ Len(asked) = Len(performed) + Len(queue)
      /\ \A k \in 1 .. Len(performed) + Len(queue) :
           asked[k] = IF k <= Len(performed) THEN performed[k] ELSE queue[k - Len(performed)]
  BY <1>1, ConcatProperties DEF OrderInv
<1>3. /\ Len(performed) \in Nat /\ Len(queue) \in Nat /\ asked \in Seq(Requests)
      /\ DOMAIN performed = 1 .. Len(performed) /\ DOMAIN asked = 1 .. Len(asked)
  BY <1>1 DEF TypeInv, TypeOK
<1>4. /\ Len(performed) + 1 \in DOMAIN asked
      /\ asked[Len(performed) + 1] = Head(queue)
  BY <1>1, <1>2, <1>3
<1>5. ASSUME NEW k \in DOMAIN performed, performed[k] = Head(queue)
      PROVE  FALSE
  <2>1. k \in DOMAIN asked /\ asked[k] = Head(queue) /\ k # Len(performed) + 1
    BY <1>1, <1>2, <1>3, <1>5
  <2> QED
    BY <2>1, <1>4 DEF OrderInv, AskedOnce
<1> QED
  BY <1>1, <1>5 DEF Replied

LEMMA AnswerInit == Init => AnswerInv
BY NoneAssumption DEF Init, AnswerInv, Replied, AnsweredOwn, AnsweredSent, ResultOwn, Outcome

\* A step that answers nobody and handles no request of the core.
KeepsAnswers ==
  /\ UNCHANGED <<job, answer, reply, performed>>
  /\ \/ hpc' \notin {"respond", "holding"}
     \/ UNCHANGED <<hpc, cur, result>>

LEMMA AnswerStep ==
  ASSUME TypeInv, OrderInv, AnswerInv, [Next]_vars
  PROVE  AnswerInv'
<1> USE NoneAssumption DEF AnswerInv, Replied, AnsweredOwn, AnsweredSent, ResultOwn, Outcome, TaskGoto
<1>1. ASSUME KeepsAnswers
      PROVE  AnswerInv'
  BY <1>1 DEF KeepsAnswers
<1>2. ASSUME NEW c \in Conns, NEW r \in Requests, NEW j \in Jobs, Send(c, r, j)
      PROVE  AnswerInv'
  <2>1. /\ UNCHANGED <<hpc, cur, result, answer, reply, performed>>
        /\ job[r] = None /\ \A q \in Requests \ {r} : job'[q] = job[q]
        /\ \A q \in Requests : job[q] # None => job'[q] # None
    BY <1>2, NoJobAssumption DEF Send, taskVars, askVars, coreVars, TypeInv, TypeOK
  <2>2. answer[r] = None
    BY <2>1
  <2>3. hpc \in {"respond", "holding"} => cur \in Requests /\ cur # r
    BY <2>1 DEF TypeInv, TypeOK, Known
  <2>4. Replied' /\ AnsweredSent'
    BY <2>1
  <2>5. AnsweredOwn'
    BY <2>1, <2>2
  <2>6. ResultOwn'
    BY <2>1, <2>3
  <2> QED
    BY <2>4, <2>5, <2>6
<1>3. ASSUME NEW c \in Conns, Connect(c) \/ Disconnect(c)
      PROVE  AnswerInv'
  BY <1>1, <1>3 DEF KeepsAnswers, Connect, Disconnect, taskVars, askVars, coreVars
<1>4. CASE Accept \/ Recv \/ RecvFails \/ AskCore \/ RespondFails
  BY <1>1, <1>4
     DEF KeepsAnswers, clientVars, askVars, coreVars, Accept, Recv, RecvFails, AskCore, RespondFails
<1>5. CASE Query \/ SetInputState \/ Press \/ Release
  <2>1. UNCHANGED <<job, answer, reply, performed, cur>>
    BY <1>5 DEF Query, SetInputState, Press, Release, clientVars, askVars, coreVars
  <2>2. ResultOwn'
    BY <1>5, <2>1 DEF Query, SetInputState, Press, Release, CoreKinds
  <2> QED
    BY <2>1, <2>2
<1>6. CASE CoreReplies \/ CoreTimeout
  BY <1>6 DEF CoreReplies, CoreTimeout, clientVars, askVars, coreVars
<1>7. CASE Respond
  <2>1. /\ UNCHANGED <<job, reply, performed>>
        /\ hpc = "respond" /\ hpc' = "recv" /\ cur \in Requests /\ job[cur] # None
        /\ answer' = [answer EXCEPT ![cur] = result]
    BY <1>7 DEF Respond, clientVars, askVars, coreVars, TypeInv, TypeOK, Known
  <2> QED
    BY <2>1 DEF TypeInv, TypeOK
<1>8. CASE Shutdown
  <2>1. /\ UNCHANGED <<job, reply, performed>>
        /\ hpc' = "returned" /\ cur \in Requests /\ job[cur] # None
        /\ job[cur].kind \notin CoreKinds
        /\ \A r \in Requests \ {cur} : answer'[r] = answer[r]
    BY <1>8 DEF Shutdown, clientVars, askVars, coreVars, CoreKinds, TypeInv, TypeOK, Known
  <2> QED
    BY <2>1
<1>9. CASE HandleRequest
  <2>1. /\ UNCHANGED <<job, hpc, cur, result, answer>>
        /\ queue # <<>>
        /\ performed' = Append(performed, Head(queue))
        /\ \A r \in Requests \ {Head(queue)} : reply'[r] = reply[r]
    BY <1>9 DEF HandleRequest, Perform, clientVars, taskVars, TypeInv, TypeOK
  <2>2. Head(queue) \in Requests /\ reply[Head(queue)] = None
    BY <2>1, QueuedUnanswered
  <2>3. Replied'
    <3>1. /\ Len(performed) \in Nat /\ DOMAIN performed = 1 .. Len(performed)
          /\ DOMAIN performed' = 1 .. Len(performed) + 1
          /\ performed'[Len(performed) + 1] = Head(queue)
          /\ \A k \in 1 .. Len(performed) : performed'[k] = performed[k]
      BY <2>1, <2>2, AppendProperties DEF TypeInv, TypeOK
    <3> QED
      BY <2>1, <3>1
  <2>4. AnsweredOwn'
    BY <2>1, <2>2
  <2>5. ResultOwn'
    BY <2>1, <2>2 DEF TypeInv, TypeOK
  <2> QED
    BY <2>1, <2>3, <2>4, <2>5
<1>10. CASE CheckShutdown \/ RequestsDone \/ RunFrame \/ CoreHangs
  BY <1>1, <1>10
     DEF KeepsAnswers, CheckShutdown, RequestsDone, RunFrame, CoreHangs, clientVars, taskVars, askVars
<1>11. CASE UNCHANGED vars
  BY <1>1, <1>11 DEF KeepsAnswers, vars, clientVars, taskVars, askVars, coreVars
<1> QED
  BY <1>2, <1>3, <1>4, <1>5, <1>6, <1>7, <1>8, <1>9, <1>10, <1>11
     DEF Next, ClientStep, TaskStep, EmulatorStep

\* A core request gets its own outcome or a timeout, never the late outcome of
\* another one (worker.rs:391).
THEOREM AnswersAreTheirOwn == Spec => []AnswerIsItsOwn
<1>1. AnswerInv => AnswerIsItsOwn
  BY DEF AnswerInv, AnsweredOwn, Outcome, AnswerIsItsOwn
<1> QED
  BY <1>1, TypeInit, TypeStep, OrderInit, OrderStep, AnswerInit, AnswerStep, PTL DEF Spec
=============================================================================
