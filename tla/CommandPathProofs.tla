-------------------------- MODULE CommandPathProofs -------------------------
(***************************************************************************)
(* Proofs about CommandScheduler and CommandPath.  The scheduler: the      *)
(* types of its state, that each call enters once, that a command inside   *)
(* is never overtaken by a less urgent one, and that commands of one       *)
(* priority are executed in the order they entered.  The path implements   *)
(* the scheduler, so all of this holds of it; beyond that, the worker      *)
(* performs commands once and in the order in which they were picked, and  *)
(* every answer is off by the number of calls left without one before it,  *)
(* less the responses lost in a cut stream.                                *)
(***************************************************************************)
EXTENDS CommandPath, SequenceTheorems, FiniteSetTheorems, TLAPS

-----------------------------------------------------------------------------
(* Sequences as sets of commands                                            *)

LEMMA InSeqEmpty == InSeq(<<>>) = {}
  BY DEF InSeq

LEMMA InSeqType == \A s \in Seq(Cmds) : InSeq(s) \subseteq Cmds
  BY ElementOfSeq, LenProperties DEF InSeq

LEMMA InSeqAppend ==
  \A s \in Seq(Cmds), c \in Cmds :
    /\ Append(s, c) \in Seq(Cmds) /\ Len(Append(s, c)) = Len(s) + 1
    /\ InSeq(Append(s, c)) = InSeq(s) \cup {c}
<1> TAKE s \in Seq(Cmds), c \in Cmds
<1> DEFINE t == Append(s, c)
<1>1. /\ t \in Seq(Cmds) /\ Len(t) = Len(s) + 1
      /\ \A i \in 1 .. Len(s) : t[i] = s[i]
      /\ t[Len(s) + 1] = c
  BY AppendProperties
<1>2. Len(s) \in Nat /\ DOMAIN s = 1 .. Len(s) /\ DOMAIN t = 1 .. Len(s) + 1
  BY <1>1, LenProperties
<1> HIDE DEF t
<1>3. ASSUME NEW x \in InSeq(t)
      PROVE  x \in InSeq(s) \cup {c}
  BY <1>1, <1>2, <1>3 DEF InSeq
<1>4. ASSUME NEW x \in InSeq(s) \cup {c}
      PROVE  x \in InSeq(t)
  BY <1>1, <1>2, <1>4 DEF InSeq
<1> QED
  BY <1>1, <1>3, <1>4 DEF t

LEMMA Cutting ==
  ASSUME NEW s \in Seq(Cmds), NEW k \in 0 .. Len(s)
  PROVE  LET t == SubSeq(s, k + 1, Len(s))
         IN  /\ t \in Seq(Cmds) /\ Len(t) = Len(s) - k
             /\ \A j \in 1 .. Len(t) : t[j] = s[k + j]
<1> DEFINE t == SubSeq(s, k + 1, Len(s))
<1>1. Len(s) \in Nat /\ \A i \in k + 1 .. Len(s) : s[i] \in Cmds
  BY LenProperties, ElementOfSeq
<1>2. /\ t \in Seq(Cmds)
      /\ Len(t) = IF k + 1 <= Len(s) THEN Len(s) - (k + 1) + 1 ELSE 0
      /\ \A j \in 1 .. Len(s) - (k + 1) + 1 : t[j] = s[k + 1 + j - 1]
  BY <1>1, SubSeqProperties
<1>3. Len(t) = Len(s) - k /\ \A j \in 1 .. Len(t) : k + 1 + j - 1 = k + j
  BY <1>1, <1>2
<1>4. Len(s) - (k + 1) + 1 = Len(s) - k
  BY <1>1
<1> QED
  BY <1>2, <1>3, <1>4

LEMMA InSeqTail ==
  \A s \in Seq(Cmds) \ {<<>>} :
    /\ Head(s) \in Cmds /\ Tail(s) \in Seq(Cmds) /\ Len(Tail(s)) = Len(s) - 1
    /\ InSeq(s) = {Head(s)} \cup InSeq(Tail(s))
<1> TAKE s \in Seq(Cmds) \ {<<>>}
<1> DEFINE t == Tail(s)
<1>1. /\ Head(s) \in Cmds /\ t \in Seq(Cmds) /\ Len(t) = Len(s) - 1
      /\ \A i \in 1 .. Len(t) : t[i] = s[i + 1]
  BY HeadTailProperties
<1>2. /\ Len(s) \in Nat \ {0} /\ DOMAIN s = 1 .. Len(s) /\ DOMAIN t = 1 .. Len(s) - 1
      /\ Head(s) = s[1]
  BY <1>1, LenProperties, EmptySeq
<1> HIDE DEF t
<1>3. ASSUME NEW x \in InSeq(s)
      PROVE  x \in {Head(s)} \cup InSeq(t)
  <2>1. PICK i \in DOMAIN s : x = s[i]
    BY <1>3 DEF InSeq
  <2>2. CASE i = 1
    BY <1>2, <2>1, <2>2
  <2>3. CASE i # 1
    <3>1. i - 1 \in DOMAIN t /\ t[i - 1] = s[i]
      BY <1>1, <1>2, <2>3
    <3> QED
      BY <2>1, <3>1 DEF InSeq
  <2> QED
    BY <2>2, <2>3
<1>4. ASSUME NEW x \in {Head(s)} \cup InSeq(t)
      PROVE  x \in InSeq(s)
  <2>1. CASE x = Head(s)
    BY <1>2, <2>1 DEF InSeq
  <2>2. CASE x \in InSeq(t)
    <3>1. PICK i \in DOMAIN t : x = t[i]
      BY <2>2 DEF InSeq
    <3>2. i + 1 \in DOMAIN s /\ s[i + 1] = x
      BY <1>1, <1>2, <3>1
    <3> QED
      BY <3>2 DEF InSeq
  <2> QED
    BY <1>4, <2>1, <2>2
<1> QED
  BY <1>1, <1>3, <1>4 DEF t

-----------------------------------------------------------------------------
(* Order of entering                                                        *)

\* In the sequence a, x stands somewhere before y.
Precedes(a, x, y) == \E i, k \in DOMAIN a : i < k /\ a[i] = x /\ a[k] = y

\* The sequence s is in the order of a.
Ordered(a, s) == \A i, k \in DOMAIN s : i < k => Precedes(a, s[i], s[k])

AllPrecede(a, X, Y) == \A x \in X, y \in Y : Precedes(a, x, y)

LEMMA PrecedesAppend ==
  \A a \in Seq(Cmds), c \in Cmds :
    /\ \A x \in InSeq(a) : Precedes(Append(a, c), x, c)
    /\ \A x, y \in Cmds : Precedes(a, x, y) => Precedes(Append(a, c), x, y)
<1> TAKE a \in Seq(Cmds), c \in Cmds
<1> DEFINE b == Append(a, c)
<1>1. /\ b \in Seq(Cmds) /\ Len(b) = Len(a) + 1
      /\ \A i \in 1 .. Len(a) : b[i] = a[i]
      /\ b[Len(a) + 1] = c
  BY AppendProperties
<1>2. Len(a) \in Nat /\ DOMAIN a = 1 .. Len(a) /\ DOMAIN b = 1 .. Len(a) + 1
  BY <1>1, LenProperties
<1> HIDE DEF b
<1>3. ASSUME NEW x \in InSeq(a)
      PROVE  Precedes(b, x, c)
  <2>1. PICK i \in DOMAIN a : x = a[i]
    BY <1>3 DEF InSeq
  <2>2. /\ i \in DOMAIN b /\ Len(a) + 1 \in DOMAIN b /\ i < Len(a) + 1
        /\ b[i] = x /\ b[Len(a) + 1] = c
    BY <1>1, <1>2, <2>1
  <2> QED
    BY <2>2 DEF Precedes
<1>4. ASSUME NEW x \in Cmds, NEW y \in Cmds, Precedes(a, x, y)
      PROVE  Precedes(b, x, y)
  BY <1>1, <1>2, <1>4 DEF Precedes
<1> QED
  BY <1>3, <1>4 DEF b

LEMMA OrderedEmpty == \A a : Ordered(a, <<>>)
  BY DEF Ordered

\* What is ordered stays so when another command enters.
LEMMA OrderedStays ==
  \A a, s \in Seq(Cmds), c \in Cmds : Ordered(a, s) => Ordered(Append(a, c), s)
  BY PrecedesAppend, ElementOfSeq, LenProperties DEF Ordered

LEMMA OrderedAppend ==
  \A a, s \in Seq(Cmds), c \in Cmds :
    Ordered(a, s) /\ AllPrecede(a, InSeq(s), {c}) => Ordered(a, Append(s, c))
<1> TAKE a, s \in Seq(Cmds), c \in Cmds
<1> HAVE Ordered(a, s) /\ AllPrecede(a, InSeq(s), {c})
<1> DEFINE t == Append(s, c)
<1>1. /\ t \in Seq(Cmds) /\ Len(t) = Len(s) + 1
      /\ \A i \in 1 .. Len(s) : t[i] = s[i]
      /\ t[Len(s) + 1] = c
  BY AppendProperties
<1>2. Len(s) \in Nat /\ DOMAIN s = 1 .. Len(s) /\ DOMAIN t = 1 .. Len(s) + 1
  BY <1>1, LenProperties
<1> HIDE DEF t
<1>3. ASSUME NEW i \in DOMAIN t, NEW k \in DOMAIN t, i < k
      PROVE  Precedes(a, t[i], t[k])
  <2>1. i \in DOMAIN s /\ t[i] = s[i]
    BY <1>1, <1>2, <1>3
  <2>2. CASE k \in DOMAIN s
    BY <1>1, <1>2, <1>3, <2>1, <2>2 DEF Ordered
  <2>3. CASE k \notin DOMAIN s
    <3>1. t[k] = c /\ s[i] \in InSeq(s)
      BY <1>1, <1>2, <2>1, <2>3 DEF InSeq
    <3> QED
      BY <2>1, <3>1 DEF AllPrecede
  <2> QED
    BY <2>2, <2>3
<1> QED
  BY <1>3 DEF Ordered, t

LEMMA OrderedTail ==
  \A a \in Seq(Cmds), s \in Seq(Cmds) \ {<<>>} :
    Ordered(a, s) => Ordered(a, Tail(s)) /\ AllPrecede(a, {Head(s)}, InSeq(Tail(s)))
<1> TAKE a \in Seq(Cmds), s \in Seq(Cmds) \ {<<>>}
<1> HAVE Ordered(a, s)
<1> DEFINE t == Tail(s)
<1>1. /\ t \in Seq(Cmds) /\ Len(t) = Len(s) - 1
      /\ \A i \in 1 .. Len(t) : t[i] = s[i + 1]
  BY HeadTailProperties
<1>2. /\ Len(s) \in Nat \ {0} /\ DOMAIN s = 1 .. Len(s) /\ DOMAIN t = 1 .. Len(s) - 1
      /\ Head(s) = s[1]
  BY <1>1, LenProperties, EmptySeq
<1> HIDE DEF t
<1>3. \A i \in DOMAIN t : i + 1 \in DOMAIN s /\ t[i] = s[i + 1] /\ i \in Nat /\ 1 < i + 1
  BY <1>1, <1>2
<1>4. 1 \in DOMAIN s
  BY <1>2
<1>5. Ordered(a, t)
  <2> SUFFICES ASSUME NEW i \in DOMAIN t, NEW k \in DOMAIN t, i < k
               PROVE  Precedes(a, t[i], t[k])
    BY DEF Ordered
  <2>1. i + 1 < k + 1
    BY <1>3
  <2> QED
    BY <1>3, <2>1 DEF Ordered
<1>6. ASSUME NEW y \in InSeq(t)
      PROVE  Precedes(a, Head(s), y)
  BY <1>2, <1>3, <1>4, <1>6 DEF InSeq, Ordered
<1> QED
  BY <1>5, <1>6 DEF AllPrecede, t

-----------------------------------------------------------------------------
(* Types                                                                    *)

\* The worker has a command from the moment it picks one until it is executed.
TypeInv ==
  /\ TypeOK
  /\ current = NoCmd <=> wpc \in {"pop", "redrain"}

LEMMA TypeInit == Init => TypeInv
  BY SizesAssumption DEF Init, TypeInv, TypeOK, CallerPcs, WorkerPcs, Priorities, ChanCap

\* What a step that picks the head of a sequence does to the worker.
LEMMA TakeTypes ==
  ASSUME TypeInv, NEW c \in Cmds, Take(c)
  PROVE  /\ wpc' \in WorkerPcs /\ current' \in Cmds \cup {NoCmd} /\ started' \in Seq(Cmds)
         /\ current' = NoCmd <=> wpc' \in {"pop", "redrain"}
         /\ UNCHANGED <<caller, arrived, due>>
<1>1. started' \in Seq(Cmds)
  BY AppendProperties DEF Take, TypeInv, TypeOK
<1> QED
  BY <1>1, CmdsAssumption DEF Take, WorkerPcs

LEMMA TypeStep ==
  ASSUME TypeInv, [Next]_vars
  PROVE  TypeInv'
<1> USE DEF TypeInv, TypeOK
<1>1. ASSUME NEW c \in Cmds, Submit(c) \/ Abandon(c)
      PROVE  TypeInv'
  BY <1>1 DEF Submit, Abandon, CallerPcs
<1>2. ASSUME NEW c \in Cmds, Enqueue(c)
      PROVE  TypeInv'
  <2>1. /\ chan' \in Seq(Cmds) /\ Len(chan') = Len(chan) + 1
        /\ arrived' \in Seq(Cmds)
    BY <1>2, InSeqAppend DEF Enqueue
  <2>2. Len(chan') <= ChanCap
    BY <1>2, <2>1, SizesAssumption DEF Enqueue, ChanCap
  <2> QED
    BY <1>2, <2>1, <2>2 DEF Enqueue, CallerPcs
<1>3. CASE PopNext
  <2>1. PICK p \in FirstQueue : /\ Take(Head(queues[p])) /\ UNCHANGED chan
                                /\ queues' = [queues EXCEPT ![p] = Tail(@)]
    BY <1>3 DEF PopNext
  <2>2. p \in Priorities /\ queues[p] \in Seq(Cmds) \ {<<>>}
    BY DEF FirstQueue
  <2>3. /\ Head(queues[p]) \in Cmds /\ Tail(queues[p]) \in Seq(Cmds)
        /\ Len(Tail(queues[p])) = Len(queues[p]) - 1
    BY <2>2, InSeqTail
  <2>4. queues' \in [Priorities -> Seq(Cmds)] /\ \A q \in Priorities : Len(queues'[q]) <= Cap
    BY <2>1, <2>2, <2>3, SizesAssumption
  <2> QED
    BY <2>1, <2>3, <2>4, TakeTypes
<1>4. CASE Recv
  <2>1. Head(chan) \in Cmds /\ chan' \in Seq(Cmds) /\ Len(chan') = Len(chan) - 1
    BY <1>4, InSeqTail DEF Recv
  <2>2. Len(chan') <= ChanCap
    BY <2>1, SizesAssumption DEF ChanCap
  <2> QED
    BY <1>4, <2>1, <2>2, TakeTypes DEF Recv
<1>5. CASE DrainOne
  <2> DEFINE c == Head(chan)
             p == Priority[c]
  <2>1. /\ c \in Cmds /\ p \in Priorities
        /\ chan' \in Seq(Cmds) /\ Len(chan') = Len(chan) - 1
    BY <1>5, InSeqTail, PriorityAssumption DEF DrainOne
  <2>2. Len(chan') <= ChanCap
    BY <2>1, SizesAssumption DEF ChanCap
  <2> HIDE DEF c, p
  <2>3. UNCHANGED <<wpc, current, arrived, started, due>>
    BY <1>5 DEF DrainOne
  <2>4. CASE RejectFull(c) /\ UNCHANGED queues
    BY <2>1, <2>2, <2>3, <2>4 DEF RejectFull, Reply, CallerPcs, Outcomes
  <2>5. CASE ~IsFull(p) /\ queues' = PushBack(c, p) /\ UNCHANGED caller
    <3>1. /\ Append(queues[p], c) \in Seq(Cmds)
          /\ Len(Append(queues[p], c)) = Len(queues[p]) + 1
      BY <2>1, InSeqAppend
    <3>2. /\ queues' \in [Priorities -> Seq(Cmds)]
          /\ \A q \in Priorities : Len(queues'[q]) <= Cap
      BY <2>1, <2>5, <3>1, SizesAssumption DEF PushBack, IsFull
    <3> QED
      BY <2>1, <2>2, <2>3, <2>5, <3>2
  <2> QED
    BY <1>5, <2>4, <2>5 DEF DrainOne, c, p
<1>6. CASE DrainEnd
  BY <1>6 DEF DrainEnd, WorkerPcs
<1>7. ASSUME NEW r \in Outcomes \ {"closed"}, Finish(r)
      PROVE  TypeInv'
  <2>1. caller' \in [Cmds -> CallerPcs]
    BY <1>7 DEF Finish, Reply, CallerPcs
  <2>2. due' \subseteq Cmds
    BY <1>7 DEF Finish, InSeq, Queued
  <2> QED
    BY <1>7, <2>1, <2>2 DEF Finish, WorkerPcs
<1>8. CASE UNCHANGED vars
  BY <1>8 DEF vars
<1> QED
  BY <1>1, <1>2, <1>3, <1>4, <1>5, <1>6, <1>7, <1>8 DEF Next, CallerStep, WorkerStep

\* The channel never holds more than five times the capacity, a queue never
\* more than the capacity, whatever callers and transport do (scheduler.rs:92).
THEOREM SchedulerTypes == Spec => []TypeOK
<1>1. TypeInv => TypeOK
  BY DEF TypeInv
<1> QED
  BY <1>1, TypeInit, TypeStep, PTL DEF Spec

-----------------------------------------------------------------------------
(* Priority                                                                 *)

\* A command that has entered is not outside.
InsideOnce ==
  \A c \in due \cup InSeq(chan) \cup Queued : caller[c] \notin {"idle", "sending"}

\* Every command waits in the queue of its priority.
Sorted == \A p \in Priorities : \A c \in InSeq(queues[p]) : Priority[c] = p

\* Once the channel has been drained after an execution, what was inside then
\* is in the queues; the next pick is as urgent as any of it.
DueInv ==
  /\ InsideOnce
  /\ Sorted
  /\ wpc # "redrain" => due \cap InSeq(chan) = {}
  /\ DueNotOvertaken

LEMMA DueInit == Init => DueInv
  BY InSeqEmpty DEF Init, DueInv, InsideOnce, Sorted, DueNotOvertaken, Queued

\* What a pick from queue p leaves.
LEMMA PopLeaves ==
  ASSUME TypeInv, NEW p \in FirstQueue, queues' = [queues EXCEPT ![p] = Tail(@)]
  PROVE  /\ p \in Priorities /\ Head(queues[p]) \in InSeq(queues[p])
         /\ Head(queues[p]) \in Cmds
         /\ \A q \in Priorities : InSeq(queues'[q]) \subseteq InSeq(queues[q])
         /\ Queued' \subseteq Queued
<1>1. p \in Priorities /\ queues[p] \in Seq(Cmds) \ {<<>>}
  BY DEF FirstQueue, TypeInv, TypeOK
<1>2. /\ Head(queues[p]) \in Cmds
      /\ InSeq(queues[p]) = {Head(queues[p])} \cup InSeq(Tail(queues[p]))
  BY <1>1, InSeqTail
<1>3. ASSUME NEW q \in Priorities
      PROVE  InSeq(queues'[q]) \subseteq InSeq(queues[q])
  BY <1>1, <1>2 DEF TypeInv, TypeOK
<1> QED
  BY <1>1, <1>2, <1>3 DEF Queued

\* What a turn of drain_available moves.
LEMMA DrainMoves ==
  ASSUME TypeInv, DrainOne
  PROVE  /\ Head(chan) \in Cmds /\ chan \in Seq(Cmds) \ {<<>>} /\ chan' = Tail(chan)
         /\ InSeq(chan) = {Head(chan)} \cup InSeq(chan')
         /\ \A q \in Priorities :
              \/ queues'[q] = queues[q]
              \/ /\ q = Priority[Head(chan)] /\ queues'[q] = Append(queues[q], Head(chan))
                 /\ InSeq(queues'[q]) = InSeq(queues[q]) \cup {Head(chan)}
         /\ Queued' \subseteq Queued \cup {Head(chan)}
<1> DEFINE c == Head(chan)
           p == Priority[c]
<1>1. /\ chan \in Seq(Cmds) \ {<<>>} /\ c \in Cmds /\ p \in Priorities /\ chan' = Tail(chan)
      /\ InSeq(chan) = {c} \cup InSeq(Tail(chan))
  BY InSeqTail, PriorityAssumption DEF DrainOne, TypeInv, TypeOK
<1>2. queues' = PushBack(c, p) \/ UNCHANGED queues
  BY DEF DrainOne
<1> HIDE DEF c, p
<1>3. queues[p] \in Seq(Cmds) /\ InSeq(Append(queues[p], c)) = InSeq(queues[p]) \cup {c}
  BY <1>1, InSeqAppend DEF TypeInv, TypeOK
<1>4. ASSUME NEW q \in Priorities
      PROVE  \/ queues'[q] = queues[q]
             \/ /\ q = p /\ queues'[q] = Append(queues[q], c)
                /\ InSeq(queues'[q]) = InSeq(queues[q]) \cup {c}
  BY <1>1, <1>2, <1>3 DEF PushBack, TypeInv, TypeOK
<1>5. Queued' \subseteq Queued \cup {c}
  BY <1>4 DEF Queued
<1> QED
  BY <1>1, <1>4, <1>5 DEF c, p

LEMMA DueStep ==
  ASSUME TypeInv, DueInv, [Next]_vars
  PROVE  DueInv'
<1> USE DEF DueInv, InsideOnce, Sorted, DueNotOvertaken
<1>1. ASSUME NEW c \in Cmds, Submit(c) \/ Abandon(c)
      PROVE  DueInv'
  <2>1. /\ UNCHANGED <<chan, queues, wpc, current, due>>
        /\ \A d \in Cmds : caller[d] \notin {"idle", "sending"}
                           => caller'[d] \notin {"idle", "sending"}
    BY <1>1 DEF Submit, Abandon, TypeInv, TypeOK
  <2>2. due \cup InSeq(chan) \cup Queued \subseteq Cmds
    BY DEF InSeq, Queued, TypeInv, TypeOK
  <2> QED
    BY <2>1, <2>2 DEF InSeq, Queued
<1>2. ASSUME NEW c \in Cmds, Enqueue(c)
      PROVE  DueInv'
  <2>1. /\ UNCHANGED <<queues, wpc, current, due, Queued>>
        /\ InSeq(chan') = InSeq(chan) \cup {c}
    BY <1>2, InSeqAppend DEF Enqueue, TypeInv, TypeOK, Queued
  <2>2. InSeq(chan)' = InSeq(chan) \cup {c}
    BY <2>1 DEF InSeq
  <2>3. /\ c \notin due
        /\ \A d \in Cmds : caller[d] \notin {"idle", "sending"} \/ d = c
                           => caller'[d] \notin {"idle", "sending"}
    BY <1>2 DEF Enqueue, TypeInv, TypeOK
  <2>4. due \cup InSeq(chan) \cup Queued \subseteq Cmds
    BY DEF InSeq, Queued, TypeInv, TypeOK
  <2>5. InsideOnce'
    BY <2>1, <2>2, <2>3, <2>4
  <2>6. Sorted'
    BY <2>1 DEF InSeq
  <2> QED
    BY <2>1, <2>2, <2>3, <2>5, <2>6
<1>3. CASE PopNext
  <2>1. PICK p \in FirstQueue : /\ Take(Head(queues[p])) /\ UNCHANGED chan
                                /\ queues' = [queues EXCEPT ![p] = Tail(@)]
    BY <1>3 DEF PopNext
  <2>2. /\ p \in Priorities /\ Head(queues[p]) \in InSeq(queues[p])
        /\ \A q \in Priorities : InSeq(queues'[q]) \subseteq InSeq(queues[q])
        /\ Queued' \subseteq Queued
    BY <2>1, PopLeaves
  <2>3. /\ UNCHANGED <<caller, due>> /\ InSeq(chan)' = InSeq(chan)
        /\ wpc = "pop" /\ wpc' = "drain" /\ current' = Head(queues[p])
    BY <2>1 DEF Take, InSeq
  <2>4. InsideOnce' /\ Sorted'
    BY <2>2, <2>3 DEF InSeq
  <2>5. ASSUME NEW c \in due' \cap (InSeq(chan') \cup Queued')
        PROVE  Priority[current'] <= Priority[c]
    <3>1. c \in Queued
      BY <2>2, <2>3, <2>5 DEF InSeq
    <3>2. PICK q \in Priorities : c \in InSeq(queues[q])
      BY <3>1 DEF Queued
    <3>3. Priority[c] = q /\ Priority[current'] = p
      BY <2>2, <2>3, <3>2
    <3>4. queues[q] # <<>>
      BY <3>2, InSeqEmpty
    <3>5. ~ q \in 0 .. p - 1
      BY <3>4 DEF FirstQueue
    <3> QED
      BY <2>2, <3>2, <3>3, <3>5, SizesAssumption DEF Priorities
  <2> QED
    BY <2>3, <2>4, <2>5 DEF InSeq
<1>4. CASE Recv
  <2>1. /\ \A p \in Priorities : queues[p] = <<>>
        /\ UNCHANGED <<caller, due, queues>>
        /\ wpc = "pop" /\ wpc' = "drain"
    BY <1>4 DEF Recv, Take
  <2>2. InSeq(chan') \subseteq InSeq(chan)
    BY <1>4, InSeqTail DEF Recv, TypeInv, TypeOK
  <2>3. Queued' = {} /\ Queued = {}
    BY <2>1, InSeqEmpty DEF Queued
  <2>4. InsideOnce'
    BY <2>1, <2>2, <2>3 DEF InSeq
  <2>5. Sorted'
    BY <2>1 DEF InSeq
  <2> QED
    BY <2>1, <2>2, <2>3, <2>4, <2>5 DEF InSeq
<1>5. CASE DrainOne
  <2>1. /\ InSeq(chan') \subseteq InSeq(chan) /\ Head(chan) \in InSeq(chan)
        /\ Head(chan) \in Cmds
        /\ \A q \in Priorities : \/ queues'[q] = queues[q]
                                 \/ /\ q = Priority[Head(chan)]
                                    /\ InSeq(queues'[q]) = InSeq(queues[q]) \cup {Head(chan)}
        /\ Queued' \subseteq Queued \cup {Head(chan)}
    BY <1>5, DrainMoves
  <2>2. /\ UNCHANGED <<wpc, current, due>> /\ wpc \in {"drain", "redrain"}
    BY <1>5 DEF DrainOne
  <2>3. \A d \in Cmds : caller[d] \notin {"idle", "sending"}
                        => caller'[d] \notin {"idle", "sending"}
    BY <1>5 DEF DrainOne, RejectFull, Reply, TypeInv, TypeOK
  <2>4. due \cup InSeq(chan) \cup Queued \subseteq Cmds
    BY DEF InSeq, Queued, TypeInv, TypeOK
  <2>5. InsideOnce'
    BY <2>1, <2>2, <2>3, <2>4 DEF InSeq
  <2>6. Sorted'
    BY <2>1 DEF InSeq
  <2>7. wpc' # "redrain" => due' \cap InSeq(chan') = {}
    BY <2>1, <2>2
  <2>8. due' \cap (InSeq(chan') \cup Queued') \subseteq due \cap (InSeq(chan) \cup Queued)
    BY <2>1, <2>2
  <2> QED
    BY <2>2, <2>5, <2>6, <2>7, <2>8 DEF InSeq
<1>6. CASE DrainEnd
  <2>1. /\ UNCHANGED <<caller, chan, queues, current, due, Queued>> /\ chan = <<>>
    BY <1>6 DEF DrainEnd, Drained, Queued
  <2> QED
    BY <2>1, InSeqEmpty DEF InSeq
<1>7. ASSUME NEW r \in Outcomes \ {"closed"}, Finish(r)
      PROVE  DueInv'
  <2>1. /\ UNCHANGED <<chan, queues, Queued>> /\ due' = InSeq(chan) \cup Queued
        /\ wpc' = "redrain" /\ current' = NoCmd
    BY <1>7 DEF Finish, Queued
  <2>2. \A d \in Cmds : caller[d] \notin {"idle", "sending"}
                        => caller'[d] \notin {"idle", "sending"}
    BY <1>7 DEF Finish, Reply, TypeInv, TypeOK, Outcomes
  <2>3. InSeq(chan) \cup Queued \subseteq Cmds
    BY DEF InSeq, Queued, TypeInv, TypeOK
  <2> QED
    BY <2>1, <2>2, <2>3 DEF InSeq
<1>8. CASE UNCHANGED vars
  BY <1>8 DEF vars, InSeq, Queued
<1> QED
  BY <1>1, <1>2, <1>3, <1>4, <1>5, <1>6, <1>7, <1>8 DEF Next, CallerStep, WorkerStep

\* However many callers fill channel and queues while a command runs, what was
\* inside when the last execution ended is never passed over for something
\* less urgent (scheduler.rs:199).
THEOREM NeverOvertaken == Spec => []DueNotOvertaken
<1>1. DueInv => DueNotOvertaken
  BY DEF DueInv
<1> QED
  BY <1>1, TypeInit, TypeStep, DueInit, DueStep, PTL DEF Spec

-----------------------------------------------------------------------------
(* Order of arrival                                                         *)

\* What was picked or queued entered before what is in the channel; what was
\* picked of a priority entered before what is queued of it.
OrderInv ==
  /\ InSeq(chan) \cup Queued \cup InSeq(started) \subseteq InSeq(arrived)
  /\ Ordered(arrived, chan)
  /\ \A p \in Priorities : Ordered(arrived, queues[p])
  /\ AllPrecede(arrived, InSeq(started) \cup Queued, InSeq(chan))
  /\ \A p \in Priorities : \A x \in InSeq(started) :
       Priority[x] = p => AllPrecede(arrived, {x}, InSeq(queues[p]))
  /\ ArrivalOrder

LEMMA OrderInit == Init => OrderInv
  BY InSeqEmpty, OrderedEmpty
     DEF Init, OrderInv, Queued, AllPrecede, ArrivalOrder

\* The picked command entered after every one of its priority picked before.
LEMMA TakeInOrder ==
  ASSUME TypeInv, ArrivalOrder, NEW c \in Cmds, Take(c),
         \A x \in InSeq(started) : Priority[x] = Priority[c] => Precedes(arrived, x, c)
  PROVE  ArrivalOrder' /\ InSeq(started') = InSeq(started) \cup {c}
<1>1. /\ started \in Seq(Cmds) /\ started' = Append(started, c) /\ arrived' = arrived
  BY DEF Take, TypeInv, TypeOK
<1>2. /\ started' \in Seq(Cmds) /\ Len(started') = Len(started) + 1
      /\ \A i \in 1 .. Len(started) : started'[i] = started[i]
      /\ started'[Len(started) + 1] = c
  BY <1>1, AppendProperties
<1>3. /\ Len(started) \in Nat /\ DOMAIN started = 1 .. Len(started)
      /\ DOMAIN started' = 1 .. Len(started) + 1
  BY <1>1, <1>2, LenProperties
<1>4. ASSUME NEW i \in DOMAIN started', NEW k \in DOMAIN started', i < k,
             Priority[started'[i]] = Priority[started'[k]]
      PROVE  Precedes(arrived, started'[i], started'[k])
  <2>1. i \in DOMAIN started /\ started'[i] = started[i]
    BY <1>2, <1>3, <1>4
  <2>2. CASE k \in DOMAIN started
    <3>1. started'[k] = started[k]
      BY <1>2, <1>3, <2>2
    <3> QED
      BY <1>4, <2>1, <2>2, <3>1 DEF ArrivalOrder, Precedes
  <2>3. CASE k \notin DOMAIN started
    <3>1. started'[k] = c /\ started[i] \in InSeq(started)
      BY <1>2, <1>3, <2>1, <2>3 DEF InSeq
    <3> QED
      BY <1>4, <2>1, <3>1
  <2> QED
    BY <2>2, <2>3
<1>5. InSeq(started') = InSeq(started) \cup {c}
  BY <1>1, InSeqAppend
<1> QED
  BY <1>1, <1>4, <1>5 DEF ArrivalOrder, Precedes

LEMMA OrderStep ==
  ASSUME TypeInv, TypeInv', DueInv, OrderInv, [Next]_vars
  PROVE  OrderInv'
<1> USE DEF OrderInv
<1>1. CASE UNCHANGED <<chan, queues, arrived, started>>
  <2>1. Queued' = Queued /\ ArrivalOrder'
    BY <1>1 DEF Queued, ArrivalOrder
  <2> QED
    BY <1>1, <2>1
<1>2. ASSUME NEW c \in Cmds, Enqueue(c)
      PROVE  OrderInv'
  <2>1. /\ UNCHANGED <<queues, started, Queued>> /\ arrived' = Append(arrived, c)
        /\ chan' = Append(chan, c)
        /\ arrived \in Seq(Cmds) /\ chan \in Seq(Cmds)
        /\ InSeq(chan') = InSeq(chan) \cup {c} /\ InSeq(arrived') = InSeq(arrived) \cup {c}
    BY <1>2, InSeqAppend DEF Enqueue, TypeInv, TypeOK, Queued
  <2>2. InSeq(chan) \cup Queued \cup InSeq(started) \subseteq Cmds
    BY DEF InSeq, Queued, TypeInv, TypeOK
  <2>3. /\ \A x \in InSeq(arrived) : Precedes(arrived', x, c)
        /\ \A x, y \in Cmds : Precedes(arrived, x, y) => Precedes(arrived', x, y)
    BY <2>1, PrecedesAppend
  <2>4. Ordered(arrived', chan')
    <3>1. Ordered(arrived', chan) /\ AllPrecede(arrived', InSeq(chan), {c})
      BY <2>1, <2>3, OrderedStays DEF AllPrecede
    <3> QED
      BY <2>1, <3>1, OrderedAppend DEF TypeInv, TypeOK
  <2>5. \A p \in Priorities : Ordered(arrived', queues'[p])
    BY <2>1, OrderedStays DEF TypeInv, TypeOK
  <2>6. AllPrecede(arrived', InSeq(started) \cup Queued, InSeq(chan'))
    BY <2>1, <2>2, <2>3 DEF AllPrecede
  <2>7. ASSUME NEW p \in Priorities, NEW x \in InSeq(started), Priority[x] = p
        PROVE  AllPrecede(arrived', {x}, InSeq(queues[p]))
    <3>1. InSeq(queues[p]) \subseteq Cmds /\ x \in Cmds
      BY <2>2 DEF Queued
    <3> QED
      BY <2>3, <2>7, <3>1 DEF AllPrecede
  <2>8. ArrivalOrder'
    <3>1. \A i \in DOMAIN started : started[i] \in Cmds
      BY DEF TypeInv, TypeOK
    <3>2. \A i, k \in DOMAIN started :
            i < k /\ Priority[started[i]] = Priority[started[k]]
            => Precedes(arrived, started[i], started[k])
      BY DEF ArrivalOrder, Precedes
    <3>3. \A i, k \in DOMAIN started :
            i < k /\ Priority[started[i]] = Priority[started[k]]
            => Precedes(arrived', started[i], started[k])
      BY <2>3, <3>1, <3>2
    <3> QED
      BY <2>1, <3>3 DEF ArrivalOrder, Precedes
  <2>9. InSeq(chan') \cup Queued' \cup InSeq(started') \subseteq InSeq(arrived')
    BY <2>1
  <2> QED
    BY <2>1, <2>4, <2>5, <2>6, <2>7, <2>8, <2>9
<1>3. CASE PopNext
  <2>1. PICK p \in FirstQueue : /\ Take(Head(queues[p])) /\ UNCHANGED chan
                                /\ queues' = [queues EXCEPT ![p] = Tail(@)]
    BY <1>3 DEF PopNext
  <2> DEFINE h == Head(queues[p])
  <2>2. /\ p \in Priorities /\ h \in InSeq(queues[p]) /\ h \in Cmds
        /\ \A q \in Priorities : InSeq(queues'[q]) \subseteq InSeq(queues[q])
        /\ Queued' \subseteq Queued
    BY <2>1, PopLeaves
  <2>3. Priority[h] = p /\ h \in Queued
    BY <2>2 DEF DueInv, Sorted, Queued
  <2>4. queues[p] \in Seq(Cmds) \ {<<>>} /\ queues'[p] = Tail(queues[p])
        /\ \A q \in Priorities \ {p} : queues'[q] = queues[q]
    BY <2>1, <2>2 DEF FirstQueue, TypeInv, TypeOK
  <2>5. Ordered(arrived, queues'[p]) /\ AllPrecede(arrived, {h}, InSeq(queues'[p]))
    <3>1. arrived \in Seq(Cmds) /\ Ordered(arrived, queues[p])
      BY <2>2 DEF TypeInv, TypeOK
    <3> QED
      BY <2>4, <3>1, OrderedTail
  <2>6. Take(h) /\ UNCHANGED <<chan, arrived>>
    BY <2>1 DEF Take
  <2> HIDE DEF h
  <2>7. ArrivalOrder' /\ InSeq(started') = InSeq(started) \cup {h}
    <3>1. \A x \in InSeq(started) : Priority[x] = Priority[h] => Precedes(arrived, x, h)
      BY <2>2, <2>3 DEF AllPrecede
    <3> QED
      BY <2>2, <2>6, <3>1, TakeInOrder
  <2>8. \A q \in Priorities : Ordered(arrived, queues'[q])
    BY <2>4, <2>5
  <2>9. AllPrecede(arrived, InSeq(started') \cup Queued', InSeq(chan))
    BY <2>2, <2>3, <2>7 DEF AllPrecede
  <2>10. ASSUME NEW q \in Priorities, NEW x \in InSeq(started'), Priority[x] = q
         PROVE  AllPrecede(arrived, {x}, InSeq(queues'[q]))
    <3>1. CASE x = h
      BY <2>3, <2>5, <2>10, <3>1
    <3>2. CASE x # h
      BY <2>2, <2>7, <2>10, <3>2 DEF AllPrecede
    <3> QED
      BY <3>1, <3>2
  <2>11. InSeq(chan) \cup Queued' \cup InSeq(started') \subseteq InSeq(arrived)
    BY <2>2, <2>3, <2>7
  <2> QED
    BY <2>6, <2>7, <2>8, <2>9, <2>10, <2>11
<1>4. CASE Recv
  <2> DEFINE h == Head(chan)
  <2>1. /\ \A p \in Priorities : queues[p] = <<>>
        /\ Take(h) /\ chan' = Tail(chan) /\ UNCHANGED <<arrived, queues>>
        /\ chan \in Seq(Cmds) \ {<<>>} /\ arrived \in Seq(Cmds)
    BY <1>4 DEF Recv, Take, TypeInv, TypeOK
  <2>2. h \in Cmds /\ InSeq(chan) = {h} \cup InSeq(chan')
    BY <2>1, InSeqTail
  <2>3. Ordered(arrived, chan') /\ AllPrecede(arrived, {h}, InSeq(chan'))
    BY <2>1, OrderedTail
  <2> HIDE DEF h
  <2>4. ArrivalOrder' /\ InSeq(started') = InSeq(started) \cup {h}
    <3>1. \A x \in InSeq(started) : Precedes(arrived, x, h)
      BY <2>2 DEF AllPrecede
    <3> QED
      BY <2>1, <2>2, <3>1, TakeInOrder
  <2>5. \A p \in Priorities : queues'[p] = <<>> /\ InSeq(queues'[p]) = {}
    BY <2>1, InSeqEmpty
  <2>6. Queued' = {}
    BY <2>5 DEF Queued
  <2>7. AllPrecede(arrived, InSeq(started') \cup Queued', InSeq(chan'))
    BY <2>2, <2>3, <2>4, <2>6 DEF AllPrecede
  <2>8. InSeq(chan') \cup Queued' \cup InSeq(started') \subseteq InSeq(arrived)
    BY <2>2, <2>4, <2>6
  <2>9. \A p \in Priorities : Ordered(arrived, queues'[p])
    BY <2>5, OrderedEmpty
  <2>10. \A p \in Priorities, x \in InSeq(started') : AllPrecede(arrived, {x}, InSeq(queues'[p]))
    BY <2>5 DEF AllPrecede
  <2> QED
    BY <2>1, <2>3, <2>4, <2>7, <2>8, <2>9, <2>10
<1>5. CASE DrainOne
  <2> DEFINE h == Head(chan)
  <2>1. /\ h \in Cmds /\ chan \in Seq(Cmds) \ {<<>>} /\ chan' = Tail(chan)
        /\ InSeq(chan) = {h} \cup InSeq(chan')
        /\ \A q \in Priorities :
             \/ queues'[q] = queues[q]
             \/ /\ q = Priority[h] /\ queues'[q] = Append(queues[q], h)
                /\ InSeq(queues'[q]) = InSeq(queues[q]) \cup {h}
        /\ Queued' \subseteq Queued \cup {h}
    BY <1>5, DrainMoves
  <2>2. UNCHANGED <<arrived, started>> /\ arrived \in Seq(Cmds)
    BY <1>5 DEF DrainOne, TypeInv, TypeOK
  <2>3. Ordered(arrived, chan') /\ AllPrecede(arrived, {h}, InSeq(chan'))
    BY <2>1, <2>2, OrderedTail
  <2> HIDE DEF h
  <2>4. \A x \in InSeq(started) \cup Queued : Precedes(arrived, x, h)
    BY <2>1 DEF AllPrecede
  <2>5. ASSUME NEW q \in Priorities
        PROVE  Ordered(arrived, queues'[q])
    <3>1. CASE queues'[q] = queues[q]
      BY <3>1
    <3>2. CASE queues'[q] = Append(queues[q], h)
      <4>1. AllPrecede(arrived, InSeq(queues[q]), {h}) /\ queues[q] \in Seq(Cmds)
        BY <2>4 DEF AllPrecede, Queued, TypeInv, TypeOK
      <4> QED
        BY <2>1, <2>2, <3>2, <4>1, OrderedAppend
    <3> QED
      BY <2>1, <3>1, <3>2
  <2>6. AllPrecede(arrived, InSeq(started) \cup Queued', InSeq(chan'))
    BY <2>1, <2>3 DEF AllPrecede
  <2>7. ASSUME NEW q \in Priorities, NEW x \in InSeq(started), Priority[x] = q
        PROVE  AllPrecede(arrived, {x}, InSeq(queues'[q]))
    BY <2>1, <2>4, <2>7 DEF AllPrecede
  <2>8. InSeq(chan') \cup Queued' \cup InSeq(started) \subseteq InSeq(arrived)
    BY <2>1
  <2>9. ArrivalOrder'
    BY <2>2 DEF ArrivalOrder
  <2> QED
    BY <2>2, <2>3, <2>5, <2>6, <2>7, <2>8, <2>9
<1>6. ASSUME NEW c \in Cmds, Submit(c) \/ Abandon(c)
      PROVE  OrderInv'
  BY <1>1, <1>6 DEF Submit, Abandon
<1>7. CASE DrainEnd
  BY <1>1, <1>7 DEF DrainEnd
<1>8. ASSUME NEW r \in Outcomes \ {"closed"}, Finish(r)
      PROVE  OrderInv'
  BY <1>1, <1>8 DEF Finish
<1>9. CASE UNCHANGED vars
  BY <1>1, <1>9 DEF vars
<1> QED
  BY <1>2, <1>3, <1>4, <1>5, <1>6, <1>7, <1>8, <1>9 DEF Next, CallerStep, WorkerStep

\* Commands of one priority are executed in the order they entered the channel,
\* although two drains and a direct receive move them (scheduler.rs:199).
THEOREM ExecutedInArrivalOrder == Spec => []ArrivalOrder
<1>1. OrderInv => ArrivalOrder
  BY DEF OrderInv
<1> QED
  BY <1>1, TypeInit, TypeStep, DueInit, DueStep, OrderInit, OrderStep, PTL DEF Spec

-----------------------------------------------------------------------------
(* Each call enters once                                                    *)

NoDuplicates(s) == \A i, k \in DOMAIN s : i < k => s[i] # s[k]

\* A call that has entered does not wait to enter.
EnterInv ==
  /\ NoDuplicates(arrived)
  /\ \A c \in InSeq(arrived) : caller[c] \notin {"idle", "sending"}

LEMMA NoDuplicatesAppend ==
  \A s \in Seq(Cmds), c \in Cmds :
    NoDuplicates(s) /\ c \notin InSeq(s) => NoDuplicates(Append(s, c))
<1> SUFFICES ASSUME NEW s \in Seq(Cmds), NEW c \in Cmds, NoDuplicates(s), c \notin InSeq(s)
             PROVE  NoDuplicates(Append(s, c))
  OBVIOUS
<1> DEFINE t == Append(s, c)
<1>1. /\ t \in Seq(Cmds) /\ Len(t) = Len(s) + 1
      /\ \A i \in 1 .. Len(s) : t[i] = s[i]
      /\ t[Len(s) + 1] = c
  BY AppendProperties
<1>2. Len(s) \in Nat /\ DOMAIN s = 1 .. Len(s) /\ DOMAIN t = 1 .. Len(s) + 1
  BY <1>1, LenProperties
<1> HIDE DEF t
<1>3. \A i \in 1 .. Len(s) : s[i] # c
  BY <1>2 DEF InSeq
<1> QED
  BY <1>1, <1>2, <1>3 DEF NoDuplicates, t

LEMMA EnterStep ==
  ASSUME TypeInv, EnterInv, [Next]_vars
  PROVE  EnterInv'
<1> USE DEF TypeInv, TypeOK, EnterInv
<1>1. InSeq(arrived) \subseteq Cmds
  BY DEF InSeq
<1>2. ASSUME NEW c \in Cmds, Submit(c) \/ Abandon(c)
      PROVE  EnterInv'
  <2>1. arrived' = arrived /\ (caller[c] = "idle" => c \notin InSeq(arrived))
    BY <1>2 DEF Submit, Abandon
  <2> QED
    BY <1>1, <1>2, <2>1 DEF Submit, Abandon
<1>3. ASSUME NEW c \in Cmds, Enqueue(c)
      PROVE  EnterInv'
  <2>1. c \notin InSeq(arrived) /\ arrived' = Append(arrived, c)
    BY <1>3 DEF Enqueue
  <2>2. NoDuplicates(arrived') /\ InSeq(arrived') = InSeq(arrived) \cup {c}
    BY <2>1, NoDuplicatesAppend, InSeqAppend
  <2> QED
    BY <1>1, <1>3, <2>2 DEF Enqueue
<1>4. ASSUME arrived' = arrived,
             \/ caller' = caller
             \/ \E c, result : Reply(c, result) /\ result \notin {"idle", "sending"}
      PROVE  EnterInv'
  BY <1>1, <1>4 DEF Reply
<1>5. CASE PopNext \/ Recv
  BY <1>4, <1>5 DEF PopNext, Recv, Take
<1>6. CASE DrainOne \/ DrainEnd
  BY <1>4, <1>6 DEF DrainOne, DrainEnd, RejectFull
<1>7. ASSUME NEW r \in Outcomes \ {"closed"}, Finish(r)
      PROVE  EnterInv'
  BY <1>4, <1>7 DEF Finish, Outcomes
<1>8. CASE UNCHANGED vars
  BY <1>8 DEF vars
<1> QED
  BY <1>2, <1>3, <1>5, <1>6, <1>7, <1>8 DEF Next, CallerStep, WorkerStep

\* A submit call enters the channel once and is executed once, whatever becomes
\* of its caller (scheduler.rs:92).
THEOREM StartedOnce == Spec => [](NoDuplicates(arrived) /\ NoDuplicates(started))
<1>1. Init => EnterInv
  BY InSeqEmpty DEF Init, EnterInv, NoDuplicates
<1>2. TypeOK /\ EnterInv /\ ArrivalOrder => NoDuplicates(arrived) /\ NoDuplicates(started)
  <2> SUFFICES ASSUME TypeOK, EnterInv, ArrivalOrder,
                      NEW i \in DOMAIN started, NEW k \in DOMAIN started, i < k
               PROVE  started[i] # started[k]
    BY DEF NoDuplicates, EnterInv
  <2>1. CASE Priority[started[i]] = Priority[started[k]]
    <3>1. PICK a \in DOMAIN arrived, b \in DOMAIN arrived :
            a < b /\ arrived[a] = started[i] /\ arrived[b] = started[k]
      BY <2>1 DEF ArrivalOrder
    <3> QED
      BY <3>1 DEF EnterInv, NoDuplicates
  <2> QED
    BY <2>1
<1> QED
  BY <1>1, <1>2, TypeInit, TypeStep, EnterStep, SchedulerTypes, ExecutedInArrivalOrder, PTL
     DEF Spec

-----------------------------------------------------------------------------
(* The scheduler inside the path                                            *)

\* What an action of the path leaves alone is named in groups.
USE DEF conVars, histVars

LEMMA PathStepIsStep == [PathNext]_allVars => [Next]_vars
<1> USE DEF Outcomes
<1>1. CASE (CallerStep \/ WorkerStep) /\ UNCHANGED pathVars
  BY <1>1 DEF Next
<1>2. CASE WriteCommand
  BY <1>2 DEF WriteCommand
<1>3. CASE CallFails \/ ReadResponse \/ TimeOut \/ TimeOutWriting \/ Misread
  BY <1>3 DEF CallFails, ReadResponse, TimeOut, TimeOutWriting, Misread, Next
<1>4. CASE EmulatorStep \/ HangUp
  BY <1>4 DEF EmulatorStep, ReadCommand, Respond, RespondRest, HangUp
<1>5. CASE UNCHANGED allVars
  BY <1>5 DEF allVars
<1> QED
  BY <1>1, <1>2, <1>3, <1>4, <1>5 DEF PathNext, ExecuteStep, CallStep

\* Transport, connection and worker only fill in what an execution returns:
\* every behaviour of the path is one of the scheduler (ipc_transport.rs:25).
THEOREM PathImplementsScheduler == PathSpec => Spec
<1>1. PathInit => Init
  BY DEF PathInit
<1> QED
  BY <1>1, PathStepIsStep, PTL DEF PathSpec, Spec

\* On the whole path, too, nothing inside is overtaken by something less urgent.
THEOREM PathNeverOvertakes == PathSpec => []DueNotOvertaken
  BY PathImplementsScheduler, NeverOvertaken, PTL

\* On the whole path, too, commands of one priority run as they arrived.
THEOREM PathKeepsArrivalOrder == PathSpec => []ArrivalOrder
  BY PathImplementsScheduler, ExecutedInArrivalOrder, PTL

-----------------------------------------------------------------------------
(* Types                                                                    *)

PathTypeInv ==
  /\ TypeInv
  /\ PathTypeOK
  /\ written => wpc = "exec"

LEMMA PathTypeInit == PathInit => PathTypeInv
<1> SUFFICES ASSUME PathInit PROVE PathTypeInv
  OBVIOUS
<1>1. TypeInv /\ TypeOK
  BY TypeInit DEF PathInit, TypeInv
<1>2. <<>> \in Seq(Cmds)
  BY EmptySeq
<1> QED
  BY <1>1, <1>2 DEF PathInit, PathTypeInv, PathTypeOK

\* A call given up, and one that reads garbage, lose some responses from the
\* front of what is there and leave the others as they are.
LEMMA Losing ==
  ASSUME PathTypeInv, TimeOut \/ Misread
  PROVE  /\ inbox' \in Seq(Cmds) /\ cuts' \in Nat /\ adrift' \in BOOLEAN
         /\ \E k \in 0 .. Len(inbox) :
              /\ cuts' = cuts + k
              /\ Len(inbox') = Len(inbox) - k
              /\ \A j \in 1 .. Len(inbox') : inbox'[j] = inbox[k + j]
<1>1. /\ inbox \in Seq(Cmds) /\ cuts \in Nat /\ Len(inbox) \in Nat
      /\ adrift \in BOOLEAN /\ short \in BOOLEAN
  BY LenProperties DEF PathTypeInv, PathTypeOK
<1>2. CASE TimeOut
  <2>1. /\ inbox' = <<>> /\ cuts' = cuts + Len(inbox) /\ adrift' = short
        /\ Len(inbox') = 0 /\ inbox' \in Seq(Cmds)
    BY <1>2, EmptySeq DEF TimeOut, ReadAllThereIs
  <2>2. Len(inbox) \in 0 .. Len(inbox) /\ 1 .. 0 = {}
    BY <1>1
  <2> QED
    BY <1>1, <2>1, <2>2
<1>3. CASE Misread
  <2>1. PICK k \in 0 .. Len(inbox) :
          /\ inbox' = SubSeq(inbox, k + 1, Len(inbox))
          /\ cuts' = cuts + k
          /\ adrift' \in BOOLEAN
    BY <1>3 DEF Misread
  <2>2. /\ inbox' \in Seq(Cmds) /\ Len(inbox') = Len(inbox) - k
        /\ \A j \in 1 .. Len(inbox') : inbox'[j] = inbox[k + j]
    BY <1>1, <2>1, Cutting
  <2> QED
    BY <1>1, <2>1, <2>2
<1> QED
  BY <1>2, <1>3

LEMMA PathTypeStep ==
  ASSUME PathTypeInv, [PathNext]_allVars
  PROVE  PathTypeInv'
<1> USE DEF PathTypeInv
<1>1. TypeInv' /\ TypeOK'
  BY PathStepIsStep, TypeStep DEF TypeInv
<1>2. CASE (CallerStep \/ WorkerStep) /\ UNCHANGED pathVars
  <2>1. wpc # "exec" \/ UNCHANGED wpc
    BY <1>2 DEF CallerStep, Submit, Enqueue, Abandon, WorkerStep, PopNext, Recv, Take,
                DrainOne, DrainEnd
  <2> QED
    BY <1>1, <1>2, <2>1 DEF pathVars, PathTypeOK
<1>3. CASE WriteCommand
  <2>1. current \in Cmds
    BY <1>3 DEF WriteCommand, TypeInv, TypeOK
  <2>2. sent' \in Seq(Cmds)
    BY <1>3, <2>1, AppendProperties DEF WriteCommand, PathTypeOK
  <2>3. CASE torn
    BY <1>1, <1>3, <2>1, <2>2, <2>3 DEF WriteCommand, PathTypeOK, vars
  <2>4. CASE ~torn
    <3>1. wire' = Append(wire, current) /\ UNCHANGED garbled
      BY <1>3, <2>4 DEF WriteCommand
    <3>2. wire' \in Seq(Cmds)
      BY <2>1, <3>1, AppendProperties DEF PathTypeOK
    <3> QED
      BY <1>1, <1>3, <2>2, <3>1, <3>2 DEF WriteCommand, PathTypeOK, vars
  <2> QED
    BY <2>3, <2>4, Zenon
<1>4. CASE CallFails
  BY <1>1, <1>4 DEF CallFails, PathTypeOK
<1>12. CASE TimeOutWriting
  <2>1. torn' \in BOOLEAN /\ ~written' /\ UNCHANGED <<up, short, adrift, garbled>>
    BY <1>12 DEF TimeOutWriting
  <2>2. UNCHANGED <<histVars, wire, inbox, serving, written>>
    BY <1>12 DEF TimeOutWriting
  <2> QED
    BY <1>1, <2>1, <2>2 DEF PathTypeOK
<1>10. CASE TimeOut \/ Misread
  <2>1. inbox' \in Seq(Cmds) /\ cuts' \in Nat /\ adrift' \in BOOLEAN
    BY <1>10, Losing
  <2> QED
    BY <1>1, <1>10, <2>1 DEF TimeOut, Misread, PathTypeOK
<1>11. CASE RespondRest
  BY <1>1, <1>11 DEF RespondRest, PathTypeOK, vars
<1>5. CASE ReadResponse
  <2>1. current \in Cmds
    BY <1>5 DEF ReadResponse, Finish, TypeInv, TypeOK
  <2>2. Head(inbox) \in Cmds /\ inbox' \in Seq(Cmds)
    BY <1>5, HeadTailProperties DEF ReadResponse, Readable, PathTypeOK
  <2> QED
    BY <1>1, <1>5, <2>1, <2>2 DEF ReadResponse, NextResponse, PathTypeOK
<1>6. CASE ReadCommand
  <2>1. Head(wire) \in Cmds /\ wire' \in Seq(Cmds)
    BY <1>6, HeadTailProperties DEF ReadCommand, PathTypeOK
  <2> QED
    BY <1>1, <1>6, <2>1 DEF ReadCommand, PathTypeOK, vars
<1>7. CASE Respond
  <2>1. performed' \in Seq(Cmds) /\ inbox' \in Seq(Cmds)
    BY <1>7, AppendProperties DEF Respond, PathTypeOK
  <2> QED
    BY <1>1, <1>7, <2>1 DEF Respond, PathTypeOK, vars
<1>8. CASE HangUp
  <2>1. wire' \in Seq(Cmds)
    BY <1>8, EmptySeq DEF HangUp
  <2> QED
    BY <1>1, <1>8, <2>1 DEF HangUp, PathTypeOK, vars
<1>9. CASE UNCHANGED allVars
  BY <1>1, <1>9 DEF allVars, vars, pathVars, PathTypeOK
<1> QED
  BY <1>2, <1>3, <1>4, <1>5, <1>6, <1>7, <1>8, <1>9, <1>10, <1>11, <1>12
     DEF PathNext, ExecuteStep, CallStep, EmulatorStep

\* Connection, worker and histories keep their types (ipc_transport.rs:12).
THEOREM PathTypes == PathSpec => []PathTypeOK
<1>1. PathTypeInv => PathTypeOK
  BY DEF PathTypeInv
<1> QED
  BY <1>1, PathTypeInit, PathTypeStep, PTL DEF PathSpec

-----------------------------------------------------------------------------
(* The order of performing                                                  *)

\* The command the worker is at.
Serving == {serving} \ {NoCmd}

\* Written commands the worker did not lose.
Reached == InSeq(performed) \cup Serving \cup InSeq(wire)

\* What the worker performed was picked before what it is at, that before what
\* is on the wire, and all of it before a command not written yet.
PerformInv ==
  /\ Reached \subseteq InSeq(started)
  /\ Ordered(started, performed)
  /\ Ordered(started, wire)
  /\ AllPrecede(started, InSeq(performed), Serving \cup InSeq(wire))
  /\ AllPrecede(started, Serving, InSeq(wire))
  /\ current # NoCmd => current \in InSeq(started)
  /\ current # NoCmd /\ ~written => AllPrecede(started, Reached, {current})

LEMMA PerformInit == PathInit => PerformInv
  BY InSeqEmpty, OrderedEmpty
     DEF PathInit, Init, PerformInv, Reached, Serving, AllPrecede

LEMMA PerformStep ==
  ASSUME PathTypeInv, PathTypeInv', PerformInv, [PathNext]_allVars
  PROVE  PerformInv'
<1> USE DEF PerformInv, PathTypeInv, PathTypeOK, TypeInv, TypeOK
<1>1. Reached \subseteq Cmds
  <2>1. InSeq(performed) \subseteq Cmds /\ InSeq(wire) \subseteq Cmds
    BY InSeqType
  <2>2. Serving \subseteq Cmds
    BY DEF Serving
  <2> QED
    BY <2>1, <2>2 DEF Reached
<1>2. ASSUME NEW c \in Cmds, Take(c), UNCHANGED pathVars
      PROVE  PerformInv'
  <2>1. /\ started' = Append(started, c) /\ current' = c
        /\ UNCHANGED <<wire, serving, performed, written, Reached, Serving>>
    BY <1>2 DEF Take, pathVars, Reached, Serving
  <2>2. /\ InSeq(started') = InSeq(started) \cup {c}
        /\ \A x \in InSeq(started) : Precedes(started', x, c)
        /\ \A x, y \in Cmds : Precedes(started, x, y) => Precedes(started', x, y)
    BY <2>1, InSeqAppend, PrecedesAppend
  <2>3. Ordered(started', performed) /\ Ordered(started', wire)
    BY <2>1, OrderedStays
  <2>4. /\ AllPrecede(started', InSeq(performed), Serving \cup InSeq(wire))
        /\ AllPrecede(started', Serving, InSeq(wire))
    BY <1>1, <2>2 DEF AllPrecede, Reached
  <2>5. AllPrecede(started', Reached, {c})
    BY <2>2 DEF AllPrecede
  <2> QED
    BY <2>1, <2>2, <2>3, <2>4, <2>5
<1>3. ASSUME UNCHANGED <<wire, serving, performed, started>>,
             \/ UNCHANGED <<current, written>>
             \/ current' = NoCmd
      PROVE  PerformInv'
  <2>1. UNCHANGED <<Reached, Serving>>
    BY <1>3 DEF Reached, Serving
  <2> QED
    BY <1>3, <2>1
<1>4. CASE CallerStep /\ UNCHANGED pathVars
  BY <1>3, <1>4 DEF CallerStep, Submit, Enqueue, Abandon, pathVars
<1>5. CASE WorkerStep /\ UNCHANGED pathVars
  <2>1. CASE PopNext
    <3>1. PICK p \in FirstQueue : Take(Head(queues[p]))
      BY <2>1 DEF PopNext
    <3>2. Head(queues[p]) \in Cmds
      BY InSeqTail DEF FirstQueue
    <3> QED
      BY <1>2, <1>5, <3>1, <3>2
  <2>2. CASE Recv
    <3>1. Head(chan) \in Cmds
      BY <2>2, InSeqTail DEF Recv
    <3> QED
      BY <1>2, <1>5, <2>2, <3>1 DEF Recv
  <2>3. CASE DrainOne \/ DrainEnd
    BY <1>3, <1>5, <2>3 DEF DrainOne, DrainEnd, pathVars
  <2> QED
    BY <1>5, <2>1, <2>2, <2>3 DEF WorkerStep
<1>6. CASE WriteCommand /\ torn
  BY <1>6 DEF WriteCommand, vars, Reached, Serving
<1>12. CASE WriteCommand /\ ~torn
  <2>1. /\ current \in Cmds /\ current # NoCmd /\ ~written /\ written'
        /\ wire' = Append(wire, current)
        /\ InSeq(wire') = InSeq(wire) \cup {current}
        /\ UNCHANGED <<started, performed, serving, current, Serving>>
    BY <1>12, InSeqAppend, CmdsAssumption DEF WriteCommand, vars, Serving
  <2>2. Reached' = Reached \cup {current}
    BY <2>1 DEF Reached
  <2>3. /\ AllPrecede(started, InSeq(wire), {current})
        /\ AllPrecede(started, InSeq(performed), Serving \cup InSeq(wire'))
        /\ AllPrecede(started, Serving, InSeq(wire'))
    BY <2>1 DEF AllPrecede, Reached
  <2>4. Ordered(started, wire')
    BY <2>1, <2>3, OrderedAppend
  <2> QED
    BY <2>1, <2>2, <2>3, <2>4
<1>7. CASE CallFails \/ ReadResponse \/ TimeOut \/ TimeOutWriting \/ Misread
  BY <1>3, <1>7 DEF CallFails, ReadResponse, TimeOut, TimeOutWriting, Misread, Finish
<1>8. CASE ReadCommand
  <2>1. /\ wire \in Seq(Cmds) \ {<<>>} /\ wire' = Tail(wire) /\ serving' = Head(wire)
        /\ serving = NoCmd
        /\ UNCHANGED <<started, performed, current, written>>
    BY <1>8 DEF ReadCommand, vars
  <2>2. Head(wire) \in Cmds /\ InSeq(wire) = {Head(wire)} \cup InSeq(wire')
    BY <2>1, InSeqTail
  <2>3. Serving = {} /\ Serving' = {Head(wire)}
    BY <2>1, <2>2, CmdsAssumption DEF Serving
  <2>4. Reached' = Reached
    BY <2>1, <2>2, <2>3 DEF Reached
  <2>5. Ordered(started, wire') /\ AllPrecede(started, Serving', InSeq(wire'))
    BY <2>1, <2>3, OrderedTail
  <2>6. AllPrecede(started, InSeq(performed), Serving' \cup InSeq(wire'))
    BY <2>2, <2>3 DEF AllPrecede
  <2> QED
    BY <2>1, <2>4, <2>5, <2>6
<1>9. CASE Respond
  <2>1. /\ serving \in Cmds /\ Serving = {serving} /\ Serving' = {}
        /\ performed' = Append(performed, serving)
        /\ InSeq(performed') = InSeq(performed) \cup {serving}
        /\ UNCHANGED <<started, wire, current, written>>
    BY <1>9, InSeqAppend DEF Respond, vars, Serving
  <2>2. Reached' = Reached
    BY <2>1 DEF Reached
  <2>3. AllPrecede(started, InSeq(performed), {serving})
    BY <2>1 DEF AllPrecede
  <2>4. Ordered(started, performed')
    BY <2>1, <2>3, OrderedAppend
  <2>5. /\ AllPrecede(started, InSeq(performed'), Serving' \cup InSeq(wire))
        /\ AllPrecede(started, Serving', InSeq(wire))
    BY <2>1 DEF AllPrecede
  <2> QED
    BY <2>1, <2>2, <2>4, <2>5
<1>10. CASE HangUp
  <2>1. /\ wire' = <<>> /\ InSeq(wire') = {} /\ Serving' = {}
        /\ UNCHANGED <<started, performed, current, written>>
    BY <1>10, InSeqEmpty DEF HangUp, vars, Serving
  <2>2. Reached' \subseteq Reached
    BY <2>1 DEF Reached
  <2>3. /\ AllPrecede(started, InSeq(performed), Serving' \cup InSeq(wire'))
        /\ AllPrecede(started, Serving', InSeq(wire'))
        /\ current # NoCmd /\ ~written => AllPrecede(started, Reached', {current})
    BY <2>1, <2>2 DEF AllPrecede
  <2> QED
    BY <2>1, <2>2, <2>3, OrderedEmpty
<1>11. CASE RespondRest \/ UNCHANGED allVars
  BY <1>3, <1>11 DEF RespondRest, allVars, vars, pathVars
<1> QED
  BY <1>4, <1>5, <1>6, <1>7, <1>8, <1>9, <1>10, <1>11, <1>12
     DEF PathNext, ExecuteStep, CallStep, EmulatorStep

LEMMA PrecedesDiffers ==
  \A a, x, y : NoDuplicates(a) /\ Precedes(a, x, y) => x # y
  BY DEF NoDuplicates, Precedes

\* On the whole path, too, a command is picked once.
LEMMA PathStartedOnce == PathSpec => []NoDuplicates(started)
  BY PathImplementsScheduler, StartedOnce, PTL

\* Whatever times out or fails, the worker performs commands once and in the
\* order in which the scheduler picked them (scheduler.rs:208, worker.rs:404).
THEOREM PerformedInOrder == PathSpec => []PerformedOnceInOrder
<1>1. PerformInv /\ NoDuplicates(started) => PerformedOnceInOrder
  <2> SUFFICES ASSUME PerformInv, NoDuplicates(started),
                      NEW i \in DOMAIN performed, NEW j \in DOMAIN performed, i < j
               PROVE  /\ performed[i] # performed[j]
                      /\ \E a, b \in DOMAIN started :
                           a < b /\ started[a] = performed[i] /\ started[b] = performed[j]
    BY DEF PerformedOnceInOrder
  <2>1. Precedes(started, performed[i], performed[j])
    BY DEF PerformInv, Ordered
  <2> QED
    BY <2>1, PrecedesDiffers DEF Precedes
<1> QED
  BY <1>1, PathTypeInit, PathTypeStep, PerformInit, PerformStep, PathStartedOnce, PTL
     DEF PathSpec

-----------------------------------------------------------------------------
(* Which response a call is given                                           *)

\* Commands are written in the order in which they were picked; the one being
\* executed is the last that was written, if it is written.
SentInv ==
  /\ Ordered(started, sent)
  /\ InSeq(sent) \subseteq InSeq(started)
  /\ current # NoCmd /\ ~written => AllPrecede(started, InSeq(sent), {current})
  /\ written => sent # <<>> /\ sent[Len(sent)] = current

LEMMA SentInit == PathInit => SentInv
  BY InSeqEmpty, OrderedEmpty DEF PathInit, Init, SentInv, AllPrecede

LEMMA SentStep ==
  ASSUME PathTypeInv, PerformInv, SentInv, [PathNext]_allVars
  PROVE  SentInv'
<1> USE DEF SentInv, PathTypeInv, PathTypeOK, TypeInv, TypeOK
<1>1. InSeq(sent) \subseteq Cmds
  BY DEF InSeq
<1>2. ASSUME NEW c \in Cmds, Take(c), UNCHANGED pathVars
      PROVE  SentInv'
  <2>1. /\ started' = Append(started, c) /\ current' = c
        /\ UNCHANGED <<sent, written>> /\ ~written
    BY <1>2 DEF Take, pathVars
  <2>2. /\ InSeq(started') = InSeq(started) \cup {c}
        /\ \A x \in InSeq(started) : Precedes(started', x, c)
    BY <2>1, InSeqAppend, PrecedesAppend
  <2>3. Ordered(started', sent)
    BY <2>1, OrderedStays
  <2>4. AllPrecede(started', InSeq(sent), {c})
    BY <2>2 DEF AllPrecede
  <2> QED
    BY <2>1, <2>2, <2>3, <2>4
<1>3. ASSUME UNCHANGED <<sent, started>>,
             \/ UNCHANGED <<current, written>>
             \/ current' = NoCmd /\ ~written'
      PROVE  SentInv'
  <2>1. InSeq(sent') = InSeq(sent)
    BY <1>3
  <2>2. CASE UNCHANGED <<current, written>>
    BY <1>3, <2>1, <2>2
  <2>3. CASE current' = NoCmd /\ ~written'
    BY <1>3, <2>1, <2>3
  <2> QED
    BY <1>3, <2>2, <2>3
<1>4. CASE CallerStep /\ UNCHANGED pathVars
  BY <1>3, <1>4 DEF CallerStep, Submit, Enqueue, Abandon, pathVars
<1>5. CASE WorkerStep /\ UNCHANGED pathVars
  <2>1. CASE PopNext
    <3>1. PICK p \in FirstQueue : Take(Head(queues[p]))
      BY <2>1 DEF PopNext
    <3>2. Head(queues[p]) \in Cmds
      BY InSeqTail DEF FirstQueue
    <3> QED
      BY <1>2, <1>5, <3>1, <3>2
  <2>2. CASE Recv
    <3>1. Head(chan) \in Cmds
      BY <2>2, InSeqTail DEF Recv
    <3> QED
      BY <1>2, <1>5, <2>2, <3>1 DEF Recv
  <2>3. CASE DrainOne \/ DrainEnd
    BY <1>3, <1>5, <2>3 DEF DrainOne, DrainEnd, pathVars
  <2> QED
    BY <1>5, <2>1, <2>2, <2>3 DEF WorkerStep
<1>6. CASE WriteCommand
  <2>1. /\ current \in Cmds /\ current # NoCmd /\ ~written /\ written'
        /\ sent' = Append(sent, current)
        /\ UNCHANGED <<started, current>>
    BY <1>6, CmdsAssumption DEF WriteCommand, vars
  <2>2. /\ InSeq(sent') = InSeq(sent) \cup {current}
        /\ Ordered(started, sent')
    BY <2>1, InSeqAppend, OrderedAppend
  <2>3. sent' # <<>> /\ sent'[Len(sent')] = current
    <3> HIDE DEF SentInv, PathTypeInv, TypeInv, TypeOK
    <3>1. sent \in Seq(Cmds)
      BY DEF PathTypeInv
    <3> HIDE DEF PathTypeOK
    <3> QED
      BY <2>1, <3>1, AppendProperties
  <2> QED
    BY <2>1, <2>2, <2>3 DEF PerformInv
<1>7. CASE CallFails \/ ReadResponse \/ TimeOut \/ TimeOutWriting \/ Misread
  BY <1>3, <1>7 DEF CallFails, ReadResponse, TimeOut, TimeOutWriting, Misread, Finish
<1>8. CASE EmulatorStep \/ HangUp
  BY <1>3, <1>8 DEF EmulatorStep, ReadCommand, Respond, RespondRest, HangUp, vars
<1>9. CASE UNCHANGED allVars
  BY <1>3, <1>9 DEF allVars, vars, pathVars
<1> QED
  BY <1>4, <1>5, <1>6, <1>7, <1>8, <1>9 DEF PathNext, ExecuteStep, CallStep

\* A command is written once; the one about to be written has not been.
LEMMA WrittenOnce ==
  ASSUME SentInv, NoDuplicates(started)
  PROVE  /\ NoDuplicates(sent)
         /\ current # NoCmd /\ ~written => current \notin InSeq(sent)
  BY PrecedesDiffers DEF SentInv, NoDuplicates, Ordered, AllPrecede

\* The places among the first n written commands whose calls have a response.
Answered(n) == {i \in 1 .. n : received[sent[i]] # NoCmd}

\* Responses that the gateway has read as such, or cut up and lost.
Read == Cardinality(Answered(Len(sent))) + cuts

LEMMA AnsweredCount ==
  ASSUME NEW n \in Nat
  PROVE  /\ IsFiniteSet(Answered(n))
         /\ Cardinality(Answered(n)) \in 0 .. n
         /\ Cardinality((1 .. n) \ Answered(n)) = n - Cardinality(Answered(n))
<1>1. IsFiniteSet(1 .. n) /\ Cardinality(1 .. n) = n
  BY FS_Interval
<1>2. Answered(n) \in SUBSET (1 .. n)
  BY DEF Answered
<1>3. IsFiniteSet(Answered(n)) /\ Cardinality(Answered(n)) <= n
  BY <1>1, <1>2, FS_Subset
<1>4. Cardinality(Answered(n)) \in Nat
  BY <1>3, FS_CardinalityType
<1>5. (1 .. n) \cap Answered(n) = Answered(n)
  BY <1>2
<1>6. Cardinality((1 .. n) \ Answered(n))
        = Cardinality(1 .. n) - Cardinality((1 .. n) \cap Answered(n))
  BY <1>1, FS_Difference
<1>7. Cardinality((1 .. n) \ Answered(n)) = n - Cardinality(Answered(n))
  BY <1>1, <1>5, <1>6, Zenon
<1>8. \A k \in Nat : k <= n => k \in 0 .. n
  OBVIOUS
<1> QED
  BY <1>3, <1>4, <1>7, <1>8, Zenon

\* Places on the stream that the worker has answered, and with the command it
\* is at.
Responded == Read + Len(inbox)
Begun     == IF serving = NoCmd THEN Responded ELSE Responded + 1

\* The stream holds no identifiers, but nothing in its middle goes uncounted:
\* what the gateway has read or lost, what it can read, the command the worker
\* is at and what the worker has not read follow each other as they were
\* written, up to a command that was cut off.
StreamInv ==
  /\ \A c \in Cmds : received[c] # NoCmd => c \in InSeq(sent)
  /\ written => received[current] = NoCmd
  /\ Begun <= Len(sent)
  /\ \A k \in 1 .. Len(inbox) : inbox[k] = sent[Read + k]
  /\ serving # NoCmd => serving = sent[Responded + 1]
  /\ up => /\ Begun + Len(wire) <= Len(sent)
           /\ ~torn => Begun + Len(wire) = Len(sent)
           /\ \A k \in 1 .. Len(wire) : wire[k] = sent[Begun + k]

\* The response of the call on place i answers the command on the place that
\* counts the calls with a response, its own included, and the lost responses.
Source(i) == Cardinality(Answered(i - 1)) + cutsAt[sent[i]] + 1

PlaceInv ==
  \A i \in 1 .. Len(sent) :
    received[sent[i]] # NoCmd
    => Source(i) <= i /\ received[sent[i]] = sent[Source(i)]

LEMMA StreamInit == PathInit => StreamInv /\ PlaceInv
<1> SUFFICES ASSUME PathInit PROVE StreamInv /\ PlaceInv
  OBVIOUS
<1>1. Len(sent) = 0 /\ Len(inbox) = 0 /\ Len(wire) = 0 /\ 1 .. 0 = {}
  BY EmptySeq DEF PathInit
<1>2. Read = 0
  BY <1>1, FS_EmptySet DEF Read, Answered, PathInit
<1> QED
  BY <1>1, <1>2 DEF PathInit, StreamInv, PlaceInv, Responded, Begun

\* Writing the next command changes neither what is answered nor its places.
LEMMA WriteLeaves ==
  ASSUME PathTypeInv, SentInv, NoDuplicates(started), StreamInv, WriteCommand
  PROVE  /\ received[current] = NoCmd /\ current \in Cmds
         /\ Len(sent') = Len(sent) + 1 /\ sent'[Len(sent')] = current
         /\ \A i \in 1 .. Len(sent) : sent'[i] = sent[i]
         /\ \A n \in 0 .. Len(sent) : Answered(n)' = Answered(n)
         /\ Read' = Read
<1> USE DEF PathTypeInv, PathTypeOK, TypeInv, TypeOK
<1>1. /\ current \in Cmds /\ current # NoCmd /\ current \notin InSeq(sent)
      /\ sent' = Append(sent, current)
      /\ UNCHANGED <<received, current, cuts>>
  BY WrittenOnce, CmdsAssumption DEF WriteCommand, vars
<1>2. received[current] = NoCmd
  BY <1>1 DEF StreamInv
<1>3. /\ Len(sent') = Len(sent) + 1 /\ sent'[Len(sent')] = current
      /\ \A i \in 1 .. Len(sent) : sent'[i] = sent[i]
      /\ Len(sent) \in Nat
  BY <1>1, AppendProperties, LenProperties
<1>4. ASSUME NEW n \in 0 .. Len(sent)
      PROVE  Answered(n)' = Answered(n)
  <2>1. \A i \in 1 .. n : sent'[i] = sent[i]
    BY <1>3
  <2> QED
    BY <1>1, <2>1 DEF Answered
<1>5. Read' = Read
  <2>1. PICK n \in Nat : n = Len(sent) /\ n + 1 = Len(sent')
    BY <1>3
  <2>2. received'[sent'[n + 1]] = NoCmd
    BY <1>1, <1>2, <1>3, <2>1
  <2>6. 1 .. n + 1 = (1 .. n) \cup {n + 1}
    BY <2>1
  <2>3. Answered(n + 1)' = Answered(n)'
    BY <2>2, <2>6 DEF Answered
  <2>4. Answered(n)' = Answered(n)
    BY <1>4, <2>1
  <2>5. /\ Read = Cardinality(Answered(n)) + cuts
        /\ Read' = Cardinality(Answered(n + 1)') + cuts
    BY <1>1, <2>1 DEF Read, Answered
  <2> QED
    BY <2>3, <2>4, <2>5
<1> QED
  BY <1>1, <1>2, <1>3, <1>4, <1>5

\* Reading the next response answers the last written command and no other.
LEMMA ReadAnswers ==
  ASSUME PathTypeInv, SentInv, NoDuplicates(started), StreamInv, ReadResponse
  PROVE  /\ current \in Cmds /\ sent' = sent /\ Len(sent) \in Nat \ {0}
         /\ sent[Len(sent)] = current
         /\ \A i \in 1 .. Len(sent) - 1 : sent[i] # current
         /\ received' = [received EXCEPT ![current] = sent[Read + 1]]
         /\ received'[current] \in Cmds
         /\ Len(inbox) \in Nat \ {0} /\ Len(inbox') = Len(inbox) - 1
         /\ \A k \in 1 .. Len(inbox') : inbox'[k] = inbox[k + 1]
         /\ \A n \in 0 .. Len(sent) - 1 : Answered(n)' = Answered(n)
         /\ Read = Cardinality(Answered(Len(sent) - 1)) + cuts
         /\ Read' = Read + 1
         /\ cutsAt' = [cutsAt EXCEPT ![current] = cuts]
<1>1. /\ current \in Cmds /\ sent' = sent /\ sent # <<>> /\ sent[Len(sent)] = current
      /\ received[current] = NoCmd /\ inbox \in Seq(Cmds) \ {<<>>} /\ inbox' = Tail(inbox)
      /\ received' = [received EXCEPT ![current] = Head(inbox)]
      /\ sent \in Seq(Cmds) /\ received \in [Cmds -> Cmds \cup {NoCmd}]
      /\ cuts' = cuts /\ cuts \in Nat
      /\ cutsAt' = [cutsAt EXCEPT ![current] = cuts]
  BY DEF ReadResponse, Readable, NextResponse, Finish, SentInv, StreamInv, PathTypeInv, PathTypeOK,
         TypeInv, TypeOK
<1>2. Len(sent) \in Nat \ {0} /\ DOMAIN sent = 1 .. Len(sent)
  BY <1>1, EmptySeq, LenProperties
<1> PICK m \in Nat : m + 1 = Len(sent)
  <2>1. \A n \in Nat \ {0} : \E k \in Nat : k + 1 = n
    <3> TAKE n \in Nat \ {0}
    <3> WITNESS n - 1 \in Nat
    <3> QED
      OBVIOUS
  <2> QED
    BY <1>2, <2>1
<1>3. \A i \in 1 .. m : sent[i] # current
  <2>1. NoDuplicates(sent)
    BY WrittenOnce
  <2>2. \A i \in 1 .. m : i \in 1 .. m + 1 /\ m + 1 \in 1 .. m + 1 /\ i < m + 1
    OBVIOUS
  <2> QED
    BY <1>1, <1>2, <2>1, <2>2 DEF NoDuplicates
<1>4. /\ Head(inbox) \in Cmds /\ Len(inbox) \in Nat \ {0} /\ Len(inbox') = Len(inbox) - 1
      /\ \A k \in 1 .. Len(inbox') : inbox'[k] = inbox[k + 1]
      /\ Head(inbox) = inbox[1]
  BY <1>1, HeadTailProperties, EmptySeq, LenProperties
<1>5. Head(inbox) = sent[Read + 1]
  BY <1>4 DEF StreamInv
<1>6. /\ received'[current] = Head(inbox) /\ Head(inbox) # NoCmd
      /\ \A c \in Cmds \ {current} : received'[c] = received[c]
  BY <1>1, <1>4, CmdsAssumption
<1>7. \A i \in 1 .. Len(sent) : sent[i] \in Cmds
  BY <1>1, ElementOfSeq
<1>8. ASSUME NEW n \in 0 .. m
      PROVE  Answered(n)' = Answered(n)
  <2>1. \A i \in 1 .. n : sent[i] \in Cmds \ {current}
    BY <1>3, <1>7
  <2> QED
    BY <1>1, <1>6, <2>1 DEF Answered
<1>9. 1 .. m + 1 = (1 .. m) \cup {m + 1} /\ m + 1 \notin 1 .. m
  OBVIOUS
<1>10. Answered(m + 1) = Answered(m) /\ Answered(m + 1)' = Answered(m) \cup {m + 1}
  <2>1. Answered(m + 1)' = Answered(m)' \cup {m + 1}
    BY <1>1, <1>6, <1>9 DEF Answered
  <2>2. Answered(m + 1) = Answered(m)
    BY <1>1, <1>9 DEF Answered
  <2>3. Answered(m)' = Answered(m)
    BY <1>8
  <2> QED
    BY <2>1, <2>2, <2>3
<1>11. /\ Read = Cardinality(Answered(m)) + cuts
       /\ Read' = Cardinality(Answered(m) \cup {m + 1}) + cuts
  BY <1>1, <1>10 DEF Read, Answered
<1>12. m + 1 \notin Answered(m)
  BY <1>9 DEF Answered
<1>13. Read' = Read + 1
  <2>1. IsFiniteSet(Answered(m)) /\ Cardinality(Answered(m)) \in Nat
    BY AnsweredCount, FS_CardinalityType
  <2>2. Cardinality(Answered(m) \cup {m + 1}) = Cardinality(Answered(m)) + 1
    BY <1>12, <2>1, FS_AddElement, Zenon
  <2> QED
    BY <1>1, <1>11, <2>1, <2>2
<1>14. Len(sent) - 1 = m
  OBVIOUS
<1> QED
  BY <1>1, <1>2, <1>3, <1>4, <1>5, <1>6, <1>8, <1>11, <1>13, <1>14

LEMMA StreamStep ==
  ASSUME PathTypeInv, PathTypeInv', SentInv, NoDuplicates(started), StreamInv,
         [PathNext]_allVars
  PROVE  StreamInv'
<1>1. /\ sent \in Seq(Cmds) /\ inbox \in Seq(Cmds) /\ wire \in Seq(Cmds)
      /\ received \in [Cmds -> Cmds \cup {NoCmd}] /\ serving \in Cmds \cup {NoCmd}
      /\ cuts \in Nat /\ torn \in BOOLEAN
  BY DEF PathTypeInv, PathTypeOK
<1>2. PICK L \in Nat, I \in Nat, W \in Nat, R \in Nat :
        /\ L = Len(sent) /\ I = Len(inbox) /\ W = Len(wire) /\ R = Read
        /\ DOMAIN sent = 1 .. L
  <2>1. \A n \in Nat : Cardinality(Answered(n)) \in Nat
    <3> TAKE n \in Nat
    <3>1. IsFiniteSet(Answered(n))
      BY AnsweredCount
    <3> QED
      BY <3>1, FS_CardinalityType
  <2> QED
    <3>1. Len(sent) \in Nat /\ Len(inbox) \in Nat /\ Len(wire) \in Nat
      BY <1>1, LenProperties
    <3>2. Read \in Nat
      <4>1. Cardinality(Answered(Len(sent))) \in Nat
        BY <2>1, <3>1, Zenon
      <4> QED
        BY <1>1, <4>1 DEF Read
    <3> QED
      BY <1>1, <3>1, <3>2, LenProperties
<1>3. ASSUME UNCHANGED <<up, wire, serving, inbox, sent, received, cuts>>,
             torn => torn',
             written' => written /\ current' = current
      PROVE  StreamInv'
  <2>1. UNCHANGED <<Read, Responded, Begun>>
    BY <1>3 DEF Read, Answered, Responded, Begun
  <2> QED
    BY <1>3, <2>1 DEF StreamInv, InSeq
<1>4. CASE (CallerStep \/ WorkerStep) /\ UNCHANGED pathVars
  <2>1. written => current' = current
    BY <1>4 DEF CallerStep, Submit, Enqueue, Abandon, WorkerStep, PopNext, Recv, Take,
                DrainOne, DrainEnd, PathTypeInv
  <2> QED
    BY <1>3, <1>4, <2>1 DEF pathVars
<1>5. CASE CallFails \/ TimeOutWriting
  BY <1>3, <1>5 DEF CallFails, TimeOutWriting
<1>12. CASE TimeOut \/ Misread
  <2>1. /\ UNCHANGED <<up, torn, wire, serving, sent, received>> /\ ~written'
    BY <1>12 DEF TimeOut, Misread
  <2>2. PICK k \in 0 .. Len(inbox) :
          /\ cuts' = cuts + k
          /\ Len(inbox') = Len(inbox) - k
          /\ \A j \in 1 .. Len(inbox') : inbox'[j] = inbox[k + j]
    BY <1>12, Losing
  <2>3. Read' = Read + k
    <3>1. \A n \in Nat : Cardinality(Answered(n)) \in Nat
      <4> TAKE n \in Nat
      <4> QED
        BY AnsweredCount, FS_CardinalityType
    <3>2. Answered(Len(sent))' = Answered(Len(sent)) /\ Len(sent) \in Nat
      BY <1>1, <2>1, LenProperties DEF Answered
    <3> QED
      BY <1>1, <2>1, <2>2, <3>1, <3>2 DEF Read
  <2>4. Responded' = Responded /\ Begun' = Begun
    BY <1>2, <2>1, <2>2, <2>3 DEF Responded, Begun
  <2>5. \A j \in 1 .. Len(inbox') : inbox'[j] = sent[Read + k + j]
    <3> SUFFICES ASSUME NEW j \in 1 .. Len(inbox')
                 PROVE  inbox'[j] = sent[Read + k + j]
      OBVIOUS
    <3>1. /\ k + j \in 1 .. Len(inbox) /\ inbox'[j] = inbox[k + j]
          /\ Read + (k + j) = Read + k + j
      BY <1>2, <2>2
    <3> QED
      BY <3>1 DEF StreamInv
  <2> QED
    BY <2>1, <2>3, <2>4, <2>5 DEF StreamInv
<1>6. CASE WriteCommand
  <2>1. /\ received[current] = NoCmd /\ current \in Cmds
        /\ Len(sent') = Len(sent) + 1 /\ sent'[Len(sent')] = current
        /\ \A i \in 1 .. Len(sent) : sent'[i] = sent[i]
        /\ Read' = Read
    BY <1>6, WriteLeaves
  <2>2. /\ up /\ UNCHANGED <<up, torn, current, serving, inbox, received>>
        /\ sent' = Append(sent, current)
    BY <1>6 DEF WriteCommand, vars
  <2>3. Responded' = Responded /\ Begun' = Begun
    BY <2>1, <2>2 DEF Responded, Begun
  <2>4. /\ Responded \in Nat /\ Begun \in Nat /\ Responded <= Begun
        /\ Begun + Len(wire) <= Len(sent)
        /\ \A k \in 1 .. Len(wire) : wire[k] = sent[Begun + k]
        /\ serving # NoCmd => Responded + 1 <= Len(sent)
        /\ Read + Len(inbox) <= Len(sent)
    BY <1>1, <1>2, <2>2 DEF Responded, Begun, StreamInv
  <2>5. \A c \in Cmds : received[c] # NoCmd => c \in InSeq(sent')
    BY <1>1, <2>1, <2>2, InSeqAppend DEF StreamInv
  <2>6. \A k \in 1 .. Len(inbox) : inbox[k] = sent'[Read + k]
    BY <1>1, <1>2, <2>1, <2>4 DEF StreamInv
  <2>7. serving # NoCmd => serving = sent'[Responded + 1]
    BY <1>1, <2>1, <2>4 DEF StreamInv
  <2> PICK B \in Nat : B = Begun
    BY <2>4
  <2>8. \A k \in 1 .. Len(wire) : wire[k] = sent'[Begun + k]
    <3>1. \A k \in 1 .. W : B + k \in 1 .. L
      BY <1>2, <2>4
    <3> QED
      BY <1>2, <2>1, <2>4, <3>1
  <2>9. /\ Begun' <= Len(sent')
        /\ Begun' + Len(wire') <= Len(sent')
        /\ ~torn' => Begun' + Len(wire') = Len(sent')
        /\ \A k \in 1 .. Len(wire') : wire'[k] = sent'[Begun' + k]
    <3>1. CASE torn
      <4>1. wire' = wire
        BY <1>6, <3>1 DEF WriteCommand
      <4> QED
        BY <1>2, <2>1, <2>2, <2>3, <2>4, <2>8, <3>1, <4>1
    <3>2. CASE ~torn
      <4>1. wire' = Append(wire, current)
        BY <1>6, <3>2 DEF WriteCommand
      <4>2. /\ Len(wire') = Len(wire) + 1 /\ wire'[Len(wire) + 1] = current
            /\ \A k \in 1 .. Len(wire) : wire'[k] = wire[k]
        BY <1>1, <2>1, <4>1, AppendProperties
      <4>3. B + W = L
        BY <1>2, <2>2, <3>2 DEF StreamInv
      <4>4. wire'[W + 1] = sent'[B + (W + 1)]
        BY <1>2, <2>1, <4>2, <4>3
      <4>5. \A k \in 1 .. W + 1 : k \in 1 .. W \/ k = W + 1
        OBVIOUS
      <4>6. \A k \in 1 .. W + 1 : wire'[k] = sent'[B + k]
        BY <1>2, <2>8, <4>2, <4>4, <4>5
      <4>7. B + (W + 1) = L + 1 /\ B <= L + 1
        BY <4>3
      <4> QED
        BY <1>2, <2>1, <2>3, <4>2, <4>6, <4>7
    <3> QED
      BY <1>1, <3>1, <3>2
  <2> QED
    BY <2>1, <2>2, <2>3, <2>5, <2>6, <2>7, <2>9 DEF StreamInv
<1>7. CASE ReadResponse
  <2>1. /\ current \in Cmds /\ sent' = sent
        /\ Len(sent) \in Nat \ {0} /\ sent[Len(sent)] = current
        /\ received' = [received EXCEPT ![current] = sent[Read + 1]]
        /\ Len(inbox) \in Nat \ {0} /\ Len(inbox') = Len(inbox) - 1
        /\ \A k \in 1 .. Len(inbox') : inbox'[k] = inbox[k + 1]
        /\ Read' = Read + 1
    BY <1>7, ReadAnswers
  <2>2. UNCHANGED <<up, torn, wire, serving>> /\ ~written'
    BY <1>7 DEF ReadResponse
  <2>3. Responded' = Responded /\ Begun' = Begun
    BY <1>2, <2>1, <2>2 DEF Responded, Begun
  <2>4. current \in InSeq(sent)
    BY <1>1, <2>1 DEF InSeq
  <2>5. \A c \in Cmds : received'[c] # NoCmd => c \in InSeq(sent)
    BY <2>1, <2>4 DEF StreamInv
  <2>6. \A k \in 1 .. Len(inbox') : inbox'[k] = sent[Read + 1 + k]
    <3> SUFFICES ASSUME NEW k \in 1 .. Len(inbox')
                 PROVE  inbox'[k] = sent[Read + 1 + k]
      OBVIOUS
    <3>1. k + 1 \in 1 .. Len(inbox) /\ inbox'[k] = inbox[k + 1] /\ Read + (k + 1) = Read + 1 + k
      BY <1>2, <2>1
    <3> QED
      BY <3>1 DEF StreamInv
  <2> QED
    BY <2>1, <2>2, <2>3, <2>5, <2>6 DEF StreamInv
<1>8. CASE ReadCommand
  <2>1. /\ wire \in Seq(Cmds) \ {<<>>} /\ wire' = Tail(wire) /\ serving' = Head(wire)
        /\ serving = NoCmd /\ up
        /\ UNCHANGED <<up, torn, current, written, inbox, sent, received, cuts>>
    BY <1>1, <1>8 DEF ReadCommand, vars
  <2>2. /\ Head(wire) \in Cmds /\ Len(wire) \in Nat \ {0} /\ Len(wire') = Len(wire) - 1
        /\ \A k \in 1 .. Len(wire') : wire'[k] = wire[k + 1]
        /\ Head(wire) = wire[1]
    BY <2>1, HeadTailProperties, EmptySeq, LenProperties
  <2>3. Read' = Read /\ Responded' = Responded /\ Responded \in Nat
    BY <1>1, <1>2, <2>1 DEF Read, Answered, Responded
  <2>4. Begun = Responded /\ Begun' = Responded + 1
    BY <2>1, <2>2, <2>3, CmdsAssumption DEF Begun
  <2>5. /\ Begun + Len(wire) <= Len(sent)
        /\ ~torn => Begun + Len(wire) = Len(sent)
        /\ \A k \in 1 .. Len(wire) : wire[k] = sent[Begun + k]
    BY <2>1 DEF StreamInv
  <2>6. /\ serving' = sent[Responded + 1]
        /\ Responded + 1 + Len(wire') <= Len(sent)
        /\ ~torn => Responded + 1 + Len(wire') = Len(sent)
    BY <1>2, <2>1, <2>2, <2>3, <2>4, <2>5
  <2>7. Responded + 1 <= Len(sent)
    BY <1>2, <2>2, <2>3, <2>4, <2>5
  <2>8. \A k \in 1 .. Len(wire') : wire'[k] = sent[Responded + 1 + k]
    <3> SUFFICES ASSUME NEW k \in 1 .. Len(wire')
                 PROVE  wire'[k] = sent[Responded + 1 + k]
      OBVIOUS
    <3>1. /\ k + 1 \in 1 .. Len(wire) /\ wire'[k] = wire[k + 1]
          /\ Responded + (k + 1) = Responded + 1 + k
      BY <2>2, <2>3
    <3> QED
      BY <2>4, <2>5, <3>1
  <2> QED
    BY <2>1, <2>3, <2>4, <2>6, <2>7, <2>8 DEF StreamInv, InSeq
<1>9. CASE Respond
  <2>1. /\ serving \in Cmds /\ serving # NoCmd /\ serving' = NoCmd
        /\ inbox' = Append(inbox, serving)
        /\ UNCHANGED <<up, torn, current, written, wire, sent, received, cuts>>
    BY <1>1, <1>9 DEF Respond, vars
  <2>2. /\ Len(inbox') = Len(inbox) + 1 /\ inbox'[Len(inbox) + 1] = serving
        /\ \A k \in 1 .. Len(inbox) : inbox'[k] = inbox[k]
    BY <2>1, AppendProperties
  <2>3. Read' = Read
    BY <2>1 DEF Read, Answered
  <2>4. Responded = Read + Len(inbox) /\ Responded' = Responded + 1
    BY <1>1, <1>2, <2>2, <2>3 DEF Responded
  <2>5. Begun' = Begun
    BY <2>1, <2>4 DEF Begun
  <2>6. \A k \in 1 .. Len(inbox) + 1 : inbox'[k] = sent[Read + k]
    BY <1>1, <1>2, <2>1, <2>2, <2>4 DEF StreamInv
  <2> QED
    BY <2>1, <2>2, <2>3, <2>5, <2>6 DEF StreamInv, InSeq
<1>10. CASE HangUp
  <2>1. /\ ~up' /\ serving' = NoCmd
        /\ UNCHANGED <<torn, current, written, inbox, sent, received, cuts>>
    BY <1>10 DEF HangUp, vars
  <2>2. Read' = Read /\ Responded' = Responded /\ Begun' = Responded
    BY <2>1 DEF Read, Answered, Responded, Begun
  <2>3. Responded <= Len(sent)
    BY <1>1, <1>2 DEF StreamInv, Begun, Responded
  <2> QED
    BY <2>1, <2>2, <2>3 DEF StreamInv, InSeq
<1>11. CASE RespondRest \/ UNCHANGED allVars
  BY <1>3, <1>11 DEF RespondRest, allVars, vars, pathVars
<1> QED
  BY <1>4, <1>5, <1>6, <1>7, <1>8, <1>9, <1>10, <1>11, <1>12
     DEF PathNext, ExecuteStep, CallStep, EmulatorStep

LEMMA PlaceStep ==
  ASSUME PathTypeInv, SentInv, NoDuplicates(started), StreamInv, PlaceInv,
         [PathNext]_allVars
  PROVE  PlaceInv'
<1>1. /\ sent \in Seq(Cmds) /\ received \in [Cmds -> Cmds \cup {NoCmd}]
      /\ Len(sent) \in Nat /\ cuts \in Nat /\ cutsAt \in [Cmds -> Nat]
  BY LenProperties DEF PathTypeInv, PathTypeOK
<1>2. \A n \in Nat : Cardinality(Answered(n)) \in 0 .. n
  <2> TAKE n \in Nat
  <2> QED
    BY AnsweredCount
<1>3. CASE WriteCommand
  <2>1. /\ received[current] = NoCmd /\ UNCHANGED <<received, cutsAt>>
        /\ Len(sent') = Len(sent) + 1 /\ sent'[Len(sent')] = current
        /\ \A i \in 1 .. Len(sent) : sent'[i] = sent[i]
        /\ \A n \in 0 .. Len(sent) : Answered(n)' = Answered(n)
    BY <1>3, WriteLeaves DEF WriteCommand
  <2> SUFFICES ASSUME NEW i \in 1 .. Len(sent) + 1, received'[sent'[i]] # NoCmd
               PROVE  /\ Source(i)' <= i
                      /\ received'[sent'[i]] = sent'[Source(i)']
    BY <2>1 DEF PlaceInv
  <2>2. i \in 1 .. Len(sent)
    BY <1>1, <2>1
  <2>3. /\ i - 1 \in Nat /\ i - 1 \in 0 .. Len(sent)
        /\ \A n \in 0 .. i - 1 : n + 1 \in 1 .. Len(sent)
    BY <1>1, <2>2
  <2>4. Cardinality(Answered(i - 1))' = Cardinality(Answered(i - 1))
    BY <2>1, <2>3
  <2>5. received[sent[i]] # NoCmd /\ sent'[i] = sent[i]
    BY <2>1, <2>2
  <2>6. Source(i)' = Source(i)
    BY <2>1, <2>4, <2>5 DEF Source
  <2>7. Source(i) <= i /\ received[sent[i]] = sent[Source(i)]
    BY <2>2, <2>5 DEF PlaceInv
  <2>8. Source(i) \in 1 .. Len(sent)
    <3>1. Cardinality(Answered(i - 1)) \in 0 .. i - 1
      BY <1>2, <2>3
    <3>2. sent[i] \in Cmds
      BY <1>1, <2>2, ElementOfSeq
    <3>3. cutsAt[sent[i]] \in Nat /\ Cardinality(Answered(i - 1)) \in Nat
      BY <1>1, <2>2, <3>1, <3>2
    <3> QED
      BY <1>1, <2>2, <2>7, <3>3 DEF Source
  <2> QED
    BY <2>1, <2>5, <2>6, <2>7, <2>8
<1>4. CASE ReadResponse
  <2>1. /\ current \in Cmds /\ sent' = sent /\ Len(sent) \in Nat \ {0}
        /\ sent[Len(sent)] = current
        /\ \A i \in 1 .. Len(sent) - 1 : sent[i] # current
        /\ received' = [received EXCEPT ![current] = sent[Read + 1]]
        /\ \A n \in 0 .. Len(sent) - 1 : Answered(n)' = Answered(n)
        /\ Read = Cardinality(Answered(Len(sent) - 1)) + cuts
        /\ cutsAt' = [cutsAt EXCEPT ![current] = cuts]
        /\ Len(inbox) \in Nat \ {0}
    BY <1>4, ReadAnswers
  <2> SUFFICES ASSUME NEW i \in 1 .. Len(sent), received'[sent[i]] # NoCmd
               PROVE  Source(i)' <= i /\ received'[sent[i]] = sent[Source(i)']
    BY <2>1 DEF PlaceInv
  <2>2. i - 1 \in 0 .. Len(sent) - 1
    BY <2>1
  <2>3. Cardinality(Answered(i - 1))' = Cardinality(Answered(i - 1))
    BY <2>1, <2>2
  <2>4. CASE i = Len(sent)
    <3>1. /\ Cardinality(Answered(i - 1)) \in Nat /\ cutsAt'[current] = cuts
          /\ received'[current] = sent[Read + 1]
      BY <1>1, <1>2, <2>1, <2>4
    <3>2. Source(i)' = Read + 1
      BY <1>1, <2>1, <2>3, <2>4, <3>1 DEF Source
    <3>3. Read + 1 <= Len(sent)
      <4>1. Read \in Nat
        BY <1>1, <2>1, <2>4, <3>1
      <4>2. Responded <= Len(sent)
        BY <1>1, <2>1, <4>1 DEF StreamInv, Begun, Responded
      <4> QED
        BY <1>1, <2>1, <4>1, <4>2 DEF Responded
    <3> QED
      BY <2>1, <2>4, <3>1, <3>2, <3>3
  <2>5. CASE i # Len(sent)
    <3>1. i \in 1 .. Len(sent) - 1
      BY <2>1, <2>5
    <3>2. sent[i] \in Cmds /\ sent[i] # current
      BY <1>1, <2>1, <3>1, ElementOfSeq
    <3>3. received'[sent[i]] = received[sent[i]] /\ cutsAt'[sent[i]] = cutsAt[sent[i]]
      BY <1>1, <2>1, <3>2
    <3>4. Source(i)' = Source(i)
      BY <2>1, <2>3, <3>3 DEF Source
    <3> QED
      BY <3>3, <3>4 DEF PlaceInv
  <2> QED
    BY <2>4, <2>5
<1>5. CASE UNCHANGED <<sent, received, cutsAt>>
  BY <1>5 DEF PlaceInv, Source, Answered
<1>6. WriteCommand \/ ReadResponse \/ UNCHANGED <<sent, received, cutsAt>>
  BY DEF PathNext, ExecuteStep, CallStep, EmulatorStep, CallFails, TimeOutWriting, TimeOut,
         Misread, ReadCommand, Respond, RespondRest, HangUp, allVars, pathVars
<1> QED
  BY <1>3, <1>4, <1>5, <1>6

\* Calls that have a response, and calls left without one, are all there are
\* before a place: counting the one is counting the other.
LEMMA PlaceShift ==
  PathTypeInv /\ SentInv /\ NoDuplicates(started) /\ StreamInv /\ PlaceInv => AnswersShift
<1> SUFFICES ASSUME PathTypeInv, SentInv, NoDuplicates(started), StreamInv, PlaceInv,
                    NEW c \in Cmds, received[c] # NoCmd
             PROVE  /\ cutsAt[c] <= UnansweredBefore(c)
                    /\ received[c] = sent[Position(c) - UnansweredBefore(c) + cutsAt[c]]
  BY DEF AnswersShift
<1>1. /\ Len(sent) \in Nat /\ DOMAIN sent = 1 .. Len(sent)
      /\ cutsAt[c] \in Nat
  BY LenProperties DEF PathTypeInv, PathTypeOK
<1>2. PICK i \in 1 .. Len(sent) : sent[i] = c
  BY <1>1 DEF StreamInv, InSeq
<1>3. \A k \in DOMAIN sent : sent[k] = c => k = i
  <2> SUFFICES ASSUME NEW k \in 1 .. Len(sent), sent[k] = c, k # i
               PROVE  FALSE
    BY <1>1
  <2>1. k < i \/ i < k
    BY <1>1
  <2> QED
    BY <1>1, <1>2, <2>1, WrittenOnce DEF NoDuplicates
<1>4. Position(c) = i
  BY <1>1, <1>2, <1>3 DEF Position
<1>5. PICK n \in Nat : n = i - 1
  BY <1>1
<1>6. {k \in 1 .. n : received[sent[k]] = NoCmd} = (1 .. n) \ Answered(n)
  BY DEF Answered
<1>7. /\ UnansweredBefore(c) = n - Cardinality(Answered(n))
      /\ Cardinality(Answered(n)) \in 0 .. n
  BY <1>4, <1>5, <1>6, AnsweredCount DEF UnansweredBefore
<1>8. Source(i) = Cardinality(Answered(n)) + cutsAt[c] + 1
  BY <1>2, <1>5 DEF Source
<1>9. Source(i) <= i /\ received[c] = sent[Source(i)]
  BY <1>2 DEF PlaceInv
<1>10. \A k \in 0 .. n, d \in Nat :
         /\ k + d + 1 <= i => d <= n - k
         /\ i - (n - k) + d = k + d + 1
  BY <1>1, <1>5
<1> QED
  BY <1>1, <1>4, <1>7, <1>8, <1>9, <1>10

\* A successful call returns the response to the command written as many places
\* earlier as calls before it were left without one, less the responses that
\* were cut up: never one to a later command, however many calls are dropped at
\* whichever await, and whatever is misread after that (ipc_transport.rs:36).
THEOREM AnswersAreShifted == PathSpec => []AnswersShift
<1>1. PathTypeInv /\ PathTypeInv' /\ PerformInv /\ SentInv /\ NoDuplicates(started)
      /\ StreamInv /\ PlaceInv /\ [PathNext]_allVars
      => SentInv' /\ StreamInv' /\ PlaceInv'
  BY SentStep, StreamStep, PlaceStep
<1> QED
  BY <1>1, PathTypeInit, PathTypeStep, PerformInit, PerformStep, SentInit, StreamInit,
     PlaceShift, PathStartedOnce, PTL DEF PathSpec
=============================================================================
