-------------------------- MODULE CommandScheduler --------------------------
(***************************************************************************)
(* crates/mgba/src/scheduler.rs: the per-instance command scheduler.       *)
(* Callers push into one bounded channel; a single task drains it into one *)
(* bounded queue per priority and executes one command at a time.  Each    *)
(* member of Cmds is one submit call.  What the transport answers is left  *)
(* open here; CommandPath fills it in.                                     *)
(***************************************************************************)
EXTENDS Naturals, Sequences, FiniteSets

CONSTANTS Cmds,      \* the submit calls
          NoCmd,     \* no command
          Levels,    \* number of priorities, 5 in the code
          Cap,       \* capacity_per_priority, 16 in the gateway
          Priority   \* the priority of each command, 0 first

Priorities == 0 .. Levels - 1

ASSUME CmdsAssumption == IsFiniteSet(Cmds) /\ NoCmd \notin Cmds
ASSUME SizesAssumption == Levels \in Nat \ {0} /\ Cap \in Nat \ {0}
ASSUME PriorityAssumption == Priority \in [Cmds -> Priorities]

VARIABLES
  caller,    \* where each submit call is, and at the end what it returned
  chan,      \* the mpsc channel
  queues,    \* the worker's VecDeques
  wpc,       \* where run_worker is
  current,   \* the command it picked
  arrived,   \* history: commands in the order they entered the channel
  started,   \* history: commands in the order they were picked
  due        \* history: commands inside when the last execution ended

vars == <<caller, chan, queues, wpc, current, arrived, started, due>>

Outcomes  == {"ok", "error", "timeout", "closed"}
CallerPcs == {"idle", "sending", "waiting", "gone"} \cup Outcomes
WorkerPcs == {"pop", "drain", "exec", "redrain"}

\* mpsc::channel(capacity_per_priority.saturating_mul(5).max(1))
ChanCap == Levels * Cap

InSeq(s) == {s[i] : i \in DOMAIN s}
Queued == UNION {InSeq(queues[p]) : p \in Priorities}

\* The receiver of a oneshot may be gone; the sender ignores that.
Reply(c, result) ==
  caller' = [caller EXCEPT ![c] = IF @ = "waiting" THEN result ELSE @]

-----------------------------------------------------------------------------
(* Callers                                                                  *)

Submit(c) ==
  /\ caller[c] = "idle"
  /\ caller' = [caller EXCEPT ![c] = "sending"]
  /\ UNCHANGED <<chan, queues, wpc, current, arrived, started, due>>

\* self.tx.send(command).await: waits while the channel is full.
Enqueue(c) ==
  /\ caller[c] = "sending"
  /\ Len(chan) < ChanCap
  /\ caller' = [caller EXCEPT ![c] = "waiting"]
  /\ chan' = Append(chan, c)
  /\ arrived' = Append(arrived, c)
  /\ UNCHANGED <<queues, wpc, current, started, due>>

\* The caller's own timeout or a dropped request: a command that is still
\* outside never enters, one inside stays there.
Abandon(c) ==
  /\ caller[c] \in {"sending", "waiting"}
  /\ caller' = [caller EXCEPT ![c] = "gone"]
  /\ UNCHANGED <<chan, queues, wpc, current, arrived, started, due>>

-----------------------------------------------------------------------------
(* run_worker                                                               *)

FirstQueue == {p \in Priorities : /\ queues[p] # <<>>
                                  /\ \A q \in 0 .. p - 1 : queues[q] = <<>>}

Take(c) ==
  /\ wpc = "pop"
  /\ wpc' = "drain"
  /\ current' = c
  /\ started' = Append(started, c)
  /\ UNCHANGED <<caller, arrived, due>>

\* pop_next
PopNext ==
  \E p \in FirstQueue :
    /\ Take(Head(queues[p]))
    /\ queues' = [queues EXCEPT ![p] = Tail(@)]
    /\ UNCHANGED chan

\* Mutation: the channel is waited on together with the queues.
RecvAnyTime ==
  /\ chan # <<>>
  /\ Take(Head(chan))
  /\ chan' = Tail(chan)
  /\ UNCHANGED queues

\* rx.recv().await, only when every queue is empty.
Recv ==
  /\ \A p \in Priorities : queues[p] = <<>>
  /\ chan # <<>>
  /\ Take(Head(chan))
  /\ chan' = Tail(chan)
  /\ UNCHANGED queues

PushBack(c, p) == [queues EXCEPT ![p] = Append(@, c)]

\* Mutation: the command that does not fit is dropped with its reply channel
\* kept open.
DropSilently(c) == UNCHANGED caller

RejectFull(c) == Reply(c, "closed")

IsFull(p) == Len(queues[p]) >= Cap

\* One turn of drain_available's loop.
DrainOne ==
  /\ wpc \in {"drain", "redrain"}
  /\ chan # <<>>
  /\ chan' = Tail(chan)
  /\ LET c == Head(chan)
         p == Priority[c]
     IN \/ IsFull(p) /\ RejectFull(c) /\ UNCHANGED queues
        \/ ~IsFull(p) /\ queues' = PushBack(c, p) /\ UNCHANGED caller
  /\ UNCHANGED <<wpc, current, arrived, started, due>>

\* Mutation: the drain after an execution is missing.
NoDrainNeeded == chan = <<>> \/ wpc = "redrain"

\* try_recv found nothing.
Drained == chan = <<>>

DrainEnd ==
  /\ wpc \in {"drain", "redrain"}
  /\ Drained
  /\ wpc' = IF wpc = "drain" THEN "exec" ELSE "pop"
  /\ UNCHANGED <<caller, chan, queues, current, arrived, started, due>>

\* execute: the transport's answer, its error, or command.timeout, counted
\* from here and not from the submission.
Finish(result) ==
  /\ wpc = "exec"
  /\ Reply(current, result)
  /\ wpc' = "redrain"
  /\ current' = NoCmd
  /\ due' = InSeq(chan) \cup Queued
  /\ UNCHANGED <<chan, queues, arrived, started>>

-----------------------------------------------------------------------------
Init ==
  /\ caller = [c \in Cmds |-> "idle"]
  /\ chan = <<>>
  /\ queues = [p \in Priorities |-> <<>>]
  /\ wpc = "pop"
  /\ current = NoCmd
  /\ arrived = <<>>
  /\ started = <<>>
  /\ due = {}

CallerStep == \E c \in Cmds : Submit(c) \/ Enqueue(c) \/ Abandon(c)

WorkerStep == PopNext \/ Recv \/ DrainOne \/ DrainEnd

Next ==
  \/ CallerStep
  \/ WorkerStep
  \/ \E result \in Outcomes \ {"closed"} : Finish(result)

Spec == Init /\ [][Next]_vars

\* The worker task is scheduled, every execution ends by its timeout at the
\* latest, a sender that finds room goes on.  Nobody has to submit or leave.
Fairness ==
  /\ WF_vars(WorkerStep)
  /\ WF_vars(\E result \in Outcomes \ {"closed"} : Finish(result))
  /\ \A c \in Cmds : WF_vars(Enqueue(c))

FairSpec == Spec /\ Fairness

-----------------------------------------------------------------------------
(* Properties                                                               *)

TypeOK ==
  /\ caller \in [Cmds -> CallerPcs]
  /\ chan \in Seq(Cmds) /\ Len(chan) <= ChanCap
  /\ queues \in [Priorities -> Seq(Cmds)]
  /\ \A p \in Priorities : Len(queues[p]) <= Cap
  /\ wpc \in WorkerPcs
  /\ current \in Cmds \cup {NoCmd}
  /\ arrived \in Seq(Cmds)
  /\ started \in Seq(Cmds)
  /\ due \subseteq Cmds

\* A command that was inside when the previous execution ended is never passed
\* over for one of a lower priority (the test expects frame-1, tap, read,
\* frame-2), although channel and queues are filled while the worker runs.
DueNotOvertaken ==
  \A c \in due \cap (InSeq(chan) \cup Queued) :
    current # NoCmd => Priority[current] <= Priority[c]

\* Commands of one priority are executed in the order they entered.
ArrivalOrder ==
  \A i, j \in DOMAIN started :
    i < j /\ Priority[started[i]] = Priority[started[j]]
    => \E a, b \in DOMAIN arrived : a < b /\ arrived[a] = started[i] /\ arrived[b] = started[j]

\* Every submitted command is answered: executed, rejected or timed out, unless
\* its caller left first.
EveryCallAnswered ==
  \A c \in Cmds : caller[c] = "sending" ~> caller[c] \in Outcomes \cup {"gone"}
=============================================================================
