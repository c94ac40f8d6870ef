---------------------------- MODULE PictureProofs ---------------------------
(***************************************************************************)
(* Proofs about the way of a picture.  FrameFeed, from the core to the     *)
(* hub, for any period, buffer, number of attempts and frames: the pace of *)
(* the emulation, the order of pictures, and why a feed may be over.       *)
(* DashboardPage, from the hub's viewer to the canvas, for any drawings,   *)
(* formats, sizes, tiles and URLs: the canvas shows what the core drew.    *)
(***************************************************************************)
EXTENDS FrameFeed, DashboardPage, SequenceTheorems, TLAPS

-----------------------------------------------------------------------------
(* Types                                                                    *)

TypeOK ==
  /\ now \in Nat /\ nextAt \in Nat /\ frames \in 0 .. MaxFrames
  /\ epc \in {"ready", "running", "asleep"}
  /\ latest \in 0 .. MaxFrames /\ sending \in 0 .. MaxFrames
  /\ reading \in 0 .. MaxFrames /\ hub \in 0 .. MaxFrames
  /\ shutdown \in BOOLEAN /\ alive \in BOOLEAN /\ late \in BOOLEAN
  /\ spc \in {"starting", "accepting", "polling", "writing"}
  /\ conn \in {"none", "open", "dropped"}
  /\ wire \in Seq(Parts)
  /\ ipc \in {"connecting", "reading", "body", "pushing", "ended", "aborted"}
  /\ tries \in 0 .. Tries
  /\ starts \in Seq(Nat) /\ Len(starts) <= 4

TypeInv ==
  /\ TypeOK
  /\ epc = "running" => frames < MaxFrames
  /\ ipc = "connecting" => tries # 0
  /\ spc = "writing" => sending # 0

LEMMA TypeInit == Init => TypeInv
<1> SUFFICES ASSUME Init PROVE TypeInv
  OBVIOUS
<1>1. <<>> \in Seq(Parts) /\ <<>> \in Seq(Nat) /\ Len(<<>>) = 0
  BY EmptySeq
<1>2. 0 \in 0 .. MaxFrames /\ Tries \in 0 .. Tries /\ Tries # 0
  BY NumbersAssumption
<1>3. starts \in Seq(Nat) /\ Len(starts) <= 4 /\ wire \in Seq(Parts)
  BY <1>1 DEF Init
<1> QED
  BY <1>2, <1>3 DEF Init, TypeInv, TypeOK

LEMMA TypeStep == TypeInv /\ [Next]_vars => TypeInv'
<1> SUFFICES ASSUME TypeInv, [Next]_vars PROVE TypeInv'
  OBVIOUS
<1> USE NumbersAssumption
    DEF TypeInv, TypeOK, clockVars, emulatorVars, workerVars, socketVars, ingestVars
<1>1. CASE Tick \/ RequestShutdown \/ Exit
  <2>1. CASE Tick
    BY <2>1 DEF Tick
  <2>2. CASE RequestShutdown
    BY <2>2 DEF RequestShutdown
  <2>3. CASE Exit
    BY <2>3 DEF Exit
  <2> QED
    BY <1>1, <2>1, <2>2, <2>3
<1>2. CASE StartFrame
  <2> DEFINE all == Append(starts, now)
  <2>1. /\ all \in Seq(Nat) /\ Len(all) = Len(starts) + 1 /\ Len(starts) \in Nat
        /\ Tail(all) \in Seq(Nat) /\ Len(Tail(all)) = Len(starts)
    OBVIOUS
  <2>2. starts' = IF Len(all) > 4 THEN Tail(all) ELSE all
    BY <1>2 DEF StartFrame
  <2> HIDE DEF all
  <2>3. starts' \in Seq(Nat) /\ Len(starts') <= 4
    BY <2>1, <2>2
  <2> QED
    BY <1>2, <2>3 DEF StartFrame
<1>3. CASE EndFrame
  <2>1. nextAt' \in Nat
    BY <1>3 DEF EndFrame, Rescheduled, Deadline
  <2>2. frames' \in 0 .. MaxFrames /\ latest' \in 0 .. MaxFrames
    BY <1>3 DEF EndFrame
  <2> QED
    BY <1>3, <2>1, <2>2 DEF EndFrame
<1>4. CASE WakeUp
  BY <1>4 DEF WakeUp
<1>5. CASE Bind \/ Accept \/ SendFails \/ SeesShutdown
  BY <1>5 DEF Bind, Accept, SendFails, SeesShutdown, Exit
<1>6. CASE SendHead
  <2>1. [pic |-> latest, part |-> "head"] \in Parts
    BY <1>6 DEF SendHead, Parts, Pictures
  <2>2. wire' \in Seq(Parts)
    BY <1>6, <2>1 DEF SendHead, Write
  <2> QED
    BY <1>6, <2>2 DEF SendHead
<1>7. CASE SendData
  <2>1. [pic |-> sending, part |-> "data"] \in Parts
    BY <1>7 DEF SendData, Parts, Pictures
  <2>2. wire' \in Seq(Parts)
    BY <1>7, <2>1 DEF SendData, Write, PacketData
  <2> QED
    BY <1>7, <2>2 DEF SendData
<1>8. CASE TryConnect
  BY <1>8 DEF TryConnect, LastTry
<1>9. CASE ReadHead
  <2>1. Head(wire) \in Parts /\ Tail(wire) \in Seq(Parts) /\ reading' = Head(wire).pic
    BY <1>9 DEF ReadHead
  <2>2. reading' \in 0 .. MaxFrames
    BY <2>1 DEF Parts, Pictures
  <2>3. /\ wire' \in {Tail(wire), <<>>} /\ conn' \in {"none", "open", "dropped"}
        /\ ipc' \in {"ended", "body"}
    BY <1>9 DEF ReadHead, FrameTooLarge, Leave
  <2>4. wire' \in Seq(Parts)
    BY <2>1, <2>3, EmptySeq
  <2> QED
    BY <1>9, <2>2, <2>3, <2>4 DEF ReadHead
<1>10. CASE ReadData
  <2>1. wire' \in Seq(Parts)
    BY <1>10 DEF ReadData
  <2> QED
    BY <1>10, <2>1 DEF ReadData
<1>11. CASE PushFrame
  BY <1>11 DEF PushFrame
<1>12. CASE ReadFails \/ Abort
  <2>1. <<>> \in Seq(Parts)
    BY EmptySeq
  <2> QED
    BY <1>12, <2>1 DEF ReadFails, Abort, Leave
<1>13. CASE UNCHANGED vars
  BY <1>13 DEF vars
<1> QED
  BY <1>1, <1>2, <1>3, <1>4, <1>5, <1>6, <1>7, <1>8, <1>9, <1>10, <1>11, <1>12, <1>13
     DEF Next, EmulatorStep, SocketStep, IngestStep

\* Clock, socket and both tasks keep their types; a packet has a picture.
THEOREM FeedTypes == Spec => []TypeOK
<1>1. TypeInv => TypeOK
  BY DEF TypeInv
<1> QED
  BY <1>1, TypeInit, TypeStep, PTL DEF Spec

-----------------------------------------------------------------------------
(* The end of a feed                                                        *)

LEMMA FrozenStep == TypeInv /\ FrozenExplained /\ [Next]_vars => FrozenExplained'
<1> SUFFICES ASSUME TypeInv, FrozenExplained, [Next]_vars PROVE FrozenExplained'
  OBVIOUS
<1> USE DEF FrozenExplained, clockVars, emulatorVars, workerVars, socketVars, ingestVars
<1>1. CASE Tick \/ EmulatorStep \/ RequestShutdown \/ Exit
  BY <1>1 DEF Tick, EmulatorStep, StartFrame, EndFrame, WakeUp, RequestShutdown, Exit
<1>2. CASE SocketStep
  BY <1>2 DEF SocketStep, Bind, Accept, SendHead, SendData, SendFails, SeesShutdown, Exit
<1>3. CASE TryConnect
  BY <1>3 DEF TryConnect, LastTry, TypeInv, TypeOK
<1>4. CASE ReadHead
  BY <1>4 DEF ReadHead, FrameTooLarge, Leave
<1>5. CASE ReadData \/ PushFrame \/ ReadFails \/ Abort
  BY <1>5 DEF ReadData, PushFrame, ReadFails, Abort, Leave
<1>6. CASE UNCHANGED vars
  BY <1>6 DEF vars
<1> QED
  BY <1>1, <1>2, <1>3, <1>4, <1>5, <1>6 DEF Next, IngestStep

\* Whatever the worker does, the ingest task is over only because the worker is,
\* because no attempt was left, or because of a packet over the limit
\* (admin.rs:204).
THEOREM FeedsEndForAReason == Spec => []FrozenExplained
<1>1. Init => FrozenExplained
  BY DEF Init, FrozenExplained
<1> QED
  BY <1>1, TypeInit, TypeStep, FrozenStep, PTL DEF Spec

-----------------------------------------------------------------------------
(* The pace of the emulation                                                *)

\* What frames had to start by, and what was slept for.
ClockInv ==
  /\ nextAt >= frames * Period
  /\ epc # "asleep" => now >= nextAt
  /\ ~late => nextAt = frames * Period

\* How the last three frames lie about the deadline, which moves by a period or
\* more when a frame ends: see BurstStep.
BurstInv ==
  LET L == Len(starts) IN
  /\ epc = "running" =>
       /\ L >= 1 => starts[L] <= now
       /\ L >= 2 => starts[L - 1] <= nextAt + Period
       /\ L >= 3 => starts[L - 2] <= nextAt
  /\ epc # "running" =>
       /\ L >= 1 => starts[L] <= nextAt + Period
       /\ L >= 2 => starts[L - 1] <= nextAt
       /\ L >= 3 => starts[L - 2] + Period <= nextAt
  /\ NoBurst

LEMMA OneMore == \A n \in Nat : (n + 1) * Period = n * Period + Period /\ n * Period \in Nat
  BY NumbersAssumption

LEMMA ClockStep == TypeInv /\ ClockInv /\ [Next]_vars => ClockInv'
<1> SUFFICES ASSUME TypeInv, ClockInv, [Next]_vars PROVE ClockInv'
  OBVIOUS
<1> USE DEF ClockInv, clockVars, emulatorVars, workerVars, socketVars, ingestVars
<1>1. /\ now \in Nat /\ nextAt \in Nat /\ frames \in Nat /\ Period \in Nat \ {0}
      /\ late \in BOOLEAN
  BY NumbersAssumption DEF TypeInv, TypeOK
<1>2. CASE Tick
  BY <1>1, <1>2 DEF Tick
<1>3. CASE EndFrame
  <2> DEFINE owed == frames * Period
  <2>1. /\ frames' * Period = owed + Period /\ owed \in Nat
    BY <1>1, <1>3, OneMore DEF EndFrame
  <2>2. /\ now' = now
        /\ nextAt' = IF now > nextAt + Period + Period THEN now ELSE nextAt + Period
        /\ epc' = IF now < nextAt + Period THEN "asleep" ELSE "ready"
        /\ late' = (late \/ now > nextAt + Period + Period)
    BY <1>3 DEF EndFrame, Rescheduled, Deadline
  <2>3. nextAt >= owed /\ (~late => nextAt = owed)
    OBVIOUS
  <2> HIDE DEF owed
  <2>4. nextAt' >= owed + Period
    BY <1>1, <2>1, <2>2, <2>3
  <2>5. epc' # "asleep" => now' >= nextAt'
    BY <1>1, <2>2
  <2>6. ~late' => ~late /\ ~(now > nextAt + Period + Period)
    BY <2>2
  <2>7. ~late' => nextAt' = owed + Period
    BY <2>2, <2>3, <2>6
  <2> QED
    BY <2>1, <2>4, <2>5, <2>7
<1>4. CASE StartFrame \/ WakeUp
  BY <1>1, <1>4 DEF StartFrame, WakeUp
<1>5. CASE RequestShutdown \/ Exit \/ SocketStep \/ IngestStep \/ Abort \/ UNCHANGED vars
  <2>1. UNCHANGED <<now, epc, nextAt, frames, late>>
    BY <1>5 DEF RequestShutdown, Exit, SocketStep, Bind, Accept, SendHead, SendData, SendFails,
       SeesShutdown, IngestStep, TryConnect, ReadHead, ReadData, PushFrame, ReadFails, Abort, vars
  <2> QED
    BY <2>1
<1> QED
  BY <1>2, <1>3, <1>4, <1>5 DEF Next, EmulatorStep

LEMMA SlackLemma ==
  \A a, b, c, p \in Nat : a <= b /\ b <= c + p => a <= c + p
  OBVIOUS

\* The frame before a deadline started at most a period after that deadline, or
\* the deadline would have been set anew; the fourth one starts two periods on.
LEMMA BurstStep == TypeInv /\ ClockInv /\ BurstInv /\ [Next]_vars => BurstInv'
<1> SUFFICES ASSUME TypeInv, ClockInv, BurstInv, [Next]_vars PROVE BurstInv'
  OBVIOUS
<1> DEFINE L == Len(starts)
<1>1. /\ now \in Nat /\ nextAt \in Nat /\ Period \in Nat \ {0}
      /\ starts \in Seq(Nat) /\ L \in Nat /\ L <= 4 /\ \A k \in 1 .. L : starts[k] \in Nat
  <2>1. starts \in Seq(Nat) /\ Len(starts) <= 4 /\ now \in Nat /\ nextAt \in Nat
    BY DEF TypeInv, TypeOK
  <2>2. Len(starts) \in Nat /\ \A k \in 1 .. Len(starts) : starts[k] \in Nat
    BY <2>1, ElementOfSeq, LenProperties
  <2>3. Period \in Nat \ {0}
    BY NumbersAssumption
  <2>4. L \in Nat /\ L <= 4
    BY <2>1, <2>2
  <2>5. \A k \in 1 .. L : starts[k] \in Nat
    BY <2>2
  <2> QED
    BY <2>1, <2>3, <2>4, <2>5
<1>2. CASE Tick
  BY <1>1, <1>2 DEF Tick, BurstInv, NoBurst, emulatorVars, clockVars
<1>3. CASE StartFrame
  <2> DEFINE all == Append(starts, now)
  <2>1. /\ all \in Seq(Nat) /\ Len(all) = L + 1 /\ all[L + 1] = now
        /\ \A k \in 1 .. L : all[k] = starts[k]
    BY <1>1
  <2>2. /\ epc = "ready" /\ epc' = "running" /\ now' = now /\ nextAt' = nextAt
        /\ starts' = IF Len(all) > 4 THEN Tail(all) ELSE all
    BY <1>3 DEF StartFrame
  <2>3. /\ now >= nextAt
        /\ L >= 1 => starts[L] <= nextAt + Period
        /\ L >= 2 => starts[L - 1] <= nextAt
        /\ L >= 3 => starts[L - 2] + Period <= nextAt
    BY <2>2 DEF ClockInv, BurstInv
  <2> HIDE DEF all
  <2>4. CASE L < 4
    <3>1. starts' = all /\ Len(starts') = L + 1
      BY <1>1, <2>1, <2>2, <2>4
    <3>2. /\ starts'[L + 1] = now
          /\ L >= 1 => starts'[L] = starts[L]
          /\ L >= 2 => starts'[L - 1] = starts[L - 1]
          /\ L >= 3 => starts'[L - 2] = starts[L - 2]
      <4> HIDE DEF L
      <4> QED
        BY <1>1, <2>1, <3>1
    <3> QED
      BY <1>1, <2>2, <2>3, <2>4, <3>1, <3>2 DEF BurstInv, NoBurst
  <2>5. CASE L = 4
    <3>1. starts' = Tail(all) /\ Len(starts') = 4 /\ \A k \in 1 .. 4 : starts'[k] = all[k + 1]
      <4>1. starts' = Tail(all) /\ Len(all) = 5
        BY <2>1, <2>2, <2>5
      <4>2. /\ Len(Tail(all)) = Len(all) - 1
            /\ \A k \in 1 .. Len(Tail(all)) : Tail(all)[k] = all[k + 1]
        BY <2>1, <4>1
      <4>3. Len(Tail(all)) = 4
        BY <4>1, <4>2
      <4>4. \A k \in 1 .. 4 : Tail(all)[k] = all[k + 1]
        BY <4>2, <4>3
      <4> QED
        BY <4>1, <4>3, <4>4
    <3>2. /\ starts'[4] = all[5] /\ starts'[3] = all[4]
          /\ starts'[2] = all[3] /\ starts'[1] = all[2]
      BY <3>1
    <3>3. /\ all[5] = now /\ all[4] = starts[4] /\ all[3] = starts[3]
          /\ all[2] = starts[2]
      BY <2>1, <2>5
    <3>4. starts[2] + Period <= nextAt /\ starts[3] <= nextAt /\ starts[4] <= nextAt + Period
      BY <2>3, <2>5
    <3>5. starts[2] \in Nat
      BY <1>1, <2>5
    <3>6. starts'[4] - starts'[1] >= Period
      BY <1>1, <2>3, <3>2, <3>3, <3>4, <3>5
    <3>7. Len(starts') = 4 /\ 4 - 1 = 3 /\ 4 - 2 = 2
      BY <3>1
    <3>8. /\ starts'[4] = now /\ starts'[3] <= nextAt' + Period /\ starts'[2] <= nextAt'
      BY <2>2, <3>2, <3>3, <3>4
    <3>9. now <= now
      BY <1>1
    <3> QED
      BY <2>2, <3>6, <3>7, <3>8, <3>9 DEF BurstInv, NoBurst
  <2>6. \A n \in Nat : n <= 4 => n < 4 \/ n = 4
    OBVIOUS
  <2> QED
    BY <1>1, <2>4, <2>5, <2>6
<1>4. CASE EndFrame
  <2>1. /\ epc = "running" /\ epc' # "running" /\ starts' = starts
        /\ nextAt' = IF now > nextAt + Period + Period THEN now ELSE nextAt + Period
    BY <1>4 DEF EndFrame, Rescheduled, Deadline
  <2>2. /\ L >= 1 => starts[L] <= now
        /\ L >= 2 => starts[L - 1] <= nextAt + Period
        /\ L >= 3 => starts[L - 2] <= nextAt
    BY <2>1 DEF BurstInv
  <2>3. nextAt' >= nextAt + Period /\ now <= nextAt' + Period /\ nextAt' \in Nat
    BY <1>1, <2>1
  <2>4. /\ L >= 1 => starts[L] <= nextAt' + Period
        /\ L >= 2 => starts[L - 1] <= nextAt'
        /\ L >= 3 => starts[L - 2] + Period <= nextAt'
    <3> HIDE DEF L
    <3>1. /\ L >= 1 => starts[L] \in Nat
          /\ L >= 2 => starts[L - 1] \in Nat
          /\ L >= 3 => starts[L - 2] \in Nat
      BY <1>1
    <3>2. L >= 1 => starts[L] <= nextAt' + Period
      <4>1. now \in Nat /\ nextAt \in Nat /\ Period \in Nat
        BY <1>1
      <4>2. now <= nextAt' + Period /\ nextAt' \in Nat
        BY <2>3
      <4> QED
        BY <4>1, <4>2, <2>2, <3>1, SlackLemma
    <3>3. L >= 2 => starts[L - 1] <= nextAt'
      BY <1>1, <2>2, <2>3, <3>1
    <3>4. L >= 3 => starts[L - 2] + Period <= nextAt'
      BY <1>1, <2>2, <2>3, <3>1
    <3> QED
      BY <3>2, <3>3, <3>4
  <2> QED
    BY <2>1, <2>4 DEF BurstInv, NoBurst
<1>5. CASE WakeUp
  BY <1>5 DEF WakeUp, BurstInv, NoBurst
<1>6. CASE RequestShutdown \/ Exit \/ SocketStep \/ IngestStep \/ Abort \/ UNCHANGED vars
  <2>1. UNCHANGED <<now, epc, nextAt, starts>>
    BY <1>6 DEF RequestShutdown, Exit, SocketStep, Bind, Accept, SendHead, SendData, SendFails,
       SeesShutdown, IngestStep, TryConnect, ReadHead, ReadData, PushFrame, ReadFails, Abort, vars,
       clockVars, emulatorVars
  <2> QED
    BY <2>1 DEF BurstInv, NoBurst
<1> QED
  BY <1>2, <1>3, <1>4, <1>5, <1>6 DEF Next, EmulatorStep

\* For any period and any time a frame takes, the emulation neither runs ahead,
\* nor drifts, nor catches up in a burst (worker.rs:257).
THEOREM PaceIsKept == Spec => []PaceKept
<1>1. Init => ClockInv /\ BurstInv
  <2> SUFFICES ASSUME Init PROVE ClockInv /\ BurstInv
    OBVIOUS
  <2>1. 0 * Period = 0 /\ Len(<<>>) = 0
    BY NumbersAssumption
  <2> QED
    BY <2>1 DEF Init, ClockInv, BurstInv, NoBurst
<1>2. TypeInv /\ ClockInv /\ BurstInv => PaceKept
  <2> SUFFICES ASSUME TypeInv, ClockInv, BurstInv PROVE PaceKept
    OBVIOUS
  <2>1. frames * Period \in Nat /\ now \in Nat /\ nextAt \in Nat
    BY OneMore DEF TypeInv, TypeOK
  <2>2. NeverAhead
    BY <2>1 DEF NeverAhead, ClockInv
  <2> QED
    BY <2>2 DEF ClockInv, BurstInv, PaceKept, NoDrift
<1> QED
  BY <1>1, <1>2, TypeInit, TypeStep, ClockStep, BurstStep, PTL DEF Spec

-----------------------------------------------------------------------------
(* The order of pictures                                                    *)

Connected == ipc \in {"reading", "body", "pushing"}
Carrying  == ipc \in {"body", "pushing"}

\* The connection is there as long as the ingest task reads from it, and is
\* made once.
ConnInv ==
  /\ conn = "open" <=> Connected
  /\ conn = "none" => spc \in {"starting", "accepting"}
  /\ ipc = "connecting" => conn = "none"
  /\ conn # "open" => wire = <<>>
  /\ latest <= frames /\ sending <= latest

Alternating(w) ==
  \A j, k \in 1 .. Len(w) : k = j + 1 =>
    IF w[j].part = "head" THEN w[k] = [pic |-> w[j].pic, part |-> "data"]
                          ELSE w[k].part = "head"

Rising(w) == \A j, k \in 1 .. Len(w) : j < k => w[j].pic <= w[k].pic

Within(w, low, high) == \A k \in 1 .. Len(w) : low <= w[k].pic /\ w[k].pic <= high

\* Headers and data alternate, from the part the ingest task waits for to the
\* part the worker wrote last.
PartsInv ==
  /\ Alternating(wire)
  /\ wire # <<>> => IF ipc = "body" THEN wire[1] = [pic |-> reading, part |-> "data"]
                                    ELSE wire[1].part = "head"
  /\ Connected /\ wire # <<>> =>
       IF spc = "writing" THEN wire[Len(wire)] = [pic |-> sending, part |-> "head"]
                          ELSE wire[Len(wire)].part = "data"
  /\ Connected /\ wire = <<>> => IF spc = "writing" THEN ipc = "body" /\ reading = sending
                                                    ELSE ipc # "body"

\* From the hub to latest_frame pictures are never older.
AgeInv ==
  /\ hub <= latest /\ Within(wire, hub, latest)
  /\ Rising(wire)
  /\ Carrying => hub <= reading /\ reading <= latest /\ Within(wire, reading, latest)

LEMMA TailOfWire ==
  ASSUME NEW w \in Seq(Parts), w # <<>>
  PROVE  /\ w[1] \in Parts /\ Head(w) = w[1] /\ Tail(w) \in Seq(Parts)
         /\ Tail(w) # <<>> => /\ Tail(w)[1] = w[2]
                              /\ Tail(w)[Len(Tail(w))] = w[Len(w)]
         /\ Tail(w) = <<>> => w[Len(w)] = w[1]
         /\ Alternating(w) =>
              /\ Alternating(Tail(w))
              /\ Tail(w) # <<>> => IF w[1].part = "head"
                                   THEN w[2] = [pic |-> w[1].pic, part |-> "data"]
                                   ELSE w[2].part = "head"
         /\ Rising(w) => Rising(Tail(w))
         /\ \A low, high : Within(w, low, high) =>
              /\ Within(Tail(w), low, high)
              /\ low <= w[1].pic /\ w[1].pic <= high
              /\ Rising(w) => Within(Tail(w), w[1].pic, high)
<1>1. PICK n \in Nat : Len(w) = n
  BY LenProperties
<1>2. n # 0
  BY <1>1, EmptySeq
<1> DEFINE t == Tail(w)
<1>3. /\ t \in Seq(Parts) /\ Len(t) = n - 1 /\ \A k \in 1 .. n - 1 : t[k] = w[k + 1]
      /\ Head(w) = w[1]
  BY <1>1, <1>2
<1>4. t = <<>> <=> n = 1
  BY <1>2, <1>3, EmptySeq
<1>5. w[1] \in Parts
  BY <1>1, <1>2, ElementOfSeq
<1> HIDE DEF t
<1>6. t # <<>> => t[1] = w[2] /\ t[n - 1] = w[n]
  BY <1>2, <1>3, <1>4
<1>7. t = <<>> => w[n] = w[1]
  BY <1>4
<1>8. ASSUME Alternating(w)
      PROVE  /\ Alternating(t)
             /\ t # <<>> => IF w[1].part = "head"
                            THEN w[2] = [pic |-> w[1].pic, part |-> "data"]
                            ELSE w[2].part = "head"
  <2>1. Alternating(t)
    BY <1>1, <1>2, <1>3, <1>8 DEF Alternating
  <2>2. t # <<>> => 1 \in 1 .. n /\ 2 \in 1 .. n /\ 2 = 1 + 1
    BY <1>2, <1>4
  <2> QED
    BY <1>1, <1>8, <2>1, <2>2 DEF Alternating
<1>9. ASSUME Rising(w) PROVE Rising(t)
  BY <1>1, <1>2, <1>3, <1>9 DEF Rising
<1>10. ASSUME NEW low, NEW high, Within(w, low, high)
       PROVE  /\ Within(t, low, high)
              /\ low <= w[1].pic /\ w[1].pic <= high
              /\ Rising(w) => Within(t, w[1].pic, high)
  <2>1. Within(t, low, high) /\ low <= w[1].pic /\ w[1].pic <= high
    BY <1>1, <1>2, <1>3, <1>10 DEF Within
  <2>2. ASSUME Rising(w) PROVE Within(t, w[1].pic, high)
    BY <1>1, <1>2, <1>3, <1>10, <2>2 DEF Within, Rising
  <2> QED
    BY <2>1, <2>2
<1> QED
  BY <1>1, <1>2, <1>3, <1>5, <1>6, <1>7, <1>8, <1>9, <1>10 DEF t

LEMMA AppendToWire ==
  ASSUME NEW w \in Seq(Parts), NEW p \in Parts
  PROVE  LET v == Append(w, p) IN
         /\ v \in Seq(Parts) /\ v # <<>> /\ v[Len(v)] = p
         /\ v[1] = IF w = <<>> THEN p ELSE w[1]
         /\ Alternating(w)
              /\ (w # <<>> => IF w[Len(w)].part = "head"
                              THEN p = [pic |-> w[Len(w)].pic, part |-> "data"]
                              ELSE p.part = "head")
            => Alternating(v)
         /\ Rising(w) /\ (\A k \in 1 .. Len(w) : w[k].pic <= p.pic) => Rising(v)
         /\ \A low, high : Within(w, low, high) /\ low <= p.pic /\ p.pic <= high =>
              Within(v, low, high)
<1>1. PICK n \in Nat : Len(w) = n
  BY LenProperties
<1>2. w = <<>> <=> n = 0
  BY <1>1, EmptySeq
<1> DEFINE v == Append(w, p)
<1>3. /\ v \in Seq(Parts) /\ Len(v) = n + 1 /\ v[n + 1] = p
      /\ \A k \in 1 .. n : v[k] = w[k]
  BY <1>1
<1>4. v # <<>>
  <2>1. n + 1 # 0
    OBVIOUS
  <2> QED
    BY <1>3, <2>1, EmptySeq
<1> HIDE DEF v
<1>5. v[1] = IF w = <<>> THEN p ELSE w[1]
  BY <1>2, <1>3
<1>6. ASSUME Alternating(w),
             w # <<>> => IF w[n].part = "head"
                         THEN p = [pic |-> w[n].pic, part |-> "data"]
                         ELSE p.part = "head"
      PROVE  Alternating(v)
  BY <1>1, <1>2, <1>3, <1>6 DEF Alternating
<1>7. ASSUME Rising(w), \A k \in 1 .. n : w[k].pic <= p.pic PROVE Rising(v)
  BY <1>1, <1>3, <1>7 DEF Rising
<1>8. ASSUME NEW low, NEW high, Within(w, low, high), low <= p.pic, p.pic <= high
      PROVE  Within(v, low, high)
  BY <1>1, <1>3, <1>8 DEF Within
<1> QED
  BY <1>1, <1>3, <1>4, <1>5, <1>6, <1>7, <1>8 DEF v

LEMMA ConnStep == TypeInv /\ ConnInv /\ [Next]_vars => ConnInv'
<1> SUFFICES ASSUME TypeInv, ConnInv, [Next]_vars PROVE ConnInv'
  OBVIOUS
<1> USE DEF ConnInv, Connected, clockVars, emulatorVars, workerVars, socketVars, ingestVars
<1>1. CASE Tick \/ RequestShutdown \/ Exit
  BY <1>1 DEF Tick, RequestShutdown, Exit
<1>2. CASE EmulatorStep
  <2>1. frames \in Nat /\ latest \in Nat /\ sending \in Nat
    BY NumbersAssumption DEF TypeInv, TypeOK
  <2>2. frames' >= frames /\ latest' >= latest /\ latest' <= frames' /\ latest' \in Nat
    BY <1>2, <2>1 DEF EmulatorStep, StartFrame, EndFrame, WakeUp
  <2>3. sending' = sending /\ sending <= latest'
    BY <1>2, <2>1, <2>2 DEF EmulatorStep, StartFrame, EndFrame, WakeUp
  <2>4. UNCHANGED <<conn, ipc, spc, wire>>
    BY <1>2 DEF EmulatorStep, StartFrame, EndFrame, WakeUp
  <2> QED
    BY <2>2, <2>3, <2>4
<1>3. CASE Bind \/ Accept \/ SendData \/ SendFails \/ SeesShutdown
  BY <1>3 DEF Bind, Accept, SendData, SendFails, SeesShutdown, Exit, Write
<1>4. CASE SendHead
  <2>1. latest <= latest
    BY NumbersAssumption DEF TypeInv, TypeOK
  <2> QED
    BY <1>4, <2>1 DEF SendHead, Write
<1>5. CASE TryConnect
  BY <1>5 DEF TryConnect, Reachable, TypeInv, TypeOK
<1>6. CASE ReadHead \/ ReadData \/ PushFrame
  BY <1>6 DEF ReadHead, ReadData, PushFrame, FrameTooLarge, Leave
<1>7. CASE ReadFails \/ Abort
  BY <1>7 DEF ReadFails, Abort, Leave
<1>8. CASE UNCHANGED vars
  BY <1>8 DEF vars
<1> QED
  BY <1>1, <1>2, <1>3, <1>4, <1>5, <1>6, <1>7, <1>8 DEF Next, SocketStep, IngestStep

\* What leaves wire, conn, ipc, spc, reading and sending alone leaves PartsInv
\* alone; a header is written after data, its data after it.
LEMMA PartsStep == TypeInv /\ ConnInv /\ PartsInv /\ [Next]_vars => PartsInv'
<1> SUFFICES ASSUME TypeInv, ConnInv, PartsInv, [Next]_vars PROVE PartsInv'
  OBVIOUS
<1> USE DEF Connected, clockVars, emulatorVars, workerVars, socketVars, ingestVars
<1>1. wire \in Seq(Parts)
  BY DEF TypeInv, TypeOK
<1>2. CASE Tick \/ EmulatorStep \/ RequestShutdown \/ Exit \/ SeesShutdown \/ UNCHANGED vars
  <2>1. UNCHANGED <<wire, conn, ipc, spc, reading, sending>>
    BY <1>2 DEF Tick, EmulatorStep, StartFrame, EndFrame, WakeUp, RequestShutdown, Exit,
       SeesShutdown, vars
  <2> QED
    BY <2>1 DEF PartsInv, Alternating
<1>3. CASE Bind \/ Accept
  <2>1. spc # "writing" /\ spc' # "writing" /\ UNCHANGED <<wire, conn, ipc, reading, sending>>
    BY <1>3 DEF Bind, Accept
  <2> QED
    BY <2>1 DEF PartsInv, Alternating
<1>4. CASE SendHead
  <2> DEFINE p == [pic |-> latest, part |-> "head"]
  <2>1. p \in Parts
    BY <1>4 DEF SendHead, Parts, Pictures, TypeInv, TypeOK
  <2>2. /\ spc = "polling" /\ spc' = "writing" /\ sending' = latest
        /\ UNCHANGED <<conn, ipc, reading>> /\ conn = "open"
        /\ wire' = Append(wire, p)
    BY <1>4 DEF SendHead, Write
  <2>3. Connected
    BY <2>2 DEF ConnInv
  <2>4. p.part = "head" /\ p = [pic |-> sending', part |-> "head"]
    BY <2>2
  <2> HIDE DEF p
  <2>5. wire # <<>> => wire[Len(wire)].part = "data"
    BY <2>2, <2>3 DEF PartsInv
  <2>6. Alternating(wire')
    BY <1>1, <2>1, <2>2, <2>4, <2>5, AppendToWire DEF PartsInv
  <2>7. wire' # <<>> /\ wire'[Len(wire')] = p /\ wire'[1] = IF wire = <<>> THEN p ELSE wire[1]
    BY <1>1, <2>1, <2>2, AppendToWire
  <2>8. IF ipc = "body" THEN wire'[1] = [pic |-> reading, part |-> "data"]
                        ELSE wire'[1].part = "head"
    BY <2>2, <2>3, <2>4, <2>7 DEF PartsInv
  <2> QED
    BY <2>2, <2>4, <2>6, <2>7, <2>8 DEF PartsInv
<1>5. CASE SendData
  <2> DEFINE p == [pic |-> sending, part |-> "data"]
  <2>1. p \in Parts
    BY <1>5 DEF SendData, Parts, Pictures, TypeInv, TypeOK
  <2>2. /\ spc = "writing" /\ spc' = "polling"
        /\ UNCHANGED <<conn, ipc, reading, sending>> /\ conn = "open"
        /\ wire' = Append(wire, p)
    BY <1>5 DEF SendData, Write, PacketData
  <2>3. Connected
    BY <2>2 DEF ConnInv
  <2>4. p.part = "data" /\ p = [pic |-> sending, part |-> "data"]
    OBVIOUS
  <2> HIDE DEF p
  <2>5. /\ wire # <<>> => wire[Len(wire)] = [pic |-> sending, part |-> "head"]
        /\ wire = <<>> => ipc = "body" /\ reading = sending
    BY <2>2, <2>3 DEF PartsInv
  <2>6. Alternating(wire')
    BY <1>1, <2>1, <2>2, <2>4, <2>5, AppendToWire DEF PartsInv
  <2>7. wire' # <<>> /\ wire'[Len(wire')] = p /\ wire'[1] = IF wire = <<>> THEN p ELSE wire[1]
    BY <1>1, <2>1, <2>2, AppendToWire
  <2>8. IF ipc = "body" THEN wire'[1] = [pic |-> reading, part |-> "data"]
                        ELSE wire'[1].part = "head"
    BY <2>2, <2>4, <2>5, <2>7 DEF PartsInv
  <2> QED
    BY <2>2, <2>4, <2>6, <2>7, <2>8 DEF PartsInv
<1>6. CASE SendFails
  <2>1. conn = "dropped" /\ ~Connected /\ wire = <<>>
    BY <1>6 DEF SendFails, ConnInv
  <2>2. UNCHANGED <<wire, ipc>>
    BY <1>6 DEF SendFails
  <2> QED
    BY <2>1, <2>2 DEF PartsInv, Alternating
<1>7. CASE TryConnect
  <2>1. conn = "none" /\ spc \in {"starting", "accepting"} /\ wire = <<>> /\ ipc = "connecting"
    BY <1>7 DEF TryConnect, ConnInv
  <2>2. UNCHANGED <<wire, spc>> /\ ipc' # "body"
    BY <1>7, <2>1 DEF TryConnect
  <2> QED
    BY <2>1, <2>2 DEF PartsInv, Alternating
<1>8. ASSUME wire' = <<>>, ~Connected' PROVE PartsInv'
  <2>1. Alternating(<<>>)
    BY EmptySeq DEF Alternating
  <2> QED
    BY <1>8, <2>1 DEF PartsInv
<1>9. CASE ReadHead
  <2>1. CASE reading' \in Oversized
    BY <1>8, <1>9, <2>1 DEF ReadHead, FrameTooLarge, Leave
  <2>2. CASE reading' \notin Oversized
    <3>1. /\ ipc = "reading" /\ ipc' = "body" /\ wire # <<>> /\ wire' = Tail(wire)
          /\ reading' = Head(wire).pic /\ UNCHANGED <<spc, sending>>
      BY <1>9, <2>2 DEF ReadHead, FrameTooLarge, Leave
    <3>2. wire[1].part = "head" /\ reading' = wire[1].pic
      BY <1>1, <3>1, TailOfWire DEF PartsInv
    <3>3. /\ Alternating(wire')
          /\ wire' # <<>> => wire'[1] = [pic |-> reading', part |-> "data"]
      BY <1>1, <3>1, <3>2, TailOfWire DEF PartsInv
    <3>4. IF spc = "writing" THEN wire[Len(wire)] = [pic |-> sending, part |-> "head"]
                             ELSE wire[Len(wire)].part = "data"
      BY <3>1 DEF PartsInv
    <3>5. wire' # <<>> => wire'[Len(wire')] = wire[Len(wire)]
      BY <1>1, <3>1, TailOfWire
    <3>6. wire' = <<>> => spc = "writing" /\ reading' = sending
      <4> SUFFICES ASSUME wire' = <<>> PROVE spc = "writing" /\ reading' = sending
        OBVIOUS
      <4>1. wire[Len(wire)] = wire[1]
        BY <1>1, <3>1, TailOfWire
      <4> QED
        BY <3>2, <3>4, <4>1
    <3> QED
      BY <3>1, <3>3, <3>4, <3>5, <3>6 DEF PartsInv
  <2> QED
    BY <2>1, <2>2
<1>10. CASE ReadData
  <2>1. /\ ipc = "body" /\ ipc' = "pushing" /\ wire # <<>> /\ wire' = Tail(wire)
        /\ UNCHANGED <<spc, sending, reading>>
    BY <1>10 DEF ReadData
  <2>2. wire[1] = [pic |-> reading, part |-> "data"]
    BY <2>1 DEF PartsInv
  <2>3. Alternating(wire') /\ (wire' # <<>> => wire'[1].part = "head")
    BY <1>1, <2>1, <2>2, TailOfWire DEF PartsInv
  <2>4. IF spc = "writing" THEN wire[Len(wire)] = [pic |-> sending, part |-> "head"]
                           ELSE wire[Len(wire)].part = "data"
    BY <2>1 DEF PartsInv
  <2>5. wire' # <<>> => wire'[Len(wire')] = wire[Len(wire)]
    BY <1>1, <2>1, TailOfWire
  <2>6. wire' = <<>> => spc # "writing"
    BY <1>1, <2>1, <2>2, <2>4, TailOfWire
  <2> QED
    BY <2>1, <2>3, <2>4, <2>5, <2>6 DEF PartsInv
<1>11. CASE PushFrame
  <2>1. ipc = "pushing" /\ ipc' = "reading" /\ UNCHANGED <<wire, spc, sending, reading>>
    BY <1>11 DEF PushFrame
  <2> QED
    BY <2>1 DEF PartsInv, Alternating
<1>12. CASE ReadFails \/ Abort
  BY <1>8, <1>12 DEF ReadFails, Abort, Leave
<1> QED
  BY <1>2, <1>3, <1>4, <1>5, <1>6, <1>7, <1>9, <1>10, <1>11, <1>12
     DEF Next, SocketStep, IngestStep

LEMMA LastIsNewest ==
  ASSUME NEW w \in Seq(Parts), Rising(w), w # <<>>
  PROVE  \A k \in 1 .. Len(w) : w[k].pic <= w[Len(w)].pic
<1>1. PICK n \in Nat : Len(w) = n
  BY LenProperties
<1>2. n # 0
  BY <1>1, EmptySeq
<1>3. w[n] \in Parts /\ w[n].pic <= w[n].pic
  <2>1. w[n] \in Parts
    BY <1>1, <1>2, ElementOfSeq
  <2>2. w[n].pic \in Nat
    BY <2>1, NumbersAssumption DEF Parts, Pictures
  <2> QED
    BY <2>1, <2>2
<1> QED
  BY <1>1, <1>2, <1>3 DEF Rising

LEMMA WithinHigher ==
  ASSUME NEW w \in Seq(Parts), NEW low, NEW high \in Nat, NEW higher \in Nat,
         high <= higher, Within(w, low, high)
  PROVE  Within(w, low, higher)
<1>1. \A k \in 1 .. Len(w) : w[k] \in Parts
  BY ElementOfSeq
<1>2. \A p \in Parts : p.pic \in Nat
  BY NumbersAssumption DEF Parts, Pictures
<1>3. \A a \in Nat : a <= high => a <= higher
  OBVIOUS
<1> QED
  BY <1>1, <1>2, <1>3 DEF Within

LEMMA AgeStep == TypeInv /\ ConnInv /\ PartsInv /\ AgeInv /\ [Next]_vars => AgeInv'
<1> SUFFICES ASSUME TypeInv, ConnInv, PartsInv, AgeInv, [Next]_vars PROVE AgeInv'
  OBVIOUS
<1> USE DEF Carrying, clockVars, emulatorVars, workerVars, socketVars, ingestVars
<1>1. /\ wire \in Seq(Parts) /\ frames \in Nat /\ latest \in Nat /\ sending \in Nat
      /\ reading \in Nat /\ hub \in Nat
  BY NumbersAssumption DEF TypeInv, TypeOK
<1>2. CASE Tick \/ StartFrame \/ WakeUp \/ RequestShutdown \/ Exit \/ Bind \/ Accept
           \/ SendFails \/ SeesShutdown \/ UNCHANGED vars
  <2>1. UNCHANGED <<wire, ipc, reading, hub, latest>>
    BY <1>2 DEF Tick, StartFrame, WakeUp, RequestShutdown, Exit, Bind, Accept, SendFails,
       SeesShutdown, vars
  <2> QED
    BY <2>1 DEF AgeInv, Within, Rising
<1>3. CASE EndFrame
  <2>1. UNCHANGED <<wire, ipc, reading, hub>>
    BY <1>3 DEF EndFrame
  <2>2. latest <= latest' /\ latest' \in Nat
    BY <1>1, <1>3 DEF EndFrame, ConnInv
  <2>3. hub <= latest' /\ (Carrying => reading <= latest')
    BY <1>1, <2>2 DEF AgeInv
  <2>4. Within(wire, hub, latest') /\ (Carrying => Within(wire, reading, latest'))
    BY <1>1, <2>2, WithinHigher DEF AgeInv
  <2> QED
    BY <2>1, <2>3, <2>4 DEF AgeInv, Within, Rising
<1>4. CASE SendHead
  <2> DEFINE p == [pic |-> latest, part |-> "head"]
  <2>1. p \in Parts
    BY <1>4 DEF SendHead, Parts, Pictures, TypeInv, TypeOK
  <2>2. wire' = Append(wire, p) /\ UNCHANGED <<ipc, reading, hub, latest>>
    BY <1>4 DEF SendHead, Write
  <2>3. p.pic = latest /\ latest <= latest
    BY <1>1
  <2> HIDE DEF p
  <2>4. Rising(wire')
    <3>1. \A k \in 1 .. Len(wire) : wire[k].pic <= p.pic
      BY <2>3 DEF AgeInv, Within
    <3> QED
      BY <1>1, <2>1, <2>2, <3>1, AppendToWire DEF AgeInv
  <2>5. Within(wire', hub, latest) /\ (Carrying => Within(wire', reading, latest))
    BY <1>1, <2>1, <2>2, <2>3, AppendToWire DEF AgeInv
  <2> QED
    BY <2>2, <2>4, <2>5 DEF AgeInv
<1>5. CASE SendData
  <2> DEFINE p == [pic |-> sending, part |-> "data"]
  <2>1. p \in Parts
    BY <1>5 DEF SendData, Parts, Pictures, TypeInv, TypeOK
  <2>2. /\ wire' = Append(wire, p) /\ UNCHANGED <<ipc, reading, hub, latest>>
        /\ spc = "writing" /\ Connected
    BY <1>5 DEF SendData, Write, PacketData, ConnInv
  <2>3. p.pic = sending /\ sending <= latest
    BY DEF ConnInv
  <2> HIDE DEF p
  <2>4. CASE wire = <<>>
    <3>1. reading = sending /\ ipc = "body"
      BY <2>2, <2>4 DEF PartsInv
    <3>2. hub <= sending /\ reading <= sending
      BY <1>1, <3>1 DEF AgeInv
    <3>3. \A k \in 1 .. Len(wire) : wire[k].pic <= p.pic
      BY <2>4, EmptySeq
    <3> QED
      BY <1>1, <2>1, <2>2, <2>3, <3>2, <3>3, AppendToWire DEF AgeInv
  <2>5. CASE wire # <<>>
    <3>1. wire[Len(wire)] = [pic |-> sending, part |-> "head"]
      BY <2>2, <2>5 DEF PartsInv
    <3>2. \A k \in 1 .. Len(wire) : wire[k].pic <= p.pic
      BY <1>1, <2>3, <2>5, <3>1, LastIsNewest DEF AgeInv
    <3>3. Len(wire) \in 1 .. Len(wire)
      BY <1>1, <2>5, EmptySeq
    <3>4. hub <= p.pic /\ (Carrying => reading <= p.pic)
      BY <2>3, <3>1, <3>3 DEF AgeInv, Within
    <3> QED
      BY <1>1, <2>1, <2>2, <2>3, <3>2, <3>4, AppendToWire DEF AgeInv
  <2> QED
    BY <2>4, <2>5
<1>6. CASE TryConnect
  <2>1. UNCHANGED <<wire, hub, latest>> /\ ~Carrying'
    BY <1>6 DEF TryConnect
  <2> QED
    BY <2>1 DEF AgeInv, Within, Rising
<1>7. ASSUME wire' = <<>>, ~Carrying', UNCHANGED <<hub, latest>> PROVE AgeInv'
  <2>1. Rising(<<>>) /\ Within(<<>>, hub, latest)
    BY EmptySeq DEF Rising, Within
  <2> QED
    BY <1>7, <2>1 DEF AgeInv
<1>8. CASE ReadHead
  <2>1. CASE reading' \in Oversized
    BY <1>7, <1>8, <2>1 DEF ReadHead, FrameTooLarge, Leave
  <2>2. CASE reading' \notin Oversized
    <3>1. /\ wire # <<>> /\ wire' = Tail(wire) /\ reading' = Head(wire).pic
          /\ UNCHANGED <<hub, latest>>
      BY <1>8, <2>2 DEF ReadHead, FrameTooLarge, Leave
    <3>2. reading' = wire[1].pic
      BY <1>1, <3>1, TailOfWire
    <3>3. /\ Rising(wire') /\ Within(wire', hub, latest) /\ Within(wire', reading', latest)
          /\ hub <= reading' /\ reading' <= latest
      BY <1>1, <3>1, <3>2, TailOfWire DEF AgeInv
    <3> QED
      BY <3>1, <3>3 DEF AgeInv
  <2> QED
    BY <2>1, <2>2
<1>9. CASE ReadData
  <2>1. /\ ipc = "body" /\ wire # <<>> /\ wire' = Tail(wire)
        /\ UNCHANGED <<reading, hub, latest>>
    BY <1>9 DEF ReadData
  <2>2. Rising(wire') /\ Within(wire', hub, latest) /\ Within(wire', reading, latest)
    BY <1>1, <2>1, TailOfWire DEF AgeInv
  <2> QED
    BY <2>1, <2>2 DEF AgeInv
<1>10. CASE PushFrame
  <2>1. ipc = "pushing" /\ ~Carrying' /\ hub' = reading /\ UNCHANGED <<wire, latest>>
    BY <1>10 DEF PushFrame
  <2> QED
    BY <2>1 DEF AgeInv, Within, Rising
<1>11. CASE ReadFails \/ Abort
  BY <1>7, <1>11 DEF ReadFails, Abort, Leave
<1> QED
  BY <1>2, <1>3, <1>4, <1>5, <1>6, <1>8, <1>9, <1>10, <1>11
     DEF Next, EmulatorStep, SocketStep, IngestStep

-----------------------------------------------------------------------------
(* The pipeline as a sequence                                               *)

Nondecreasing(s) == \A j, k \in 1 .. Len(s) : j < k => s[j] <= s[k]
AtMost(s, x)     == \A k \in 1 .. Len(s) : s[k] <= x

LEMMA OneOrNone ==
  ASSUME NEW x \in Nat, NEW s \in {<<>>, <<x>>}
  PROVE  /\ s \in Seq(Nat) /\ Nondecreasing(s)
         /\ \A k \in 1 .. Len(s) : s = <<x>> /\ s[k] = x
         /\ \A y : x <= y => AtMost(s, y)
<1>1. CASE s = <<>>
  BY <1>1, EmptySeq DEF Nondecreasing, AtMost
<1>2. CASE s = <<x>>
  <2>1. s \in Seq(Nat) /\ Len(s) = 1 /\ s[1] = x
    BY <1>2
  <2>2. \A k \in 1 .. 1 : k = 1
    OBVIOUS
  <2>3. Nondecreasing(s)
    BY <2>1, <2>2 DEF Nondecreasing
  <2> QED
    BY <1>2, <2>1, <2>2, <2>3 DEF AtMost
<1> QED
  BY <1>1, <1>2

LEMMA PutBehind ==
  ASSUME NEW s \in Seq(Nat), NEW t \in Seq(Nat), Nondecreasing(s), Nondecreasing(t),
         \A k \in 1 .. Len(t) : AtMost(s, t[k])
  PROVE  /\ s \o t \in Seq(Nat) /\ Nondecreasing(s \o t)
         /\ \A x : AtMost(s, x) /\ AtMost(t, x) => AtMost(s \o t, x)
<1>1. PICK m \in Nat, n \in Nat : Len(s) = m /\ Len(t) = n
  BY LenProperties
<1> DEFINE u == s \o t
<1>2. /\ u \in Seq(Nat) /\ Len(u) = m + n
      /\ \A k \in 1 .. m + n : u[k] = IF k <= m THEN s[k] ELSE t[k - m]
  BY <1>1, ConcatProperties
<1> HIDE DEF u
<1>3. ASSUME NEW k \in 1 .. m + n, k <= m
      PROVE  k \in 1 .. m /\ u[k] = s[k]
  <2>1. u[k] = s[k]
    BY <1>2, <1>3, Zenon
  <2>2. k \in 1 .. m
    BY <1>3
  <2> QED
    BY <2>1, <2>2
<1>4. ASSUME NEW k \in 1 .. m + n, ~(k <= m)
      PROVE  k - m \in 1 .. n /\ u[k] = t[k - m]
  <2>1. u[k] = t[k - m]
    BY <1>2, <1>4, Zenon
  <2>2. k - m \in 1 .. n
    BY <1>4
  <2> QED
    BY <2>1, <2>2
<1>5. Nondecreasing(u)
  <2> SUFFICES ASSUME NEW j \in 1 .. m + n, NEW k \in 1 .. m + n, j < k
               PROVE  u[j] <= u[k]
    BY <1>2 DEF Nondecreasing
  <2>1. CASE k <= m
    <3>1. j <= m
      BY <2>1
    <3>2. j \in 1 .. m /\ k \in 1 .. m /\ u[j] = s[j] /\ u[k] = s[k]
      BY <1>3, <2>1, <3>1, Zenon
    <3> QED
      BY <1>1, <3>2 DEF Nondecreasing
  <2>2. CASE ~(k <= m) /\ j <= m
    <3>1. j \in 1 .. m /\ k - m \in 1 .. n /\ u[j] = s[j] /\ u[k] = t[k - m]
      BY <1>3, <1>4, <2>2, Zenon
    <3> QED
      BY <1>1, <3>1 DEF AtMost
  <2>3. CASE ~(k <= m) /\ ~(j <= m)
    <3>1. /\ j - m \in 1 .. n /\ k - m \in 1 .. n
          /\ u[j] = t[j - m] /\ u[k] = t[k - m]
      BY <1>4, <2>3, Zenon
    <3>2. j - m < k - m
      OBVIOUS
    <3> QED
      BY <1>1, <3>1, <3>2 DEF Nondecreasing
  <2> QED
    BY <2>1, <2>2, <2>3
<1>6. ASSUME NEW x, AtMost(s, x), AtMost(t, x) PROVE AtMost(u, x)
  <2> SUFFICES ASSUME NEW k \in 1 .. m + n
               PROVE  u[k] <= x
    BY <1>2 DEF AtMost
  <2>1. CASE k <= m
    BY <1>1, <1>3, <1>6, <2>1 DEF AtMost
  <2>2. CASE ~(k <= m)
    BY <1>1, <1>4, <1>6, <2>2 DEF AtMost
  <2> QED
    BY <2>1, <2>2
<1> QED
  BY <1>2, <1>5, <1>6 DEF u

LEMMA PipelineRises ==
  TypeInv /\ ConnInv /\ PartsInv /\ AgeInv => Pipeline \in Seq(Nat) /\ Nondecreasing(Pipeline)
<1> SUFFICES ASSUME TypeInv, ConnInv, PartsInv, AgeInv
             PROVE  Pipeline \in Seq(Nat) /\ Nondecreasing(Pipeline)
  OBVIOUS
<1> DEFINE A == <<hub>>
           B == IF ipc \in {"body", "pushing"} THEN <<reading>> ELSE <<>>
           C == [k \in DOMAIN wire |-> wire[k].pic]
           D == IF spc = "writing" /\ wire # <<>> THEN <<sending>> ELSE <<>>
           E == <<latest>>
<1>1. /\ wire \in Seq(Parts) /\ latest \in Nat /\ sending \in Nat /\ reading \in Nat
      /\ hub \in Nat
  BY NumbersAssumption DEF TypeInv, TypeOK
<1>2. PICK n \in Nat : Len(wire) = n /\ DOMAIN wire = 1 .. n
  BY <1>1, LenProperties
<1>3. \A k \in 1 .. n : wire[k] \in Parts /\ wire[k].pic \in Nat
  <2>1. \A k \in 1 .. n : wire[k] \in Parts
    BY <1>1, <1>2, ElementOfSeq
  <2>2. \A p \in Parts : p.pic \in Nat
    BY NumbersAssumption DEF Parts, Pictures
  <2> QED
    BY <2>1, <2>2
<1>4. A \in {<<>>, <<hub>>} /\ B \in {<<>>, <<reading>>} /\ D \in {<<>>, <<sending>>}
      /\ E \in {<<>>, <<latest>>}
  OBVIOUS
<1>5. C \in Seq(Nat) /\ Len(C) = n /\ \A k \in 1 .. n : C[k] = wire[k].pic
  <2>1. C = [k \in 1 .. n |-> wire[k].pic]
    BY <1>2
  <2>2. C \in [1 .. n -> Nat]
    BY <1>3, <2>1
  <2> QED
    BY <2>1, <2>2
<1>6. Pipeline = (((A \o B) \o C) \o D) \o E
  BY DEF Pipeline
<1>7. B = <<reading>> => Carrying
  BY DEF Carrying
<1>8. D = <<sending>> =>
        /\ hub <= sending /\ (B = <<reading>> => reading <= sending) /\ sending <= latest
        /\ AtMost(C, sending)
  <2> SUFFICES ASSUME D = <<sending>>
               PROVE  /\ hub <= sending /\ (B = <<reading>> => reading <= sending)
                      /\ sending <= latest /\ AtMost(C, sending)
    OBVIOUS
  <2>1. spc = "writing" /\ wire # <<>>
    OBVIOUS
  <2>2. wire[n].pic = sending /\ n \in 1 .. n
    <3>1. wire[n] = [pic |-> sending, part |-> "head"]
      BY <1>2, <2>1 DEF PartsInv, ConnInv
    <3>2. n # 0
      BY <1>1, <1>2, <2>1, EmptySeq
    <3> QED
      BY <3>1, <3>2
  <2>3. \A k \in 1 .. n : wire[k].pic <= sending
    BY <1>1, <1>2, <2>1, <2>2, LastIsNewest DEF AgeInv
  <2>4. hub <= sending /\ (Carrying => reading <= sending) /\ sending <= latest
    BY <1>2, <2>2 DEF AgeInv, Within
  <2> QED
    BY <1>5, <1>7, <2>3, <2>4 DEF AtMost
<1> HIDE DEF A, B, C, D, E
<1>9. /\ Nondecreasing(C) /\ AtMost(C, latest)
      /\ \A k \in 1 .. Len(C) : hub <= C[k] /\ (B = <<reading>> => reading <= C[k])
  <2>1. Nondecreasing(C)
    BY <1>2, <1>5 DEF AgeInv, Rising, Nondecreasing
  <2>2. AtMost(C, latest)
    BY <1>2, <1>5 DEF AgeInv, Within, AtMost
  <2> QED
    BY <1>2, <1>5, <1>7, <2>1, <2>2 DEF AgeInv, Within
<1>10. /\ A \in Seq(Nat) /\ Nondecreasing(A) /\ \A y : hub <= y => AtMost(A, y)
       /\ E \in Seq(Nat) /\ Nondecreasing(E) /\ \A k \in 1 .. Len(E) : E[k] = latest
  BY <1>1, <1>4, OneOrNone
<1>11. /\ B \in Seq(Nat) /\ Nondecreasing(B)
       /\ \A k \in 1 .. Len(B) : B = <<reading>> /\ B[k] = reading
       /\ \A y : (B = <<reading>> => reading <= y) => AtMost(B, y)
  <2>1. B = <<>> => \A y : AtMost(B, y)
    BY EmptySeq DEF AtMost
  <2> QED
    BY <1>1, <1>4, <2>1, OneOrNone
<1>12. /\ D \in Seq(Nat) /\ Nondecreasing(D)
       /\ \A k \in 1 .. Len(D) : D = <<sending>> /\ D[k] = sending
       /\ \A y : (D = <<sending>> => sending <= y) => AtMost(D, y)
  <2>1. D = <<>> => \A y : AtMost(D, y)
    BY EmptySeq DEF AtMost
  <2> QED
    BY <1>1, <1>4, <2>1, OneOrNone
<1>13. /\ A \o B \in Seq(Nat) /\ Nondecreasing(A \o B)
       /\ \A x : AtMost(A, x) /\ AtMost(B, x) => AtMost(A \o B, x)
  <2>1. \A k \in 1 .. Len(B) : AtMost(A, B[k])
    BY <1>7, <1>10, <1>11 DEF AgeInv
  <2> QED
    BY <1>10, <1>11, <2>1, PutBehind
<1>14. /\ (A \o B) \o C \in Seq(Nat) /\ Nondecreasing((A \o B) \o C)
       /\ \A x : AtMost(A, x) /\ AtMost(B, x) /\ AtMost(C, x) => AtMost((A \o B) \o C, x)
  <2>1. \A k \in 1 .. Len(C) : AtMost(A \o B, C[k])
    BY <1>9, <1>10, <1>11, <1>13
  <2>2. \A x : AtMost(A \o B, x) /\ AtMost(C, x) => AtMost((A \o B) \o C, x)
    BY <1>5, <1>9, <1>13, <2>1, PutBehind
  <2> QED
    BY <1>5, <1>9, <1>13, <2>1, <2>2, PutBehind
<1>15. /\ ((A \o B) \o C) \o D \in Seq(Nat) /\ Nondecreasing(((A \o B) \o C) \o D)
       /\ \A x : AtMost((A \o B) \o C, x) /\ AtMost(D, x) => AtMost(((A \o B) \o C) \o D, x)
  <2>1. \A k \in 1 .. Len(D) : AtMost((A \o B) \o C, D[k])
    BY <1>8, <1>10, <1>11, <1>12, <1>14
  <2> QED
    BY <1>12, <1>14, <2>1, PutBehind
<1>16. AtMost(((A \o B) \o C) \o D, latest)
  <2>1. AtMost(A, latest) /\ AtMost(B, latest) /\ AtMost(D, latest)
    BY <1>7, <1>8, <1>10, <1>11, <1>12 DEF AgeInv
  <2> QED
    BY <1>9, <1>14, <1>15, <2>1
<1>17. \A k \in 1 .. Len(E) : AtMost(((A \o B) \o C) \o D, E[k])
  BY <1>10, <1>16
<1> QED
  BY <1>6, <1>10, <1>15, <1>17, PutBehind

\* Whatever the core draws and whenever packets are cut short, the pictures on
\* their way are in the order they were drawn and data are never read under the
\* header of another packet (transport.rs, worker.rs, admin.rs).
THEOREM PicturesKeepOrder == Spec => []PicturesInOrder
<1>1. Init => ConnInv /\ PartsInv /\ AgeInv
  <2> SUFFICES ASSUME Init PROVE ConnInv /\ PartsInv /\ AgeInv
    OBVIOUS
  <2>1. wire = <<>> /\ Alternating(<<>>) /\ Rising(<<>>) /\ Within(<<>>, hub, latest)
    BY EmptySeq DEF Init, Alternating, Rising, Within
  <2> QED
    BY <2>1 DEF Init, ConnInv, PartsInv, AgeInv, Connected, Carrying
<1>2. TypeInv /\ ConnInv /\ PartsInv /\ AgeInv => PicturesInOrder
  <2> SUFFICES ASSUME TypeInv, ConnInv, PartsInv, AgeInv PROVE PicturesInOrder
    OBVIOUS
  <2>1. \A j, k \in DOMAIN Pipeline : j < k => Pipeline[j] <= Pipeline[k]
    <3>1. Pipeline \in Seq(Nat) /\ Nondecreasing(Pipeline)
      BY PipelineRises
    <3>2. DOMAIN Pipeline = 1 .. Len(Pipeline)
      BY <3>1, LenProperties
    <3> QED
      BY <3>1, <3>2 DEF Nondecreasing
  <2>2. wire \in Seq(Parts) /\ (wire # <<>> => Head(wire) = wire[1])
    BY TailOfWire DEF TypeInv, TypeOK
  <2> QED
    BY <2>1, <2>2 DEF PicturesInOrder, PartsInv
<1> QED
  BY <1>1, <1>2, TypeInit, TypeStep, ConnStep, PartsStep, AgeStep, PTL DEF Spec

-----------------------------------------------------------------------------
(* Pixels                                                                   *)

LEMMA BitsBounds ==
  ASSUME NEW v \in Nat
  PROVE  /\ Bits(v, 0, 5) \in 0 .. 31 /\ Bits(v, 5, 5) \in 0 .. 31 /\ Bits(v, 10, 5) \in 0 .. 31
         /\ Bits(v, 11, 5) \in 0 .. 31 /\ Bits(v, 5, 6) \in 0 .. 63
         /\ Bits(v, 0, 8) \in 0 .. 255 /\ Bits(v, 8, 8) \in 0 .. 255 /\ Bits(v, 16, 8) \in 0 .. 255
<1>1. /\ 2^5 = 32 /\ 2^6 = 64 /\ 2^8 = 256
      /\ 2^0 = 1 /\ 2^10 = 1024 /\ 2^11 = 2048 /\ 2^16 = 65536
  OBVIOUS
<1>2. \A d \in Nat \ {0}, n \in Nat \ {0} : (v \div d) % n \in 0 .. n - 1
  OBVIOUS
<1> QED
  BY <1>1, <1>2 DEF Bits

\* A value of 5, 6 or 8 bits is scaled to 8 with less than a step of error.
LEMMA Expanded ==
  /\ \A c \in 0 .. 31 : LET d == Expand5(c) * (2^5 - 1) - c * 255 IN -(2^5 - 1) < d /\ d < 2^5 - 1
  /\ \A c \in 0 .. 63 : LET d == Expand6(c) * (2^6 - 1) - c * 255 IN -(2^6 - 1) < d /\ d < 2^6 - 1
  /\ \A c \in 0 .. 255 : LET d == c * (2^8 - 1) - c * 255 IN -(2^8 - 1) < d /\ d < 2^8 - 1
<1>1. 2^5 - 1 = 31 /\ 2^6 - 1 = 63 /\ 2^8 - 1 = 255
  OBVIOUS
<1> QED
  BY <1>1 DEF Expand5, Expand6

LEMMA PixelColour ==
  ASSUME NEW format \in Formats, NEW v \in Nat
  PROVE  SameColour(Rgba(Pixel(format, v)), format, v)
<1> DEFINE p    == Rgba(Pixel(format, v))
           C    == Channels(format)
           Near(value, first, n) == LET d == value * (2^n - 1) - Bits(v, first, n) * 255
                                    IN -(2^n - 1) < d /\ d < 2^n - 1
<1> HIDE DEF p, C
<1>1. /\ \A first \in {0, 5, 10, 11} : Bits(v, first, 5) \in 0 .. 31
                                      => Near(Expand5(Bits(v, first, 5)), first, 5)
      /\ Near(Expand6(Bits(v, 5, 6)), 5, 6)
      /\ \A first \in {0, 8, 16} : Bits(v, first, 8) \in 0 .. 255
                                  => Near(Bits(v, first, 8), first, 8)
  <2>1. ASSUME NEW first, NEW c \in 0 .. 31, c = Bits(v, first, 5)
        PROVE  Near(Expand5(c), first, 5)
    BY <2>1, Expanded
  <2>2. ASSUME NEW c \in 0 .. 63, c = Bits(v, 5, 6)
        PROVE  Near(Expand6(c), 5, 6)
    BY <2>2, Expanded
  <2>3. ASSUME NEW first, NEW c \in 0 .. 255, c = Bits(v, first, 8)
        PROVE  Near(c, first, 8)
    BY <2>3, Expanded
  <2> HIDE DEF Near
  <2> QED
    BY <2>1, <2>2, <2>3, BitsBounds
<1> HIDE DEF Near
<1>2. SUFFICES \A k \in 1 .. 3 : Near(p[k], C[k][1], C[k][2])
  BY DEF SameColour, Near, p, C
<1>3. CASE format = "xrgb1555"
  <2>1. p[1] = Expand5(Bits(v, 10, 5)) /\ p[2] = Expand5(Bits(v, 5, 5)) /\ p[3] = Expand5(Bits(v, 0, 5))
    BY <1>3 DEF Rgba, Pixel, p
  <2>2. /\ C[1][1] = 10 /\ C[1][2] = 5 /\ C[2][1] = 5 /\ C[2][2] = 5
        /\ C[3][1] = 0 /\ C[3][2] = 5
    BY <1>3 DEF Channels, C
  <2> QED
    BY <1>1, <2>1, <2>2, BitsBounds
<1>4. CASE format = "rgb565"
  <2>1. p[1] = Expand5(Bits(v, 11, 5)) /\ p[2] = Expand6(Bits(v, 5, 6)) /\ p[3] = Expand5(Bits(v, 0, 5))
    BY <1>4 DEF Rgba, Pixel, p
  <2>2. /\ C[1][1] = 11 /\ C[1][2] = 5 /\ C[2][1] = 5 /\ C[2][2] = 6
        /\ C[3][1] = 0 /\ C[3][2] = 5
    BY <1>4 DEF Channels, C
  <2> QED
    BY <1>1, <2>1, <2>2, BitsBounds
<1>5. CASE format = "xrgb8888"
  <2>1. p[1] = Bits(v, 16, 8) /\ p[2] = Bits(v, 8, 8) /\ p[3] = Bits(v, 0, 8)
    BY <1>5 DEF Rgba, Pixel, p
  <2>2. /\ C[1][1] = 16 /\ C[1][2] = 8 /\ C[2][1] = 8 /\ C[2][2] = 8
        /\ C[3][1] = 0 /\ C[3][2] = 8
    BY <1>5 DEF Channels, C
  <2> QED
    BY <1>1, <2>1, <2>2, BitsBounds
<1> QED
  BY <1>3, <1>4, <1>5 DEF Formats

-----------------------------------------------------------------------------
(* Places and tiles                                                         *)

LEMMA RowAndColumn ==
  ASSUME NEW w \in Nat \ {0}, NEW x \in 0 .. w - 1, NEW y \in Nat
  PROVE  (y * w + x) \div w = y /\ (y * w + x) % w = x
  OBVIOUS

LEMMA PlaceInRange ==
  ASSUME NEW w \in Nat, NEW h \in Nat, NEW c \in Coordinates(w, h)
  PROVE  Place(c, w) \in 0 .. w * h - 1
<1>1. PICK x \in 0 .. w - 1, y \in 0 .. h - 1 : c = <<x, y>>
  BY DEF Coordinates
<1>2. y * w \in Nat /\ (h - 1 - y) * w \in Nat /\ w * h = y * w + (h - 1 - y) * w + w
  BY <1>1
<1> QED
  BY <1>1, <1>2 DEF Place

LEMMA TileIndex ==
  ASSUME NEW w \in Nat, NEW x \in 0 .. w - 1
  PROVE  x \div Tile \in 0 .. (w + Tile - 1) \div Tile - 1
  BY TileAssumption

LEMMA TilesCover ==
  ASSUME NEW w \in Nat, NEW h \in Nat, NEW cur, cur.w = w, cur.h = h, NEW c \in Coordinates(w, h)
  PROVE  \E tile \in TilesOf(cur) : c \in tile
<1> DEFINE columns == (w + Tile - 1) \div Tile
           rows    == (h + Tile - 1) \div Tile
           index   == <<c[1] \div Tile, c[2] \div Tile>>
           tile    == {d \in Coordinates(w, h) : d[1] \div Tile = index[1] /\ d[2] \div Tile = index[2]}
<1>1. c[1] \in 0 .. w - 1 /\ c[2] \in 0 .. h - 1
  BY DEF Coordinates
<1>2. c[1] \div Tile \in 0 .. columns - 1 /\ c[2] \div Tile \in 0 .. rows - 1
  BY <1>1, TileIndex
<1>3. index \in Coordinates(columns, rows)
  BY <1>2 DEF Coordinates
<1>4. c \in tile
  OBVIOUS
<1> HIDE DEF index
<1>5. tile \in TilesOf(cur)
  BY <1>3 DEF TilesOf
<1> QED
  BY <1>4, <1>5

-----------------------------------------------------------------------------
(* Pictures on the canvas                                                   *)

\* The drawings that convert, and so are sent.
Usable == {src \in Drawings : Convert(src) # NoPicture}

\* What the canvas is if it shows a drawing.
CanvasOf(src) ==
  [w |-> src.w, h |-> src.h,
   rgba |-> [c \in Coordinates(src.w, src.h) |-> Rgba(Convert(src).data[Place(c, src.w)])]]

LEMMA Converted ==
  ASSUME NEW src \in Usable
  PROVE  /\ src.w \in Nat /\ src.h \in Nat
         /\ Convert(src).w = src.w /\ Convert(src).h = src.h
         /\ DOMAIN Convert(src).data = 0 .. src.w * src.h - 1
         /\ \A c \in Coordinates(src.w, src.h) :
              Convert(src).data[Place(c, src.w)] = Pixel(src.format, Cell(src, c))
<1>1. src.w \in Nat /\ src.h \in Nat
  BY DrawingsAssumption DEF Usable
<1>2. PICK w \in Nat, h \in Nat : w = src.w /\ h = src.h
  BY <1>1
<1>3. Convert(src) = [w |-> w, h |-> h,
                      data |-> [i \in 0 .. w * h - 1 |->
                                  Pixel(src.format, Cell(src, <<i % w, i \div w>>))]]
  BY <1>2 DEF Usable, Convert
<1>4. ASSUME NEW c \in Coordinates(w, h)
      PROVE  Convert(src).data[Place(c, w)] = Pixel(src.format, Cell(src, c))
  <2>1. PICK x \in 0 .. w - 1, y \in 0 .. h - 1 : c = <<x, y>>
    BY DEF Coordinates
  <2>2. PICK i : i = Place(c, w) /\ i = y * w + x /\ i \in 0 .. w * h - 1
    BY <2>1, PlaceInRange DEF Place
  <2>3. w \in Nat \ {0} /\ y \in Nat
    BY <2>1
  <2>4. i % w = x /\ i \div w = y
    BY <2>1, <2>2, <2>3, RowAndColumn
  <2>5. Convert(src).data[i] = Pixel(src.format, Cell(src, <<i % w, i \div w>>))
    BY <1>3, <2>2
  <2> QED
    BY <2>1, <2>2, <2>4, <2>5
<1>5. Convert(src).w = w /\ Convert(src).h = h /\ DOMAIN Convert(src).data = 0 .. w * h - 1
  BY <1>3
<1> QED
  BY <1>2, <1>4, <1>5

\* That canvas has the colours that the core drew.
LEMMA CanvasShows ==
  ASSUME NEW src \in Usable
  PROVE  Shows(CanvasOf(src), src)
<1>1. ASSUME NEW c \in Coordinates(src.w, src.h)
      PROVE  SameColour(CanvasOf(src).rgba[c], src.format, Cell(src, c))
  <2>1. src.format \in Formats /\ Cell(src, c) \in Nat
    BY DrawingsAssumption DEF Usable
  <2>2. CanvasOf(src).rgba[c] = Rgba(Pixel(src.format, Cell(src, c)))
    BY Converted DEF CanvasOf
  <2> QED
    BY <2>1, <2>2, PixelColour
<1> QED
  BY <1>1 DEF Shows, CanvasOf

\* A keyframe shows its drawing on any canvas.
LEMMA KeyframePainted ==
  ASSUME NEW src \in Usable, NEW on
  PROVE  Paint(Keyframe(Convert(src)), on) = CanvasOf(src)
  BY Converted DEF Paint, PaintKeyframe, Keyframe, CanvasOf

\* A delta shows its drawing on the canvas of the one it was taken against, if
\* that has its size: what it leaves out is the same in both.
LEMMA DeltaPainted ==
  ASSUME NEW old \in Usable, NEW src \in Usable, old.w = src.w, old.h = src.h
  PROVE  Paint(Delta(Convert(old), Convert(src)), CanvasOf(old)) = CanvasOf(src)
<1> DEFINE cells == Coordinates(src.w, src.h)
           was == Convert(old)
           is  == Convert(src)
           msg == Delta(was, is)
<1>1. ASSUME NEW c \in cells, c \notin DOMAIN msg.rgba
      PROVE  was.data[Place(c, src.w)] = is.data[Place(c, src.w)]
  <2>1. PICK tile \in TilesOf(is) : c \in tile
    BY Converted, TilesCover
  <2>2. ~TileChanged(tile, was, is)
    BY <1>1, <2>1 DEF Delta
  <2>3. Place(c, src.w) \in DOMAIN was.data
    BY Converted, PlaceInRange
  <2> QED
    BY <2>1, <2>2, <2>3, Converted DEF TileChanged
<1>2. \A c \in DOMAIN msg.rgba : msg.rgba[c] = Rgba(is.data[Place(c, src.w)])
  BY Converted DEF Delta
<1>3. msg.kind = "delta"
  BY DEF Delta
<1> HIDE DEF msg, was, is
<1>4. \A c \in cells :
        (IF c \in DOMAIN msg.rgba THEN msg.rgba[c] ELSE Rgba(was.data[Place(c, src.w)]))
          = Rgba(is.data[Place(c, src.w)])
  BY <1>1, <1>2
<1>5. CanvasOf(old) = [w |-> src.w, h |-> src.h,
                       rgba |-> [c \in cells |-> Rgba(was.data[Place(c, src.w)])]]
  BY DEF CanvasOf, was
<1>6. Paint(msg, CanvasOf(old))
        = [w |-> src.w, h |-> src.h,
           rgba |-> [c \in cells |-> IF c \in DOMAIN msg.rgba THEN msg.rgba[c]
                                     ELSE Rgba(was.data[Place(c, src.w)])]]
  BY <1>3, <1>5 DEF Paint, PaintDelta
<1> QED
  BY <1>4, <1>6 DEF CanvasOf, is, was, msg

-----------------------------------------------------------------------------
(* The messages and what they were taken against                            *)

\* A message, when f says which drawing each number stood for.
Carries(m, f) ==
  /\ m.n \in 1 .. sent /\ m.src = f[m.n]
  /\ \/ m.msg = Keyframe(Convert(m.src))
     \/ /\ m.over \in 1 .. sent
        /\ m.msg = Delta(Convert(f[m.over]), Convert(m.src))
        /\ m.fits => f[m.over].w = m.src.w /\ f[m.over].h = m.src.h

\* Some drawings explain all that is on the way, remembered and shown.
Explains(f) ==
  /\ \A m \in tasks : Carries(m, f)
  /\ \A u \in AllUrls : prev[u] # NoPicture =>
                          base[u] \in 1 .. sent /\ prev[u] = Convert(f[base[u]])
  /\ shown.n # 0 /\ ~misplaced =>
       shown.n \in 1 .. sent /\ shown.src = f[shown.n] /\ canvas = CanvasOf(shown.src)

PageInv ==
  /\ sent \in Nat /\ DOMAIN prev = AllUrls /\ DOMAIN base = AllUrls
  /\ \E f \in [1 .. sent -> Usable] : Explains(f)

LEMMA PageInvInit == PageInit => PageInv
<1> SUFFICES ASSUME PageInit
             PROVE  PageInv
  OBVIOUS
<1>1. sent = 0 /\ DOMAIN prev = AllUrls /\ DOMAIN base = AllUrls
  BY DEF PageInit
<1>2. PICK f : f = [n \in 1 .. 0 |-> CHOOSE src \in Usable : TRUE]
  OBVIOUS
<1>3. f \in [1 .. 0 -> Usable]
  BY <1>2
<1>4. Explains(f)
  BY DEF PageInit, Explains
<1> QED
  BY <1>1, <1>3, <1>4 DEF PageInv

LEMMA PageInvStep ==
  ASSUME PageInv, [PageNext]_screenVars
  PROVE  PageInv'
<1>1. PICK f \in [1 .. sent -> Usable] : Explains(f)
  BY DEF PageInv
<1>2. ASSUME UNCHANGED <<prev, base, sent, paintVars>>, tasks' \subseteq tasks
      PROVE  PageInv'
  <2>1. Explains(f)'
    BY <1>1, <1>2 DEF Explains, Carries, paintVars
  <2> QED
    BY <1>1, <1>2, <2>1 DEF PageInv
<1>3. ASSUME NEW u \in AllUrls, Opened(u)
      PROVE  PageInv'
  <2>1. /\ prev' = [prev EXCEPT ![u] = NoPicture] /\ base' = [base EXCEPT ![u] = 0]
        /\ UNCHANGED <<sent, tasks, canvas, shown, misplaced>>
    BY <1>3 DEF Opened, paintVars
  <2>2. Explains(f)'
    BY <1>1, <2>1 DEF Explains, Carries, PageInv
  <2> QED
    BY <1>1, <2>1, <2>2 DEF PageInv
<1>4. ASSUME NEW u \in AllUrls, NEW src \in Drawings, SendFrame(u, src)
      PROVE  PageInv'
  <2>1. PICK forced, m :
          /\ forced \in BOOLEAN /\ src \in Usable /\ m = Message(u, src, forced) /\ tasks' = tasks \cup {m}
          /\ prev' = [prev EXCEPT ![u] = Convert(src)]
          /\ base' = [base EXCEPT ![u] = sent + 1] /\ sent' = sent + 1
          /\ UNCHANGED <<canvas, shown, misplaced>>
    BY <1>4 DEF SendFrame, Usable, paintVars
  <2>2. PICK n \in Nat : n = sent
    BY DEF PageInv
  <2>3. PICK g : /\ g = [i \in 1 .. n + 1 |-> IF i = n + 1 THEN src ELSE f[i]]
    OBVIOUS
  <2>4. /\ g \in [1 .. n + 1 -> Usable] /\ g[n + 1] = src /\ n + 1 \in 1 .. n + 1
        /\ \A i \in 1 .. n : g[i] = f[i] /\ i \in 1 .. n + 1
    BY <1>1, <2>1, <2>2, <2>3
  <2>5. \A other : Carries(other, f) => Carries(other, g)'
    BY <2>1, <2>2, <2>4 DEF Carries
  <2>6. Carries(m, g)'
    <3>1. m.n = n + 1 /\ m.src = src /\ m.over = base[u]
      BY <2>1, <2>2 DEF Message
    <3>2. CASE forced \/ prev[u] = NoPicture
      <4>1. m.msg = Keyframe(Convert(src))
        BY <2>1, <3>2 DEF Message
      <4> QED
        BY <2>1, <2>2, <2>4, <3>1, <4>1 DEF Carries
    <3>3. CASE ~forced /\ prev[u] # NoPicture
      <4>1. base[u] \in 1 .. n /\ prev[u] = Convert(f[base[u]])
        BY <1>1, <2>2, <3>3 DEF Explains
      <4>2. f[base[u]] \in Usable
        BY <1>1, <2>2, <4>1
      <4>3. /\ m.msg = Delta(Convert(f[base[u]]), Convert(src))
            /\ m.fits => f[base[u]].w = src.w /\ f[base[u]].h = src.h
        BY <2>1, <3>3, <4>1, <4>2, Converted DEF Message
      <4> QED
        BY <2>1, <2>2, <2>4, <3>1, <4>1, <4>3 DEF Carries
    <3> QED
      BY <3>2, <3>3
  <2>7. \A v \in AllUrls : prev'[v] # NoPicture =>
                             base'[v] \in 1 .. n + 1 /\ prev'[v] = Convert(g[base'[v]])
    <3> SUFFICES ASSUME NEW v \in AllUrls, prev'[v] # NoPicture
                 PROVE  base'[v] \in 1 .. n + 1 /\ prev'[v] = Convert(g[base'[v]])
      OBVIOUS
    <3>1. CASE v = u
      BY <2>1, <2>2, <2>4, <3>1 DEF PageInv
    <3>2. CASE v # u
      <4>1. prev'[v] = prev[v] /\ base'[v] = base[v]
        BY <2>1, <3>2 DEF PageInv
      <4>2. base[v] \in 1 .. n /\ prev[v] = Convert(f[base[v]])
        BY <1>1, <2>2, <4>1 DEF Explains
      <4> QED
        BY <2>4, <4>1, <4>2
    <3> QED
      BY <3>1, <3>2
  <2>8. shown.n # 0 /\ ~misplaced =>
          shown.n \in 1 .. n + 1 /\ shown.src = g[shown.n] /\ canvas = CanvasOf(shown.src)
    BY <1>1, <2>2, <2>4 DEF Explains
  <2>9. Explains(g)'
    BY <1>1, <2>1, <2>2, <2>5, <2>6, <2>7, <2>8 DEF Explains
  <2> QED
    BY <2>1, <2>2, <2>4, <2>9 DEF PageInv
<1>5. ASSUME NEW m \in tasks, PaintTask(m)
      PROVE  PageInv'
  <2>1. /\ tasks' \subseteq tasks /\ canvas' = Paint(m.msg, canvas)
        /\ shown' = [n |-> m.n, src |-> m.src]
        /\ misplaced' = (m.msg.kind = "delta" /\ (misplaced \/ m.over # shown.n \/ ~m.fits))
        /\ UNCHANGED <<prev, base, sent>>
    BY <1>5 DEF PaintTask, serverVars
  <2>2. Carries(m, f)
    BY <1>1 DEF Explains
  <2>3. shown'.n \in 1 .. sent /\ shown'.src = f[shown'.n] /\ f[shown'.n] \in Usable
    BY <1>1, <2>1, <2>2 DEF Carries
  <2>4. ~misplaced' => canvas' = CanvasOf(m.src)
    <3>1. CASE m.msg = Keyframe(Convert(m.src))
      BY <2>1, <2>2, <2>3, <3>1, KeyframePainted
    <3>2. CASE /\ m.over \in 1 .. sent
               /\ m.msg = Delta(Convert(f[m.over]), Convert(m.src))
               /\ m.fits => f[m.over].w = m.src.w /\ f[m.over].h = m.src.h
      <4> SUFFICES ASSUME ~misplaced'
                   PROVE  canvas' = CanvasOf(m.src)
        OBVIOUS
      <4>1. ~misplaced /\ m.over = shown.n /\ m.fits
        <5>1. m.msg.kind = "delta"
          BY <3>2 DEF Delta
        <5>2. ~(misplaced \/ m.over # shown.n \/ ~m.fits)
          BY <2>1, <5>1
        <5> QED
          BY <5>2
      <4>2. canvas = CanvasOf(f[m.over]) /\ f[m.over] \in Usable
        BY <1>1, <3>2, <4>1 DEF Explains, PageInv
      <4> QED
        BY <2>1, <2>3, <3>2, <4>1, <4>2, DeltaPainted
    <3> QED
      BY <2>2, <3>1, <3>2 DEF Carries
  <2>5. Explains(f)'
    BY <1>1, <2>1, <2>3, <2>4 DEF Explains, Carries
  <2> QED
    BY <1>1, <2>1, <2>5 DEF PageInv
<1>6. ASSUME NEW u \in AllUrls, OnClose(u) \/ Reconnect(u)
      PROVE  PageInv'
  BY <1>2, <1>6 DEF OnClose, Arrived, Reconnect, serverVars
<1>7. CASE ChangeUrl
  BY <1>2, <1>7 DEF ChangeUrl, serverVars
<1>8. ASSUME NEW u \in AllUrls, NEW src, HandlerPanics(u, src)
      PROVE  PageInv'
  BY <1>2, <1>8 DEF HandlerPanics
<1>9. CASE UNCHANGED screenVars
  BY <1>2, <1>9 DEF screenVars, serverVars
<1> QED
  BY <1>3, <1>4, <1>5, <1>6, <1>7, <1>8, <1>9 DEF PageNext, PageStep, ServerStep

\* What the canvas shows is what the core drew for the message painted last,
\* for any drawings, sizes, formats, tiles and URLs, unless a delta was painted
\* over another picture than its own (dashboard/src/App.tsx:118).
THEOREM ScreenIsWhatWasDrawn == PageSpec => []ScreenShowsDrawn
<1>1. PageInv => ScreenShowsDrawn
  <2> SUFFICES ASSUME PageInv, shown.n # 0, ~misplaced
               PROVE  Shows(canvas, shown.src)
    BY DEF ScreenShowsDrawn
  <2>1. shown.src \in Usable /\ canvas = CanvasOf(shown.src)
    BY DEF PageInv, Explains
  <2> QED
    BY <2>1, CanvasShows
<1> QED
  BY <1>1, PageInvInit, PageInvStep, PTL DEF PageSpec
=============================================================================
