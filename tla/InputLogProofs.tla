--------------------------- MODULE InputLogProofs ---------------------------
(***************************************************************************)
(* Proofs about InputLog, for any events, viewers and sizes: the types of  *)
(* its state, that each event is logged once, and that what a viewer is    *)
(* sent is the log in order, with no gap but those of OnlyLagSkips.        *)
(***************************************************************************)
EXTENDS InputLog, Integers, TLAPS

-----------------------------------------------------------------------------
(* Types                                                                    *)

LEMMA TypeInit == Init => TypeOK
  BY SizesPositive DEF Init, TypeOK

LEMMA PushedType ==
  ASSUME NEW s \in Seq(Events), Len(s) <= MaxRecent, NEW e \in Events
  PROVE  Pushed(s, e) \in Seq(Events) /\ Len(Pushed(s, e)) <= MaxRecent
<1>1. CASE Len(s) >= MaxRecent
  <2>1. Tail(s) \in Seq(Events) /\ Len(Tail(s)) = Len(s) - 1 /\ Len(s) = MaxRecent
    BY <1>1, SizesPositive
  <2> QED
    BY <1>1, <2>1, SizesPositive DEF Pushed
<1>2. CASE ~(Len(s) >= MaxRecent)
  BY <1>2, SizesPositive DEF Pushed
<1> QED
  BY <1>1, <1>2

LEMMA TypeStep == TypeOK /\ [Next]_vars => TypeOK'
<1> SUFFICES ASSUME TypeOK, [Next]_vars PROVE TypeOK'
  OBVIOUS
<1> USE DEF ViewerGoto, logVars, viewVars
<1>1. ASSUME NEW e \in Events, BeginInput(e) \/ Abandon(e)
      PROVE  TypeOK'
  BY <1>1 DEF BeginInput, Abandon, TypeOK
<1>2. ASSUME NEW e \in Events, NEW status \in {"completed", "failed"}, FinalizeInput(e, status)
      PROVE  TypeOK'
  <2>1. recent' \in Seq(Events) /\ Len(recent') <= MaxRecent
    BY <1>2, PushedType DEF FinalizeInput, TypeOK
  <2> QED
    BY <1>2, <2>1 DEF FinalizeInput, TypeOK
<1>3. ASSUME NEW w \in Viewers, ReadRecent(w) \/ Subscribe(w) \/ SendFails(w)
      PROVE  TypeOK'
  <2>1. CASE ReadRecent(w)
    BY <2>1 DEF ReadRecent, TypeOK
  <2>2. CASE Subscribe(w)
    <3>1. Len(sent) \in Nat
      BY DEF TypeOK
    <3> QED
      BY <2>2, <3>1 DEF Subscribe, TypeOK
  <2>3. CASE SendFails(w)
    <3>1. wpc' = [wpc EXCEPT ![w] = "gone"]
      BY <2>3 DEF SendFails
    <3> QED
      BY <2>3, <3>1 DEF SendFails, TypeOK
  <2> QED
    BY <1>3, <2>1, <2>2, <2>3
<1>4. ASSUME NEW w \in Viewers, SendRecent(w)
      PROVE  TypeOK'
  <2>1. /\ replay[w] \in Seq(Events) /\ replay[w] # <<>> /\ got[w] \in Seq(Events)
        /\ got' = [got EXCEPT ![w] = Append(@, Head(replay[w]))]
        /\ replay' = [replay EXCEPT ![w] = Tail(@)]
    BY <1>4 DEF SendRecent, TypeOK
  <2>2. Tail(replay[w]) \in Seq(Events) /\ Append(got[w], Head(replay[w])) \in Seq(Events)
    BY <2>1
  <2> QED
    BY <1>4, <2>1, <2>2 DEF SendRecent, TypeOK
<1>5. ASSUME NEW w \in Viewers, Receive(w)
      PROVE  TypeOK'
  <2>1. next[w] + 1 \in Nat /\ sent[next[w] + 1] \in Events
    BY <1>5 DEF Receive, TypeOK
  <2> QED
    BY <1>5, <2>1 DEF Receive, TypeOK
<1>6. ASSUME NEW w \in Viewers, Lag(w)
      PROVE  TypeOK'
  <2>1. Len(sent) - BroadcastCapacity \in Nat
    BY <1>6, SizesPositive DEF Lag, Overwritten, TypeOK
  <2> QED
    BY <1>6, <2>1 DEF Lag, TypeOK
<1>7. CASE UNCHANGED vars
  BY <1>7 DEF vars, TypeOK
<1> QED
  BY <1>1, <1>2, <1>3, <1>4, <1>5, <1>6, <1>7 DEF Next, RequestStep, ViewerStep

\* The state of the log and of its viewers has its types, and the list of
\* recent events never holds more than MaxRecent (input_log.rs:111).
THEOREM InputLogTypes == Spec => []TypeOK
  BY TypeInit, TypeStep, PTL DEF Spec

-----------------------------------------------------------------------------
(* The log                                                                  *)

LEMMA LoggedInit == Init => LoggedOnce
  BY DEF Init, LoggedOnce

LEMMA LoggedStep == TypeOK /\ LoggedOnce /\ [Next]_vars => LoggedOnce'
<1> SUFFICES ASSUME TypeOK, LoggedOnce, [Next]_vars PROVE LoggedOnce'
  OBVIOUS
<1>1. ASSUME NEW e \in Events, BeginInput(e) \/ Abandon(e)
      PROVE  LoggedOnce'
  <2>1. /\ UNCHANGED sent /\ \A d \in Events \ {e} : epc'[d] = epc[d]
        /\ epc[e] \in {"new", "sending"} /\ epc'[e] \in {"sending", "gone"}
        /\ \/ pending' = pending \cup {e}
           \/ UNCHANGED pending /\ epc[e] = "sending"
    BY <1>1 DEF BeginInput, Abandon, TypeOK
  <2>2. \A d \in Events : /\ epc'[d] \in {"completed", "failed"}
                              <=> epc[d] \in {"completed", "failed"}
                          /\ d \in pending' <=> epc'[d] \in {"sending", "gone"}
    BY <2>1 DEF LoggedOnce
  <2> QED
    BY <2>1, <2>2 DEF LoggedOnce
<1>2. ASSUME NEW e \in Events, NEW status \in {"completed", "failed"}, FinalizeInput(e, status)
      PROVE  LoggedOnce'
  <2>1. /\ sent' = Append(sent, e) /\ sent \in Seq(Events)
        /\ epc' = [epc EXCEPT ![e] = status] /\ pending' = pending \ {e}
        /\ epc[e] = "sending"
    BY <1>2 DEF FinalizeInput, TypeOK
  <2>2. /\ Len(sent) \in Nat /\ DOMAIN sent = 1 .. Len(sent)
        /\ DOMAIN sent' = 1 .. (Len(sent) + 1)
        /\ sent'[Len(sent) + 1] = e /\ \A k \in DOMAIN sent : sent'[k] = sent[k]
    BY <2>1
  <2>3. \A k \in DOMAIN sent : sent[k] # e
    BY <2>1 DEF LoggedOnce
  <2>4. \A d \in Events \ {e} : epc'[d] = epc[d]
    BY <2>1 DEF TypeOK
  <2>5. epc'[e] = status
    BY <2>1 DEF TypeOK
  <2>6. \A j, k \in DOMAIN sent' : sent'[j] = sent'[k] => j = k
    BY <2>2, <2>3 DEF LoggedOnce
  <2>7. ASSUME NEW d \in Events
        PROVE  (\E k \in DOMAIN sent' : sent'[k] = d) <=> epc'[d] \in {"completed", "failed"}
    <3>1. CASE d = e
      BY <2>2, <2>5, <3>1
    <3>2. CASE d # e
      <4>1. (\E k \in DOMAIN sent' : sent'[k] = d) <=> (\E k \in DOMAIN sent : sent[k] = d)
        BY <2>2, <3>2
      <4> QED
        BY <2>4, <3>2, <4>1 DEF LoggedOnce
    <3> QED
      BY <3>1, <3>2
  <2>8. \A d \in Events : d \in pending' <=> epc'[d] \in {"sending", "gone"}
    BY <2>1, <2>4, <2>5 DEF LoggedOnce
  <2> QED
    BY <2>6, <2>7, <2>8 DEF LoggedOnce
<1>3. CASE UNCHANGED logVars
  BY <1>3 DEF logVars, LoggedOnce
<1>4. ASSUME NEW w \in Viewers, ReadRecent(w) \/ ViewerStep(w) \/ SendFails(w)
      PROVE  UNCHANGED logVars
  BY <1>4 DEF ReadRecent, ViewerStep, SendRecent, Subscribe, Receive, Lag, SendFails
<1> QED
  BY <1>1, <1>2, <1>3, <1>4 DEF Next, RequestStep, vars

\* However requests interleave and whoever goes away, an event is in the log
\* once if its command was answered and never otherwise (input_log.rs:98).
THEOREM EventsLoggedOnce == Spec => []LoggedOnce
  BY TypeInit, TypeStep, LoggedInit, LoggedStep, PTL DEF Spec

-----------------------------------------------------------------------------
(* Order in a log                                                           *)

InLog(L, c) == \E k \in DOMAIN L : L[k] = c

\* In L, d comes after c; c comes at n or before.
Precedes(L, c, d) == \A j, k \in DOMAIN L : L[j] = c /\ L[k] = d => j < k

Within(L, c, n) == \A j \in DOMAIN L : L[j] = c => j <= n

Placed(L, s) == \A m \in DOMAIN s : InLog(L, s[m])

Ordered(L, s) == \A m, n \in DOMAIN s : m < n => Precedes(L, s[m], s[n])

\* An event that is not in the log yet goes to its end, after all others.
LEMMA LogGrows ==
  ASSUME NEW L \in Seq(Events), NEW e \in Events, ~InLog(L, e), NEW M, M = Append(L, e)
  PROVE  /\ InLog(M, e) /\ \A c : InLog(L, c) => InLog(M, c) /\ Precedes(M, c, e)
         /\ \A c, d : InLog(L, c) /\ InLog(L, d) /\ Precedes(L, c, d) => Precedes(M, c, d)
         /\ \A c, n : InLog(L, c) /\ Within(L, c, n) => Within(M, c, n)
<1>1. /\ Len(L) \in Nat /\ DOMAIN L = 1 .. Len(L) /\ DOMAIN M = 1 .. (Len(L) + 1)
      /\ M[Len(L) + 1] = e /\ \A k \in DOMAIN L : M[k] = L[k]
  OBVIOUS
<1>2. \A k \in DOMAIN M : M[k] # e => k \in DOMAIN L
  BY <1>1
<1>3. InLog(M, e)
  BY <1>1 DEF InLog
<1>4. ASSUME NEW c, InLog(L, c)
      PROVE  /\ InLog(M, c) /\ Precedes(M, c, e) /\ c # e
             /\ \A k \in DOMAIN M : M[k] = c => k \in DOMAIN L /\ L[k] = c
  <2>1. c # e
    BY <1>4
  <2>2. \A k \in DOMAIN M : M[k] = c => k \in DOMAIN L /\ L[k] = c
    BY <1>1, <1>2, <2>1
  <2>3. InLog(M, c)
    BY <1>1, <1>4 DEF InLog
  <2>4. \A k \in DOMAIN M : M[k] = e => k = Len(L) + 1
    BY <1>1 DEF InLog
  <2> QED
    BY <1>1, <2>1, <2>2, <2>3, <2>4 DEF Precedes
<1>5. \A c, d : InLog(L, c) /\ InLog(L, d) /\ Precedes(L, c, d) => Precedes(M, c, d)
  BY <1>4 DEF Precedes
<1>6. \A c, n : InLog(L, c) /\ Within(L, c, n) => Within(M, c, n)
  BY <1>4 DEF Within
<1> QED
  BY <1>3, <1>4, <1>5, <1>6

LEMMA AppendOrdered ==
  ASSUME NEW L, NEW s \in Seq(Events), NEW e \in Events,
         Placed(L, s), Ordered(L, s), InLog(L, e),
         \A m \in DOMAIN s : Precedes(L, s[m], e)
  PROVE  Placed(L, Append(s, e)) /\ Ordered(L, Append(s, e))
<1> DEFINE t == Append(s, e)
<1>1. /\ Len(s) \in Nat /\ DOMAIN s = 1 .. Len(s) /\ DOMAIN t = 1 .. (Len(s) + 1)
      /\ t[Len(s) + 1] = e /\ \A k \in DOMAIN s : t[k] = s[k]
  OBVIOUS
<1> HIDE DEF t
<1>2. Placed(L, t)
  BY <1>1 DEF Placed
<1>3. ASSUME NEW m \in DOMAIN t, NEW n \in DOMAIN t, m < n
      PROVE  Precedes(L, t[m], t[n])
  <2>1. m \in DOMAIN s
    BY <1>1, <1>3
  <2>2. CASE n \in DOMAIN s
    BY <1>1, <1>3, <2>1, <2>2 DEF Ordered
  <2>3. CASE n \notin DOMAIN s
    BY <1>1, <2>1, <2>3
  <2> QED
    BY <2>2, <2>3
<1>4. Ordered(L, t)
  BY <1>3 DEF Ordered
<1> QED
  BY <1>2, <1>4 DEF t

LEMMA TailOrdered ==
  ASSUME NEW L, NEW s \in Seq(Events), s # <<>>, Placed(L, s), Ordered(L, s)
  PROVE  /\ Placed(L, Tail(s)) /\ Ordered(L, Tail(s)) /\ InLog(L, Head(s))
         /\ \A n \in DOMAIN Tail(s) : Precedes(L, Head(s), Tail(s)[n])
         /\ \A n \in DOMAIN Tail(s) : \E k \in DOMAIN s : Tail(s)[n] = s[k]
<1> DEFINE t == Tail(s)
<1>1. /\ Len(s) \in Nat /\ Len(s) >= 1 /\ DOMAIN s = 1 .. Len(s)
      /\ DOMAIN t = 1 .. (Len(s) - 1) /\ Head(s) = s[1]
      /\ \A k \in DOMAIN t : k + 1 \in DOMAIN s /\ t[k] = s[k + 1]
  OBVIOUS
<1> HIDE DEF t
<1>2. Placed(L, t) /\ InLog(L, Head(s))
  BY <1>1 DEF Placed
<1>3. Ordered(L, t)
  <2> SUFFICES ASSUME NEW m \in DOMAIN t, NEW n \in DOMAIN t, m < n
               PROVE  Precedes(L, t[m], t[n])
    BY DEF Ordered
  <2>1. m + 1 \in DOMAIN s /\ n + 1 \in DOMAIN s /\ m + 1 < n + 1
    BY <1>1
  <2> QED
    BY <1>1, <2>1 DEF Ordered
<1>4. ASSUME NEW n \in DOMAIN t
      PROVE  Precedes(L, Head(s), t[n]) /\ \E k \in DOMAIN s : t[n] = s[k]
  <2>1. n + 1 \in DOMAIN s /\ 1 \in DOMAIN s /\ 1 < n + 1
    BY <1>1
  <2> QED
    BY <1>1, <2>1 DEF Ordered
<1> QED
  BY <1>2, <1>3, <1>4 DEF t

-----------------------------------------------------------------------------
(* What a viewer is sent                                                    *)

RecentInv == Placed(sent, recent) /\ Ordered(sent, recent)

PlacedInv == \A w \in Viewers : Placed(sent, got[w]) /\ Placed(sent, replay[w])

OrderInv == \A w \in Viewers : Ordered(sent, got[w]) /\ Ordered(sent, replay[w])

\* What is still to be replayed comes after what was sent, and what the
\* channel will give after that.
AheadInv ==
  \A w \in Viewers :
    /\ wpc[w] = "idle" => got[w] = <<>> /\ replay[w] = <<>>
    /\ \A m \in DOMAIN got[w], n \in DOMAIN replay[w] :
         Precedes(sent, got[w][m], replay[w][n])
    /\ wpc[w] = "live" => /\ since[w] <= next[w] /\ next[w] <= Len(sent)
                          /\ \A m \in DOMAIN got[w] : Within(sent, got[w][m], next[w])
                          /\ replay[w] = <<>>

ViewInv == PlacedInv /\ OrderInv /\ AheadInv /\ OnlyLagSkips

DeliverInv == RecentInv /\ ViewInv

LEMMA DeliverInit == Init => DeliverInv
  BY DEF Init, DeliverInv, RecentInv, ViewInv, PlacedInv, OrderInv, AheadInv, OnlyLagSkips,
         Placed, Ordered

\* A longer log keeps what is in order in order.
LEMMA OrderKept ==
  ASSUME NEW L \in Seq(Events), NEW e \in Events, ~InLog(L, e), NEW M, M = Append(L, e),
         NEW s, Placed(L, s), Ordered(L, s)
  PROVE  Placed(M, s) /\ Ordered(M, s) /\ \A m \in DOMAIN s : Precedes(M, s[m], e)
<1>1. \A m \in DOMAIN s : InLog(L, s[m]) /\ InLog(M, s[m]) /\ Precedes(M, s[m], e)
  BY LogGrows DEF Placed
<1>2. \A m, n \in DOMAIN s : m < n => Precedes(M, s[m], s[n])
  BY <1>1, LogGrows DEF Ordered
<1> QED
  BY <1>1, <1>2 DEF Placed, Ordered

LEMMA FinalizeKeeps ==
  ASSUME TypeOK, LoggedOnce, DeliverInv, NEW e \in Events, NEW status, FinalizeInput(e, status)
  PROVE  DeliverInv'
<1>1. /\ sent \in Seq(Events) /\ sent' = Append(sent, e) /\ recent' = Pushed(recent, e)
      /\ UNCHANGED viewVars /\ ~InLog(sent, e)
  BY DEF FinalizeInput, TypeOK, LoggedOnce, InLog
<1>2. Len(sent) \in Nat /\ Len(sent') = Len(sent) + 1 /\ \A k \in 1 .. Len(sent) : sent'[k] = sent[k]
  BY <1>1
<1>3. ASSUME NEW s, Placed(sent, s), Ordered(sent, s)
      PROVE  Placed(sent', s) /\ Ordered(sent', s) /\ \A m \in DOMAIN s : Precedes(sent', s[m], e)
  BY <1>1, <1>3, OrderKept
<1>4. RecentInv'
  <2> DEFINE r == IF Len(recent) >= MaxRecent THEN Tail(recent) ELSE recent
  <2>1. r \in Seq(Events) /\ Placed(sent, r) /\ Ordered(sent, r)
    <3>1. CASE Len(recent) >= MaxRecent
      <4>1. recent \in Seq(Events) /\ recent # <<>> /\ Tail(recent) \in Seq(Events)
        BY <3>1, SizesPositive DEF TypeOK
      <4>2. Placed(sent, Tail(recent)) /\ Ordered(sent, Tail(recent))
        BY <4>1, TailOrdered DEF DeliverInv, RecentInv
      <4> QED
        BY <3>1, <4>1, <4>2
    <3>2. CASE ~(Len(recent) >= MaxRecent)
      BY <3>2 DEF DeliverInv, RecentInv, TypeOK
    <3> QED
      BY <3>1, <3>2
  <2>2. recent' = Append(r, e)
    BY <1>1 DEF Pushed
  <2> HIDE DEF r
  <2>3. InLog(sent', e)
    BY <1>1, LogGrows
  <2>4. Placed(sent', Append(r, e)) /\ Ordered(sent', Append(r, e))
    BY <1>3, <2>1, <2>3, AppendOrdered
  <2> QED
    BY <2>2, <2>4 DEF RecentInv
<1>5. PlacedInv' /\ OrderInv'
  BY <1>1, <1>3 DEF viewVars, DeliverInv, ViewInv, PlacedInv, OrderInv
<1>6. AheadInv'
  <2> SUFFICES ASSUME NEW w \in Viewers
               PROVE  /\ wpc[w] = "idle" => got[w] = <<>> /\ replay[w] = <<>>
                      /\ \A m \in DOMAIN got[w], n \in DOMAIN replay[w] :
                           Precedes(sent', got[w][m], replay[w][n])
                      /\ wpc[w] = "live"
                         => /\ since[w] <= next[w] /\ next[w] <= Len(sent')
                            /\ \A m \in DOMAIN got[w] : Within(sent', got[w][m], next[w])
                            /\ replay[w] = <<>>
    BY <1>1 DEF viewVars, AheadInv
  <2>1. /\ \A m \in DOMAIN got[w] : InLog(sent, got[w][m])
        /\ \A n \in DOMAIN replay[w] : InLog(sent, replay[w][n])
    BY DEF DeliverInv, ViewInv, PlacedInv, Placed
  <2>2. \A m \in DOMAIN got[w], n \in DOMAIN replay[w] :
          Precedes(sent', got[w][m], replay[w][n])
    BY <1>1, <2>1, LogGrows DEF DeliverInv, ViewInv, AheadInv
  <2>3. ASSUME wpc[w] = "live"
        PROVE  /\ next[w] <= Len(sent')
               /\ \A m \in DOMAIN got[w] : Within(sent', got[w][m], next[w])
    <3>1. \A m \in DOMAIN got[w] : Within(sent, got[w][m], next[w])
      BY <2>3 DEF DeliverInv, ViewInv, AheadInv
    <3>2. next[w] \in Nat /\ next[w] <= Len(sent)
      BY <2>3 DEF DeliverInv, ViewInv, AheadInv, TypeOK
    <3>3. next[w] <= Len(sent')
      BY <1>2, <3>2
    <3> QED
      BY <1>1, <2>1, <3>1, <3>3, LogGrows
  <2> QED
    BY <2>2, <2>3 DEF DeliverInv, ViewInv, AheadInv
<1>7. OnlyLagSkips'
  <2> SUFFICES ASSUME NEW w \in Viewers, wpc[w] = "live", w \notin lagged,
                      NEW k \in since[w] + 1 .. next[w]
               PROVE  \E n \in DOMAIN got[w] : got[w][n] = sent'[k]
    BY <1>1 DEF viewVars, OnlyLagSkips
  <2>1. since[w] \in Nat /\ next[w] \in Nat /\ next[w] <= Len(sent)
    BY DEF DeliverInv, ViewInv, AheadInv, TypeOK
  <2>2. k \in 1 .. Len(sent)
    BY <1>2, <2>1
  <2>3. \E n \in DOMAIN got[w] : got[w][n] = sent[k]
    BY DEF DeliverInv, ViewInv, OnlyLagSkips
  <2> QED
    BY <1>2, <2>2, <2>3
<1> QED
  BY <1>4, <1>5, <1>6, <1>7 DEF DeliverInv, ViewInv

\* ViewInv of one viewer.
Served(w) ==
  /\ Placed(sent, got[w]) /\ Placed(sent, replay[w])
  /\ Ordered(sent, got[w]) /\ Ordered(sent, replay[w])
  /\ wpc[w] = "idle" => got[w] = <<>> /\ replay[w] = <<>>
  /\ \A m \in DOMAIN got[w], n \in DOMAIN replay[w] :
       Precedes(sent, got[w][m], replay[w][n])
  /\ wpc[w] = "live" => /\ since[w] <= next[w] /\ next[w] <= Len(sent)
                        /\ \A m \in DOMAIN got[w] : Within(sent, got[w][m], next[w])
                        /\ replay[w] = <<>>
  /\ wpc[w] = "live" /\ w \notin lagged =>
       \A k \in since[w] + 1 .. next[w] : \E n \in DOMAIN got[w] : got[w][n] = sent[k]

LEMMA EachServed == ViewInv <=> \A w \in Viewers : Served(w)
  BY DEF ViewInv, PlacedInv, OrderInv, AheadInv, OnlyLagSkips, Served

\* A step of one viewer is none of the others' business.
Mine(w) ==
  /\ UNCHANGED sent
  /\ \A u \in Viewers \ {w} :
       /\ wpc'[u] = wpc[u] /\ replay'[u] = replay[u] /\ next'[u] = next[u]
       /\ got'[u] = got[u] /\ since'[u] = since[u] /\ (u \in lagged' <=> u \in lagged)

LEMMA OthersServed ==
  ASSUME ViewInv, NEW w \in Viewers, Mine(w), Served(w)'
  PROVE  ViewInv'
<1>1. ASSUME NEW u \in Viewers \ {w}
      PROVE  Served(u)'
  <2>1. Served(u)
    BY EachServed
  <2> QED
    BY <1>1, <2>1 DEF Mine, Served
<1>2. \A u \in Viewers : Served(u)'
  BY <1>1
<1> QED
  BY <1>2 DEF ViewInv, PlacedInv, OrderInv, AheadInv, OnlyLagSkips, Served

LEMMA ViewStep ==
  ASSUME TypeOK, TypeOK', LoggedOnce, DeliverInv, NEW w \in Viewers,
         ReadRecent(w) \/ ViewerStep(w) \/ SendFails(w)
  PROVE  ViewInv' /\ UNCHANGED logVars
<1> USE DEF ViewerGoto, logVars
<1>1. ViewInv /\ Served(w) /\ UNCHANGED logVars
  BY EachServed DEF DeliverInv, ReadRecent, ViewerStep, SendRecent, Subscribe, Receive, Lag,
                    SendFails
<1>2. Mine(w)
  <2>1. UNCHANGED sent
    BY <1>1
  <2>2. CASE ReadRecent(w) \/ Subscribe(w) \/ SendFails(w)
    BY <2>1, <2>2 DEF ReadRecent, Subscribe, SendFails, Mine, TypeOK
  <2>3. CASE SendRecent(w)
    BY <2>1, <2>3 DEF SendRecent, Mine, TypeOK
  <2>4. CASE Receive(w)
    BY <2>1, <2>4 DEF Receive, Mine, TypeOK
  <2>5. CASE Lag(w)
    BY <2>1, <2>5 DEF Lag, Mine, TypeOK
  <2> QED
    BY <2>2, <2>3, <2>4, <2>5 DEF ViewerStep
<1>3. CASE ReadRecent(w)
  <2>1. /\ wpc[w] = "idle" /\ wpc'[w] = "replaying" /\ replay'[w] = recent /\ got' = got
    BY <1>3 DEF ReadRecent, TypeOK
  <2>2. Placed(sent, recent) /\ Ordered(sent, recent)
    BY DEF DeliverInv, RecentInv
  <2>3. got[w] = <<>> /\ DOMAIN got[w] = {}
    BY <1>1, <2>1 DEF Served
  <2>4. Served(w)'
    BY <1>1, <2>1, <2>2, <2>3 DEF Served
  <2> QED
    BY <1>1, <1>2, <2>4, OthersServed
<1>4. CASE SendRecent(w)
  <2> DEFINE h == Head(replay[w])
             t == Tail(replay[w])
             g == Append(got[w], h)
  <2>1. /\ wpc[w] = "replaying" /\ wpc'[w] = "replaying" /\ replay[w] # <<>>
        /\ replay'[w] = t /\ got'[w] = g
        /\ replay[w] \in Seq(Events) /\ got[w] \in Seq(Events)
    BY <1>4 DEF SendRecent, TypeOK
  <2>2. /\ Placed(sent, t) /\ Ordered(sent, t) /\ InLog(sent, h)
        /\ \A n \in DOMAIN t : Precedes(sent, h, t[n])
        /\ \A n \in DOMAIN t : \E k \in DOMAIN replay[w] : t[n] = replay[w][k]
    BY <1>1, <2>1, TailOrdered DEF Served
  <2>3. h \in Events /\ h = replay[w][1] /\ 1 \in DOMAIN replay[w]
    BY <2>1
  <2>4. \A m \in DOMAIN got[w] : Precedes(sent, got[w][m], h)
    BY <1>1, <2>3 DEF Served
  <2>5. Placed(sent, g) /\ Ordered(sent, g)
    BY <1>1, <2>1, <2>2, <2>3, <2>4, AppendOrdered DEF Served
  <2>6. ASSUME NEW m \in DOMAIN g, NEW n \in DOMAIN t
        PROVE  Precedes(sent, g[m], t[n])
    <3>1. g[m] = h \/ (m \in DOMAIN got[w] /\ g[m] = got[w][m])
      BY <2>1
    <3>2. PICK k \in DOMAIN replay[w] : t[n] = replay[w][k]
      BY <2>2
    <3> QED
      BY <1>1, <2>2, <3>1, <3>2 DEF Served
  <2> HIDE DEF g, t
  <2>7. Served(w)'
    BY <1>1, <2>1, <2>2, <2>5, <2>6 DEF Served
  <2> QED
    BY <1>1, <1>2, <2>7, OthersServed
<1>5. CASE Subscribe(w)
  <2>1. /\ wpc[w] = "replaying" /\ wpc'[w] = "live" /\ replay[w] = <<>>
        /\ next'[w] = Len(sent) /\ since'[w] = Len(sent)
        /\ UNCHANGED <<replay, got, lagged>> /\ Len(sent) \in Nat
        /\ DOMAIN sent = 1 .. Len(sent)
    BY <1>5 DEF Subscribe, TypeOK
  <2>2. \A c : Within(sent, c, Len(sent))
    BY <2>1 DEF Within
  <2>3. since'[w] <= next'[w] /\ next'[w] <= Len(sent) /\ since'[w] + 1 .. next'[w] = {}
    BY <2>1
  <2>4. Served(w)'
    BY <1>1, <2>1, <2>2, <2>3 DEF Served
  <2> QED
    BY <1>1, <1>2, <2>4, OthersServed
<1>6. CASE Receive(w)
  <2> DEFINE p == next[w] + 1
             c == sent[p]
             g == Append(got[w], c)
  <2>1. /\ wpc[w] = "live" /\ wpc'[w] = "live" /\ next'[w] = p /\ got'[w] = g
        /\ UNCHANGED <<replay, since, lagged>>
        /\ got[w] \in Seq(Events) /\ p \in DOMAIN sent /\ c \in Events
        /\ next[w] \in Nat /\ since[w] \in Nat /\ p <= Len(sent) /\ Len(sent) \in Nat
    BY <1>6 DEF Receive, TypeOK
  <2>2. \A j \in DOMAIN sent : sent[j] = c => j = p
    BY <2>1 DEF LoggedOnce
  <2>3. InLog(sent, c) /\ Within(sent, c, p)
    BY <2>1, <2>2 DEF InLog, Within
  <2>4. \A m \in DOMAIN got[w] : Precedes(sent, got[w][m], c) /\ Within(sent, got[w][m], p)
    <3>1. \A m \in DOMAIN got[w] : Within(sent, got[w][m], next[w])
      BY <1>1, <2>1 DEF Served
    <3>2. DOMAIN sent \subseteq Nat
      BY DEF TypeOK
    <3> QED
      BY <2>1, <2>2, <3>1, <3>2 DEF Precedes, Within
  <2>5. Placed(sent, g) /\ Ordered(sent, g)
    BY <1>1, <2>1, <2>3, <2>4, AppendOrdered DEF Served
  <2>6. /\ \A m \in DOMAIN g : g[m] = c \/ (m \in DOMAIN got[w] /\ g[m] = got[w][m])
        /\ \A m \in DOMAIN got[w] : m \in DOMAIN g /\ g[m] = got[w][m]
        /\ \E m \in DOMAIN g : g[m] = c
    <3>1. /\ Len(got[w]) \in Nat /\ DOMAIN got[w] = 1 .. Len(got[w])
          /\ DOMAIN g = 1 .. (Len(got[w]) + 1) /\ g[Len(got[w]) + 1] = c
          /\ \A m \in DOMAIN got[w] : g[m] = got[w][m]
      BY <2>1
    <3> QED
      BY <3>1
  <2> HIDE DEF g, c
  <2>7. \A m \in DOMAIN g : Within(sent, g[m], p)
    BY <2>3, <2>4, <2>6
  <2>8. since[w] <= p /\ since[w] + 1 .. p \subseteq (since[w] + 1 .. next[w]) \cup {p}
    BY <1>1, <2>1 DEF Served
  <2>9. w \notin lagged => \A k \in since[w] + 1 .. p : \E n \in DOMAIN g : g[n] = sent[k]
    <3>1. w \notin lagged => \A k \in since[w] + 1 .. next[w] :
                               \E n \in DOMAIN got[w] : got[w][n] = sent[k]
      BY <1>1, <2>1 DEF Served
    <3>2. \E n \in DOMAIN g : g[n] = sent[p]
      BY <2>6 DEF c
    <3> QED
      BY <2>6, <2>8, <3>1, <3>2
  <2>10. replay[w] = <<>> /\ DOMAIN replay[w] = {}
    BY <1>1, <2>1 DEF Served
  <2> HIDE DEF p
  <2>11. Served(w)'
    BY <1>1, <2>1, <2>5, <2>7, <2>8, <2>9, <2>10 DEF Served
  <2> QED
    BY <1>1, <1>2, <2>11, OthersServed
<1>7. CASE Lag(w)
  <2>1. /\ wpc[w] = "live" /\ next'[w] = Len(sent) - BroadcastCapacity /\ w \in lagged'
        /\ UNCHANGED <<wpc, replay, got, since>> /\ Len(sent) - next[w] > BroadcastCapacity
        /\ next[w] \in Nat /\ since[w] \in Nat /\ Len(sent) \in Nat
        /\ BroadcastCapacity \in Nat
    BY <1>7, SizesPositive DEF Lag, Overwritten, TypeOK
  <2>2. next[w] <= next'[w] /\ next'[w] <= Len(sent) /\ next'[w] \in Nat
    BY <2>1
  <2>3. since[w] <= next'[w]
    BY <1>1, <2>1, <2>2 DEF Served
  <2>4. \A m \in DOMAIN got[w] : Within(sent, got[w][m], next'[w])
    <3>1. \A m \in DOMAIN got[w] : Within(sent, got[w][m], next[w])
      BY <1>1, <2>1 DEF Served
    <3>2. DOMAIN sent \subseteq Nat
      BY DEF TypeOK
    <3> QED
      BY <2>1, <2>2, <3>1, <3>2 DEF Within
  <2>5. Served(w)'
    BY <1>1, <2>1, <2>2, <2>3, <2>4 DEF Served
  <2> QED
    BY <1>1, <1>2, <2>5, OthersServed
<1>8. CASE SendFails(w)
  <2>1. wpc'[w] = "gone" /\ UNCHANGED <<replay, got>>
    BY <1>8 DEF SendFails, TypeOK
  <2>2. Served(w)'
    BY <1>1, <2>1 DEF Served
  <2> QED
    BY <1>1, <1>2, <2>2, OthersServed
<1> QED
  BY <1>1, <1>3, <1>4, <1>5, <1>6, <1>7, <1>8 DEF ViewerStep

LEMMA DeliverStep ==
  ASSUME TypeOK, TypeOK', LoggedOnce, DeliverInv, [Next]_vars
  PROVE  DeliverInv'
<1>1. ASSUME NEW e \in Events, BeginInput(e) \/ Abandon(e)
      PROVE  DeliverInv'
  <2>1. UNCHANGED <<recent, sent, viewVars>>
    BY <1>1 DEF BeginInput, Abandon
  <2> QED
    BY <2>1 DEF viewVars, DeliverInv, RecentInv, ViewInv, PlacedInv, OrderInv, AheadInv,
                OnlyLagSkips
<1>2. ASSUME NEW w \in Viewers, ReadRecent(w) \/ ViewerStep(w) \/ SendFails(w)
      PROVE  DeliverInv'
  <2>1. ViewInv' /\ UNCHANGED logVars
    BY <1>2, ViewStep
  <2> QED
    BY <2>1 DEF logVars, DeliverInv, RecentInv
<1>3. CASE UNCHANGED vars
  BY <1>3 DEF vars, logVars, viewVars, DeliverInv, RecentInv, ViewInv, PlacedInv, OrderInv,
              AheadInv, OnlyLagSkips
<1> QED
  BY <1>1, <1>2, <1>3, FinalizeKeeps DEF Next, RequestStep

LEMMA DeliverImplies ==
  ASSUME TypeOK, LoggedOnce, DeliverInv
  PROVE  DeliversTheLog
<1>1. \A k \in DOMAIN sent : Place(sent[k]) = k
  <2> TAKE k \in DOMAIN sent
  <2>1. Place(sent[k]) \in DOMAIN sent /\ sent[Place(sent[k])] = sent[k]
    BY DEF Place
  <2> QED
    BY <2>1 DEF LoggedOnce
<1>2. NothingTwice
  <2> SUFFICES ASSUME NEW w \in Viewers, NEW m \in DOMAIN got[w], NEW n \in DOMAIN got[w], m < n
               PROVE  Place(got[w][m]) < Place(got[w][n])
    BY DEF NothingTwice
  <2>1. PICK j \in DOMAIN sent : sent[j] = got[w][m]
    BY DEF DeliverInv, ViewInv, PlacedInv, Placed, InLog
  <2>2. PICK k \in DOMAIN sent : sent[k] = got[w][n]
    BY DEF DeliverInv, ViewInv, PlacedInv, Placed, InLog
  <2>3. j < k
    BY <2>1, <2>2 DEF DeliverInv, ViewInv, OrderInv, Ordered, Precedes
  <2>4. Place(got[w][m]) = j /\ Place(got[w][n]) = k
    BY <1>1, <2>1, <2>2
  <2> QED
    BY <2>3, <2>4
<1> QED
  BY <1>2 DEF DeliversTheLog, DeliverInv, ViewInv

\* Although a viewer reads the recent list, sends it for as long as its peer
\* takes and subscribes only then, what it is sent is in the order of the log
\* and nothing twice, and from its subscription on only a lag skips anything
\* (lib.rs:518).
THEOREM ViewersFollowTheLog == Spec => []DeliversTheLog
  BY TypeInit, TypeStep, LoggedInit, LoggedStep, DeliverInit, DeliverStep, DeliverImplies, PTL
     DEF Spec
=============================================================================
