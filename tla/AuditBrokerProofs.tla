------------------------- MODULE AuditBrokerProofs -------------------------
(***************************************************************************)
(* Proofs about AuditBroker, for any number of publishers, callers and     *)
(* subscriptions and any buffer sizes.  The inductive invariant is built   *)
(* in layers, each proved with the help of the ones before it:             *)
(*   TypeOK     the state has its type and buffers keep to their capacity; *)
(*   LockInv    what the read-write lock protects: a publisher in its loop *)
(*              only has subscriptions of the map left, and every channel  *)
(*              in the map is open;                                        *)
(*   OrderInv   the event in hand is newer than what its publisher has put *)
(*              into the channels the loop has yet to visit;               *)
(*   LossInv    what the loop has passed was given the event or was full;  *)
(*   GapInv     losses are gaps in their places, and the event in hand is  *)
(*              newer than what its publisher has lost there;              *)
(*   FiniteInv  the loop has an end.                                       *)
(***************************************************************************)
EXTENDS AuditBroker, FiniteSetTheorems, TLAPS

\* A channel holds at least one event.
LEMMA CapacityPositive == \A s \in Subs : Capacity(s) \in Nat /\ Capacity(s) > 0
  BY BufSizeAssumption DEF Capacity, DefaultBufSize

\* Every sequence of events keeps its type when an event is added.
LEMMA CurrentIsEvent ==
  ASSUME TypeOK, NEW p \in Publishers, calls[p] > 0
  PROVE  Current(p) \in Event
  BY DEF TypeOK, Current, Event

-----------------------------------------------------------------------------
(* Types *)

TypeInv ==
  /\ TypeOK
  /\ \A p \in Publishers : pc[p] # "idle" => calls[p] > 0

LEMMA TypeInvInit == Init => TypeInv
<1> SUFFICES ASSUME Init PROVE TypeInv
  OBVIOUS
<1> USE DEF Init
<1>1. \A s \in Subs : accepted[s] = << >> /\ taken[s] = 0
  OBVIOUS
<1>2. \A s \in Subs : Buffered(s) \in 0..Capacity(s)
  BY <1>1, CapacityPositive DEF Buffered
<1>3. accepted \in [Subs -> Seq(Event)]
  OBVIOUS
<1>4. want \in [Callers -> Call \cup {NoCall}]
  OBVIOUS
<1> QED
  BY <1>2, <1>3, <1>4 DEF TypeInv, TypeOK

LEMMA TypeInvStep == TypeInv /\ [Next]_brokerVars => TypeInv'
<1> SUFFICES ASSUME TypeInv, [Next]_brokerVars PROVE TypeInv'
  OBVIOUS
<1> USE CapacityPositive DEF TypeInv, TypeOK
<1>1. ASSUME NEW p \in Publishers, PublishCall(p) PROVE TypeInv'
  BY <1>1 DEF PublishCall, Buffered
<1>2. ASSUME NEW p \in Publishers, PublishRLock(p) PROVE TypeInv'
  BY <1>2 DEF PublishRLock, Buffered
<1>3. ASSUME NEW p \in Publishers, NEW s \in Subs, PublishSend(p, s) PROVE TypeInv'
  <2>1. Current(p) \in Event
    BY <1>3, CurrentIsEvent DEF PublishSend
  <2>2. \A q \in Publishers : todo'[q] \in SUBSET Subs
    BY <1>3 DEF PublishSend, AfterVisit
  <2>3. /\ accepted' \in [Subs -> Seq(Event)]
        /\ dropped' \in [Subs -> SUBSET Loss]
    <3>1. LossNow(p, s) \in Loss
      BY <2>1 DEF LossNow, Loss
    <3> QED
      BY <1>3, <2>1, <3>1 DEF PublishSend
  <2>4. \A t \in Subs : Buffered(t)' \in 0..Capacity(t)
    <3> SUFFICES ASSUME NEW t \in Subs PROVE Buffered(t)' \in 0..Capacity(t)
      OBVIOUS
    <3>1. CASE t = s /\ chan[s] = "open" /\ ~Full(s)
      <4>1. accepted'[t] = Append(accepted[t], Current(p))
        BY <1>3, <3>1 DEF PublishSend
      <4>2. Len(accepted'[t]) = Len(accepted[t]) + 1
        BY <4>1, <2>1
      <4> QED
        BY <1>3, <3>1, <4>2 DEF PublishSend, Buffered, Full
    <3>2. CASE ~(t = s /\ chan[s] = "open" /\ ~Full(s))
      BY <1>3, <3>2 DEF PublishSend, Buffered
    <3> QED
      BY <3>1, <3>2
  <2> QED
    BY <1>3, <2>2, <2>3, <2>4 DEF PublishSend
<1>4. ASSUME NEW p \in Publishers, PublishReturn(p) PROVE TypeInv'
  <2>1. Current(p) \in Event
    BY <1>4, CurrentIsEvent DEF PublishReturn
  <2> QED
    BY <1>4, <2>1 DEF PublishReturn, Buffered
<1>5. ASSUME NEW c \in Callers, NEW s \in Subs, SubscribeCall(c, s) PROVE TypeInv'
  BY <1>5 DEF SubscribeCall, Buffered, Call
<1>6. ASSUME NEW c \in Callers, NEW s \in Subs, CancelCall(c, s) PROVE TypeInv'
  BY <1>6 DEF CancelCall, Buffered, Call
<1>7. ASSUME NEW c \in Callers, LockAnnounce(c) PROVE TypeInv'
  BY <1>7 DEF LockAnnounce, Buffered
<1>8. ASSUME NEW c \in Callers, SubscribeLocked(c) PROVE TypeInv'
  <2>1. want[c].sub \in Subs
    BY <1>8 DEF SubscribeLocked, Call, NoCall
  <2> QED
    BY <1>8, <2>1 DEF SubscribeLocked, Buffered
<1>9. ASSUME NEW c \in Callers, CancelLocked(c) PROVE TypeInv'
  <2>1. want[c].sub \in Subs
    BY <1>9 DEF CancelLocked, Call, NoCall
  <2> QED
    BY <1>9, <2>1 DEF CancelLocked, Buffered
<1>10. ASSUME NEW s \in Subs, Receive(s) PROVE TypeInv'
  BY <1>10 DEF Receive, Buffered
<1>11. CASE UNCHANGED brokerVars
  BY <1>11 DEF brokerVars, Buffered
<1> QED
  BY <1>1, <1>2, <1>3, <1>4, <1>5, <1>6, <1>7, <1>8, <1>9, <1>10, <1>11
  DEF Next, PublishStep, LockStep

\* Every reachable state has its type, and no buffer exceeds its capacity.
THEOREM TypeCorrect == Spec => []TypeOK
<1>1. TypeInv => TypeOK
  BY DEF TypeInv
<1> QED
  BY <1>1, TypeInvInit, TypeInvStep, PTL DEF Spec

-----------------------------------------------------------------------------
(* The lock *)

LockInv ==
  /\ NoPanic
  /\ \A s \in subs : chan[s] = "open"
  /\ \A p \in Publishers : pc[p] = "sending" => todo[p] \subseteq subs
  /\ \A c \in Callers : want[c].op = "subscribe"
       => chan[want[c].sub] = "open" /\ want[c].sub \notin subs
  /\ \A c, d \in Callers :
       (c # d /\ want[c].op = "subscribe" /\ want[d].op = "subscribe")
         => want[c].sub # want[d].sub

LEMMA LockInvInit == Init => LockInv
  BY DEF Init, LockInv, NoPanic, NoCall

LEMMA LockInvStep == TypeInv /\ LockInv /\ [Next]_brokerVars => LockInv'
<1> SUFFICES ASSUME TypeInv, LockInv, [Next]_brokerVars PROVE LockInv'
  OBVIOUS
<1> USE DEF TypeInv, TypeOK, LockInv, NoPanic
<1>1. ASSUME NEW p \in Publishers, PublishCall(p) PROVE LockInv'
  BY <1>1 DEF PublishCall
<1>2. ASSUME NEW p \in Publishers, PublishRLock(p) PROVE LockInv'
  BY <1>2 DEF PublishRLock
<1>3. ASSUME NEW p \in Publishers, NEW s \in Subs, PublishSend(p, s) PROVE LockInv'
  <2>1. chan[s] = "open"
    BY <1>3 DEF PublishSend
  <2>2. \A q \in Publishers : todo'[q] \subseteq todo[q]
    BY <1>3 DEF PublishSend, AfterVisit
  <2> QED
    BY <1>3, <2>1, <2>2 DEF PublishSend
<1>4. ASSUME NEW p \in Publishers, PublishReturn(p) PROVE LockInv'
  BY <1>4 DEF PublishReturn
<1>5. ASSUME NEW c \in Callers, NEW s \in Subs, SubscribeCall(c, s) PROVE LockInv'
  <2>1. s \notin subs
    BY <1>5 DEF SubscribeCall
  <2>2. \A d \in Callers : want[d].op = "subscribe" => want[d].sub # s
    BY <1>5 DEF SubscribeCall
  <2>3. /\ want'[c].op = "subscribe" /\ want'[c].sub = s
        /\ \A d \in Callers \ {c} : want'[d] = want[d]
    BY <1>5 DEF SubscribeCall
  <2>4. \A t \in Subs : chan'[t] = IF t = s THEN "open" ELSE chan[t]
    BY <1>5 DEF SubscribeCall
  <2>5. /\ subs' = subs /\ pc' = pc /\ todo' = todo /\ panicked' = panicked
    BY <1>5 DEF SubscribeCall
  <2>6. \A d \in Callers : want'[d].op = "subscribe"
           => chan'[want'[d].sub] = "open" /\ want'[d].sub \notin subs'
    <3> SUFFICES ASSUME NEW d \in Callers, want'[d].op = "subscribe"
                 PROVE  chan'[want'[d].sub] = "open" /\ want'[d].sub \notin subs'
      OBVIOUS
    <3>1. CASE d = c
      BY <3>1, <2>1, <2>3, <2>4, <2>5
    <3>2. CASE d # c
      <4>1. want'[d] = want[d]
        BY <3>2, <2>3
      <4>2. want[d].sub \in Subs
        BY <4>1 DEF Call, NoCall
      <4> QED
        BY <4>1, <4>2, <2>4, <2>5
    <3> QED
      BY <3>1, <3>2
  <2>7. \A d, e \in Callers :
          (d # e /\ want'[d].op = "subscribe" /\ want'[e].op = "subscribe")
            => want'[d].sub # want'[e].sub
    <3> SUFFICES ASSUME NEW d \in Callers, NEW e \in Callers, d # e,
                        want'[d].op = "subscribe", want'[e].op = "subscribe"
                 PROVE  want'[d].sub # want'[e].sub
      OBVIOUS
    <3>1. CASE d = c
      BY <3>1, <2>2, <2>3
    <3>2. CASE e = c
      BY <3>2, <2>2, <2>3
    <3>3. CASE d # c /\ e # c
      BY <3>3, <2>3
    <3> QED
      BY <3>1, <3>2, <3>3
  <2> QED
    BY <2>4, <2>5, <2>6, <2>7
<1>6. ASSUME NEW c \in Callers, NEW s \in Subs, CancelCall(c, s) PROVE LockInv'
  BY <1>6 DEF CancelCall
<1>7. ASSUME NEW c \in Callers, LockAnnounce(c) PROVE LockInv'
  BY <1>7 DEF LockAnnounce
<1>8. ASSUME NEW c \in Callers, SubscribeLocked(c) PROVE LockInv'
  <2>1. /\ want'[c].op = "none"
        /\ \A d \in Callers \ {c} : want'[d] = want[d]
    BY <1>8 DEF SubscribeLocked, NoCall
  <2>2. \A p \in Publishers : pc'[p] # "sending"
    BY <1>8 DEF SubscribeLocked, Readers
  <2> QED
    BY <1>8, <2>1, <2>2 DEF SubscribeLocked
<1>9. ASSUME NEW c \in Callers, CancelLocked(c) PROVE LockInv'
  <2>1. /\ want'[c].op = "none"
        /\ \A d \in Callers \ {c} : want'[d] = want[d]
    BY <1>9 DEF CancelLocked, NoCall
  <2>2. \A p \in Publishers : pc'[p] # "sending"
    BY <1>9 DEF CancelLocked, Readers
  <2>3. CASE want[c].sub \in subs
    <3>1. /\ subs' = subs \ {want[c].sub}
          /\ panicked' = panicked
          /\ \A t \in Subs : t # want[c].sub => chan'[t] = chan[t]
      BY <1>9, <2>3 DEF CancelLocked
    <3>2. \A d \in Callers : want[d].op = "subscribe" => want[d].sub \in Subs
      BY DEF Call, NoCall
    <3>3. \A t \in subs' : chan'[t] = "open"
      BY <3>1
    <3>4. \A d \in Callers : want'[d].op = "subscribe"
             => /\ want'[d] = want[d]
                /\ chan'[want'[d].sub] = "open" /\ want'[d].sub \notin subs'
      BY <2>1, <2>3, <3>1, <3>2
    <3>5. \A d, e \in Callers :
            (d # e /\ want'[d].op = "subscribe" /\ want'[e].op = "subscribe")
              => want'[d].sub # want'[e].sub
      BY <3>4
    <3> QED
      BY <2>2, <3>1, <3>3, <3>4, <3>5
  <2>4. CASE want[c].sub \notin subs
    BY <1>9, <2>1, <2>2, <2>4 DEF CancelLocked
  <2> QED
    BY <2>3, <2>4
<1>10. ASSUME NEW s \in Subs, Receive(s) PROVE LockInv'
  BY <1>10 DEF Receive
<1>11. CASE UNCHANGED brokerVars
  BY <1>11 DEF brokerVars
<1> QED
  BY <1>1, <1>2, <1>3, <1>4, <1>5, <1>6, <1>7, <1>8, <1>9, <1>10, <1>11
  DEF Next, PublishStep, LockStep

\* No interleaving of Publish, Subscribe and cancel makes a send on a closed
\* channel or closes one twice.
THEOREM NeverPanics == Spec => []NoPanic
<1>1. LockInv => NoPanic
  BY DEF LockInv
<1> QED
  BY <1>1, TypeInvInit, TypeInvStep, LockInvInit, LockInvStep, PTL DEF Spec

-----------------------------------------------------------------------------
(* Order *)

\* What the channel of s was given by p is older than p's current call.
Fresh(p, s) ==
  \A i \in 1..Len(accepted[s]) : accepted[s][i].pub = p => accepted[s][i].seq < calls[p]

OrderInv ==
  /\ PublisherOrder
  /\ \A s \in Subs : \A i \in 1..Len(accepted[s]) :
       accepted[s][i].seq <= calls[accepted[s][i].pub]
  /\ \A p \in Publishers : \A s \in Subs :
       (pc[p] = "locking" \/ (pc[p] = "sending" /\ s \in todo[p])) => Fresh(p, s)

LEMMA OrderInvInit == Init => OrderInv
  BY DEF Init, OrderInv, PublisherOrder, Fresh

LEMMA OrderInvStep == TypeInv /\ OrderInv /\ [Next]_brokerVars => OrderInv'
<1> SUFFICES ASSUME TypeInv, OrderInv, [Next]_brokerVars PROVE OrderInv'
  OBVIOUS
<1>e. \A s \in Subs : \A i \in 1..Len(accepted[s]) : accepted[s][i] \in Event
  BY DEF TypeInv, TypeOK
<1> USE DEF OrderInv, PublisherOrder, Fresh
<1>1. ASSUME NEW p \in Publishers, PublishCall(p) PROVE OrderInv'
  <2>1. \A q \in Publishers : calls'[q] = IF q = p THEN calls[p] + 1 ELSE calls[q]
    BY <1>1 DEF PublishCall, TypeInv, TypeOK
  <2>2. \A q \in Publishers : calls[q] \in Nat
    BY DEF TypeInv, TypeOK
  <2>3. \A s \in Subs : \A i \in 1..Len(accepted[s]) :
          /\ accepted[s][i].seq <= calls'[accepted[s][i].pub]
          /\ accepted[s][i].pub = p => accepted[s][i].seq < calls'[p]
    BY <1>e, <2>1, <2>2 DEF Event
  <2>4. \A q \in Publishers : q # p => pc'[q] = pc[q]
    BY <1>1 DEF PublishCall, TypeInv, TypeOK
  <2>5. accepted' = accepted /\ todo' = todo
    BY <1>1 DEF PublishCall
  <2> QED
    BY <2>1, <2>3, <2>4, <2>5
<1>2. ASSUME NEW p \in Publishers, PublishRLock(p) PROVE OrderInv'
  BY <1>2 DEF PublishRLock, TypeInv, TypeOK
<1>3. ASSUME NEW p \in Publishers, NEW s \in Subs, PublishSend(p, s) PROVE OrderInv'
  <2>1. /\ calls' = calls /\ pc' = pc
        /\ todo' = [todo EXCEPT ![p] = todo[p] \ {s}]
    BY <1>3 DEF PublishSend, AfterVisit
  <2>2. \A q \in Publishers : todo'[q] \subseteq todo[q]
    BY <2>1 DEF TypeInv, TypeOK
  <2>3. s \notin todo'[p]
    BY <2>1 DEF TypeInv, TypeOK
  <2>4. CASE accepted' = accepted
    BY <2>1, <2>2, <2>4
  <2>5. CASE accepted' = [accepted EXCEPT ![s] = Append(@, Current(p))]
    <3> DEFINE n == Len(accepted[s])
    <3>1. /\ accepted[s] \in Seq(Event) /\ n \in Nat
          /\ calls[p] > 0 /\ Current(p) \in Event
      BY <1>3, CurrentIsEvent DEF PublishSend, TypeInv, TypeOK
    <3>2. accepted'[s] = Append(accepted[s], Current(p))
      BY <2>5 DEF TypeInv, TypeOK
    <3>3. /\ Len(accepted'[s]) = n + 1
          /\ \A i \in 1..n : accepted'[s][i] = accepted[s][i]
          /\ accepted'[s][n + 1] = Current(p)
      BY <3>1, <3>2
    <3>4. \A t \in Subs : t # s => accepted'[t] = accepted[t]
      BY <2>5 DEF TypeInv, TypeOK
    <3>5. Fresh(p, s)
      BY <1>3 DEF PublishSend
    <3>6. Current(p).pub = p /\ Current(p).seq = calls[p] /\ calls[p] \in Nat
      BY DEF Current, TypeInv, TypeOK
    <3>7. PublisherOrder'
      <4> SUFFICES ASSUME NEW t \in Subs,
                          NEW i \in 1..Len(accepted'[t]), NEW j \in 1..Len(accepted'[t]),
                          i < j, accepted'[t][i].pub = accepted'[t][j].pub
                   PROVE  accepted'[t][i].seq < accepted'[t][j].seq
        OBVIOUS
      <4>1. CASE t # s
        BY <4>1, <3>4
      <4>2. CASE t = s /\ j = n + 1
        <5>1. i \in 1..n
          BY <4>2, <3>1, <3>3
        <5> QED
          BY <4>2, <5>1, <3>3, <3>5, <3>6
      <4>3. CASE t = s /\ j # n + 1
        <5>1. i \in 1..n /\ j \in 1..n
          BY <4>3, <3>1, <3>3
        <5> QED
          BY <4>3, <5>1, <3>3
      <4> QED
        BY <4>1, <4>2, <4>3
    <3>8. \A t \in Subs : \A i \in 1..Len(accepted'[t]) :
            accepted'[t][i].seq <= calls'[accepted'[t][i].pub]
      <4> SUFFICES ASSUME NEW t \in Subs, NEW i \in 1..Len(accepted'[t])
                   PROVE  accepted'[t][i].seq <= calls'[accepted'[t][i].pub]
        OBVIOUS
      <4>1. CASE t # s
        BY <4>1, <3>4, <2>1
      <4>2. CASE t = s /\ i = n + 1
        BY <4>2, <3>3, <3>6, <2>1
      <4>3. CASE t = s /\ i # n + 1
        <5>1. i \in 1..n
          BY <4>3, <3>1, <3>3
        <5> QED
          BY <4>3, <5>1, <3>3, <2>1
      <4> QED
        BY <4>1, <4>2, <4>3
    <3>9. \A q \in Publishers : \A t \in Subs :
            (pc'[q] = "locking" \/ (pc'[q] = "sending" /\ t \in todo'[q])) => Fresh(q, t)'
      <4> SUFFICES ASSUME NEW q \in Publishers, NEW t \in Subs,
                          pc'[q] = "locking" \/ (pc'[q] = "sending" /\ t \in todo'[q]),
                          NEW i \in 1..Len(accepted'[t]), accepted'[t][i].pub = q
                   PROVE  accepted'[t][i].seq < calls'[q]
        OBVIOUS
      <4>1. Fresh(q, t)
        BY <2>1, <2>2
      <4>2. CASE t # s
        BY <4>1, <4>2, <3>4, <2>1
      <4>3. CASE t = s /\ i = n + 1
        <5>1. q = p
          BY <4>3, <3>3, <3>6
        <5>2. pc[p] = "sending"
          BY <1>3 DEF PublishSend
        <5> QED
          BY <4>3, <5>1, <5>2, <2>1, <2>3
      <4>4. CASE t = s /\ i # n + 1
        <5>1. i \in 1..n
          BY <4>4, <3>1, <3>3
        <5> QED
          BY <4>1, <4>4, <5>1, <3>3, <2>1
      <4> QED
        BY <4>2, <4>3, <4>4
    <3> QED
      BY <3>7, <3>8, <3>9
  <2> QED
    BY <1>3, <2>4, <2>5 DEF PublishSend
<1>4. ASSUME NEW p \in Publishers, PublishReturn(p) PROVE OrderInv'
  BY <1>4 DEF PublishReturn, TypeInv, TypeOK
<1>5. ASSUME NEW c \in Callers, NEW s \in Subs, SubscribeCall(c, s) PROVE OrderInv'
  BY <1>5 DEF SubscribeCall
<1>6. ASSUME NEW c \in Callers, NEW s \in Subs, CancelCall(c, s) PROVE OrderInv'
  BY <1>6 DEF CancelCall
<1>7. ASSUME NEW c \in Callers, LockStep(c) PROVE OrderInv'
  BY <1>7 DEF LockStep, LockAnnounce, SubscribeLocked, CancelLocked
<1>8. ASSUME NEW s \in Subs, Receive(s) PROVE OrderInv'
  BY <1>8 DEF Receive
<1>9. CASE UNCHANGED brokerVars
  BY <1>9 DEF brokerVars
<1> QED
  BY <1>1, <1>2, <1>3, <1>4, <1>5, <1>6, <1>7, <1>8, <1>9 DEF Next, PublishStep

\* Every subscriber sees the events of one publisher once each and in the
\* order they were published, whatever was dropped in between.
THEOREM PublisherOrderHolds == Spec => []PublisherOrder
<1>1. OrderInv => PublisherOrder
  BY DEF OrderInv
<1> QED
  BY <1>1, TypeInvInit, TypeInvStep, OrderInvInit, OrderInvStep, PTL DEF Spec

-----------------------------------------------------------------------------
(* Loss *)

LossInv ==
  /\ NoSilentLoss
  /\ \A p \in Publishers : \A s \in due[p] \cap subs :
       (pc[p] = "sending" /\ s \notin todo[p]) => Current(p) \in Given(s) \cup Lost(s)

\* What a channel was given after one more event.
LEMMA GivenAfterAppend ==
  ASSUME NEW q \in Seq(Event), NEW e \in Event
  PROVE  { Append(q, e)[i] : i \in 1..Len(Append(q, e)) }
           = { q[i] : i \in 1..Len(q) } \cup {e}
<1>1. Len(Append(q, e)) = Len(q) + 1 /\ Len(q) \in Nat
  OBVIOUS
<1>2. \A i \in 1..Len(q) : Append(q, e)[i] = q[i]
  OBVIOUS
<1>3. Append(q, e)[Len(q) + 1] = e
  OBVIOUS
<1>4. 1..(Len(q) + 1) = (1..Len(q)) \cup {Len(q) + 1}
  BY <1>1
<1> QED
  BY <1>1, <1>2, <1>3, <1>4

\* One turn of the loop: the channel is given the event or it was full, and
\* nothing it had is forgotten.
LEMMA SendAccounts ==
  ASSUME TypeInv, LockInv, NEW p \in Publishers, NEW s \in Subs, PublishSend(p, s)
  PROVE  /\ Current(p) \in Given(s)' \cup Lost(s)'
         /\ \A t \in Subs : Given(t) \subseteq Given(t)' /\ Lost(t) \subseteq Lost(t)'
<1> USE DEF TypeInv, TypeOK
<1>1. chan[s] = "open"
  BY DEF PublishSend, LockInv
<1>2. accepted[s] \in Seq(Event) /\ Current(p) \in Event
  BY CurrentIsEvent DEF PublishSend
<1>3. CASE Full(s)
  <2>1. accepted' = accepted /\ dropped' = [dropped EXCEPT ![s] = @ \cup {LossNow(p, s)}]
    BY <1>1, <1>3 DEF PublishSend
  <2>2. Lost(s)' = Lost(s) \cup {Current(p)}
    <3>1. dropped'[s] = dropped[s] \cup {LossNow(p, s)} /\ LossNow(p, s).event = Current(p)
      BY <2>1 DEF LossNow
    <3>2. Lost(s)' = {d.event : d \in dropped'[s]}
      BY DEF Lost
    <3> QED
      BY <3>1, <3>2 DEF Lost
  <2>3. \A t \in Subs : t # s => Lost(t)' = Lost(t)
    BY <2>1 DEF Lost
  <2>4. \A t \in Subs : Given(t)' = Given(t)
    BY <2>1 DEF Given
  <2> QED
    BY <2>2, <2>3, <2>4
<1>4. CASE ~Full(s)
  <2>1. accepted' = [accepted EXCEPT ![s] = Append(@, Current(p))] /\ dropped' = dropped
    BY <1>1, <1>4 DEF PublishSend
  <2>2. accepted'[s] = Append(accepted[s], Current(p))
    BY <2>1
  <2>3. Given(s)' = Given(s) \cup {Current(p)}
    <3> DEFINE q == accepted[s]
               e == Current(p)
    <3>1. Given(s)' = { Append(q, e)[i] : i \in 1..Len(Append(q, e)) }
      BY <2>2 DEF Given
    <3>2. { Append(q, e)[i] : i \in 1..Len(Append(q, e)) }
            = { q[i] : i \in 1..Len(q) } \cup {e}
      BY <1>2, GivenAfterAppend
    <3> QED
      BY <3>1, <3>2 DEF Given
  <2>4. \A t \in Subs : t # s => accepted'[t] = accepted[t]
    BY <2>1
  <2>5. \A t \in Subs : t # s => Given(t)' = Given(t)
    BY <2>4 DEF Given
  <2>6. \A t \in Subs : Lost(t)' = Lost(t)
    BY <2>1 DEF Lost
  <2> QED
    BY <2>3, <2>5, <2>6
<1> QED
  BY <1>3, <1>4

LEMMA LossInvInit == Init => LossInv
  BY DEF Init, LossInv, NoSilentLoss

LEMMA LossInvStep == TypeInv /\ LockInv /\ LossInv /\ [Next]_brokerVars => LossInv'
<1> SUFFICES ASSUME TypeInv, LockInv, LossInv, [Next]_brokerVars PROVE LossInv'
  OBVIOUS
<1> USE DEF LossInv, NoSilentLoss
<1>1. ASSUME NEW p \in Publishers, PublishCall(p) PROVE LossInv'
  <2>1. \A q \in Publishers : pc'[q] = "sending"
          => q # p /\ pc[q] = "sending" /\ due'[q] = due[q] /\ calls'[q] = calls[q]
    BY <1>1 DEF PublishCall, TypeInv, TypeOK
  <2> QED
    BY <1>1, <2>1 DEF PublishCall, Current, Given, Lost
<1>2. ASSUME NEW p \in Publishers, PublishRLock(p) PROVE LossInv'
  <2>1. \A q \in Publishers : \A s \in subs :
          (pc'[q] = "sending" /\ s \notin todo'[q]) => pc[q] = "sending" /\ s \notin todo[q]
    BY <1>2 DEF PublishRLock, TypeInv, TypeOK
  <2> QED
    BY <1>2, <2>1 DEF PublishRLock, Current, Given, Lost
<1>3. ASSUME NEW p \in Publishers, NEW s \in Subs, PublishSend(p, s) PROVE LossInv'
  <2>1. /\ Current(p) \in Given(s)' \cup Lost(s)'
        /\ \A t \in Subs : Given(t) \subseteq Given(t)' /\ Lost(t) \subseteq Lost(t)'
    BY <1>3, SendAccounts
  <2>2. /\ subs' = subs /\ due' = due /\ owed' = owed /\ pc' = pc /\ calls' = calls
        /\ \A q \in Publishers : \A t \in Subs :
             t \in todo[q] => t \in todo'[q] \/ (q = p /\ t = s)
    BY <1>3 DEF PublishSend, AfterVisit, TypeInv, TypeOK
  <2>3. NoSilentLoss'
    BY <2>1, <2>2
  <2>4. \A q \in Publishers : \A t \in due'[q] \cap subs' :
          (pc'[q] = "sending" /\ t \notin todo'[q])
            => Current(q)' \in Given(t)' \cup Lost(t)'
    <3> SUFFICES ASSUME NEW q \in Publishers, NEW t \in due[q] \cap subs,
                        pc[q] = "sending", t \notin todo'[q]
                 PROVE  Current(q) \in Given(t)' \cup Lost(t)'
      BY <2>2 DEF Current
    <3>1. t \in Subs
      BY DEF TypeInv, TypeOK
    <3>2. CASE t \in todo[q]
      BY <2>1, <2>2, <3>1, <3>2
    <3>3. CASE t \notin todo[q]
      BY <2>1, <3>1, <3>3
    <3> QED
      BY <3>2, <3>3
  <2> QED
    BY <2>3, <2>4
<1>4. ASSUME NEW p \in Publishers, PublishReturn(p) PROVE LossInv'
  <2>1. \A s \in Subs : s \in due[p] \cap subs => Current(p) \in Given(s) \cup Lost(s)
    BY <1>4 DEF PublishReturn
  <2>2. \A s \in Subs :
          owed'[s] = IF s \in due[p] \cap subs THEN owed[s] \cup {Current(p)} ELSE owed[s]
    BY <1>4 DEF PublishReturn
  <2>3. accepted' = accepted /\ dropped' = dropped
    BY <1>4 DEF PublishReturn
  <2>4. NoSilentLoss'
    BY ZenonT(60), <2>1, <2>2, <2>3 DEF Given, Lost
  <2>5. \A q \in Publishers : pc'[q] = "sending" => q # p /\ pc[q] = "sending"
    BY <1>4 DEF PublishReturn, TypeInv, TypeOK
  <2>6. \A q \in Publishers : q # p => due'[q] = due[q]
    BY <1>4 DEF PublishReturn, TypeInv, TypeOK
  <2>7. subs' = subs /\ todo' = todo /\ calls' = calls
    BY <1>4 DEF PublishReturn
  <2> QED
    BY <2>3, <2>4, <2>5, <2>6, <2>7 DEF Current, Given, Lost
<1>5. ASSUME NEW c \in Callers, NEW s \in Subs, SubscribeCall(c, s) \/ CancelCall(c, s)
      PROVE  LossInv'
  BY <1>5 DEF SubscribeCall, CancelCall, Current, Given, Lost
<1>6. ASSUME NEW c \in Callers, LockAnnounce(c) PROVE LossInv'
  BY <1>6 DEF LockAnnounce, Current, Given, Lost
<1>7. ASSUME NEW c \in Callers, SubscribeLocked(c) \/ CancelLocked(c) PROVE LossInv'
  <2>1. \A p \in Publishers : pc'[p] # "sending"
    BY <1>7 DEF SubscribeLocked, CancelLocked, Readers
  <2>2. accepted' = accepted /\ dropped' = dropped /\ owed' = owed
    BY <1>7 DEF SubscribeLocked, CancelLocked
  <2> QED
    BY <2>1, <2>2 DEF Given, Lost
<1>8. ASSUME NEW s \in Subs, Receive(s) PROVE LossInv'
  BY <1>8 DEF Receive, Current, Given, Lost
<1>9. CASE UNCHANGED brokerVars
  BY <1>9 DEF brokerVars, Current, Given, Lost
<1> QED
  BY <1>1, <1>2, <1>3, <1>4, <1>5, <1>6, <1>7, <1>8, <1>9 DEF Next, PublishStep, LockStep

\* A subscription that stays in the map throughout a call of Publish gets the
\* event or had a full buffer: slow subscribers cost the others nothing.
THEOREM NoSilentLossHolds == Spec => []NoSilentLoss
<1>1. LossInv => NoSilentLoss
  BY DEF LossInv
<1> QED
  BY <1>1, TypeInvInit, TypeInvStep, LockInvInit, LockInvStep, LossInvInit, LossInvStep,
     PTL DEF Spec

-----------------------------------------------------------------------------
(* Where losses are *)

\* What s has lost of p is older than p's current call.
NotYetLost(p, s) ==
  \A d \in dropped[s] : d.event.pub = p => d.event.seq < calls[p]

GapInv ==
  /\ LossNeedsBacklog
  /\ \A s \in Subs : \A d \in dropped[s] :
       d.given <= Len(accepted[s]) /\ d.event.seq <= calls[d.event.pub]
  /\ \A p \in Publishers : \A s \in Subs :
       (pc[p] = "locking" \/ (pc[p] = "sending" /\ s \in todo[p])) => NotYetLost(p, s)

LEMMA GapInvInit == Init => GapInv
  BY DEF Init, GapInv, LossNeedsBacklog, NotYetLost

LEMMA GapInvStep == TypeInv /\ LockInv /\ OrderInv /\ GapInv /\ [Next]_brokerVars => GapInv'
<1> SUFFICES ASSUME TypeInv, LockInv, OrderInv, GapInv, [Next]_brokerVars PROVE GapInv'
  OBVIOUS
<1>t. \A s \in Subs : dropped[s] \subseteq Loss /\ accepted[s] \in Seq(Event) /\ taken[s] \in Nat
  BY DEF TypeInv, TypeOK
<1>d. \A s \in Subs : \A d \in dropped[s] :
        d.event.pub \in Publishers /\ d.event.seq \in Nat /\ d.given \in Nat
  BY <1>t DEF Loss, Event
<1> USE DEF GapInv, LossNeedsBacklog, NotYetLost
<1>1. ASSUME NEW p \in Publishers, PublishCall(p) PROVE GapInv'
  <2>1. \A q \in Publishers : calls[q] \in Nat /\ calls'[q] = IF q = p THEN calls[p] + 1 ELSE calls[q]
    BY <1>1 DEF PublishCall, TypeInv, TypeOK
  <2>2. \A s \in Subs : \A d \in dropped[s] :
          /\ d.event.seq <= calls'[d.event.pub]
          /\ d.event.pub = p => d.event.seq < calls'[p]
    BY <1>d, <2>1
  <2>3. \A q \in Publishers : q # p => pc'[q] = pc[q]
    BY <1>1 DEF PublishCall, TypeInv, TypeOK
  <2>4. accepted' = accepted /\ todo' = todo /\ dropped' = dropped
    BY <1>1 DEF PublishCall
  <2> QED
    BY <2>1, <2>2, <2>3, <2>4
<1>2. ASSUME NEW p \in Publishers, PublishRLock(p) PROVE GapInv'
  BY <1>2 DEF PublishRLock, TypeInv, TypeOK
<1>3. ASSUME NEW p \in Publishers, NEW s \in Subs, PublishSend(p, s) PROVE GapInv'
  <2> DEFINE n == Len(accepted[s])
  <2>1. /\ calls' = calls /\ pc' = pc
        /\ \A q \in Publishers : todo'[q] \subseteq todo[q]
        /\ s \notin todo'[p]
    BY <1>3 DEF PublishSend, AfterVisit, TypeInv, TypeOK
  <2>2. /\ chan[s] = "open" /\ pc[p] = "sending" /\ s \in todo[p]
    BY <1>3 DEF PublishSend, LockInv
  <2>3. n \in Nat /\ calls[p] \in Nat
    BY <1>t DEF TypeInv, TypeOK
  <2>4. Fresh(p, s) /\ NotYetLost(p, s)
    BY <2>2 DEF OrderInv
  <2>5. CASE Full(s)
    <3> DEFINE e == LossNow(p, s)
    <3>1. accepted' = accepted /\ dropped' = [dropped EXCEPT ![s] = @ \cup {e}]
      BY <1>3, <2>2, <2>5 DEF PublishSend
    <3>2. /\ e.event.pub = p /\ e.event.seq = calls[p] /\ e.given = n /\ e.received = taken[s]
      BY DEF LossNow, Current
    <3>3. /\ \A t \in Subs : t # s => dropped'[t] = dropped[t]
          /\ dropped'[s] = dropped[s] \cup {e}
      BY <3>1 DEF TypeInv, TypeOK
    <3>4. e.given - e.received >= (IF BufSize[s] > 0 THEN BufSize[s] ELSE 64)
      BY <2>5, <3>2, BufSizeAssumption DEF Full, Buffered, Capacity, DefaultBufSize
    <3>5. \A i \in 1..n : accepted[s][i].pub = p => i <= e.given /\ accepted[s][i].seq < calls[p]
      BY <2>4, <3>2 DEF Fresh
    <3>6. LossNeedsBacklog'
      <4> HIDE DEF e
      <4> QED
        BY <3>1, <3>2, <3>3, <3>4, <3>5
    <3>7. \A q \in Publishers : \A t \in Subs :
            (pc'[q] = "locking" \/ (pc'[q] = "sending" /\ t \in todo'[q])) => NotYetLost(q, t)'
      <4> HIDE DEF e
      <4> SUFFICES ASSUME NEW q \in Publishers, NEW t \in Subs,
                          pc'[q] = "locking" \/ (pc'[q] = "sending" /\ t \in todo'[q]),
                          NEW d \in dropped'[t], d.event.pub = q
                   PROVE  d.event.seq < calls'[q]
        OBVIOUS
      <4>1. CASE d \in dropped[t]
        BY <2>1, <4>1
      <4>2. CASE d \notin dropped[t]
        <5>1. t = s /\ d = e
          BY <3>3, <4>2
        <5>2. q = p
          BY <3>2, <5>1
        <5> QED
          BY <2>1, <2>2, <5>1, <5>2
      <4> QED
        BY <4>1, <4>2
    <3>8. \A t \in Subs : \A d \in dropped'[t] :
            d.given <= Len(accepted'[t]) /\ d.event.seq <= calls'[d.event.pub]
      <4> HIDE DEF e
      <4> QED
        BY <2>1, <2>3, <3>1, <3>2, <3>3
    <3> QED
      BY <3>6, <3>7, <3>8
  <2>6. CASE ~Full(s)
    <3>1. accepted' = [accepted EXCEPT ![s] = Append(@, Current(p))] /\ dropped' = dropped
      BY <1>3, <2>2, <2>6 DEF PublishSend
    <3>2. /\ \A t \in Subs : t # s => accepted'[t] = accepted[t]
          /\ accepted'[s] = Append(accepted[s], Current(p))
      BY <3>1 DEF TypeInv, TypeOK
    <3>3. /\ Len(accepted'[s]) = n + 1
          /\ \A i \in 1..n : accepted'[s][i] = accepted[s][i]
          /\ accepted'[s][n + 1].pub = p /\ accepted'[s][n + 1].seq = calls[p]
      BY <1>t, <2>3, <3>2 DEF Current
    <3>4. \A d \in dropped[s] : d.given <= n /\ d.given \in Nat
      BY <1>d
    <3>5. LossNeedsBacklog'
      <4> SUFFICES ASSUME NEW t \in Subs, NEW d \in dropped[t]
                   PROVE  /\ d.given - d.received >= (IF BufSize[t] > 0 THEN BufSize[t] ELSE 64)
                          /\ \A i \in 1..Len(accepted'[t]) : accepted'[t][i].pub = d.event.pub =>
                               IF i <= d.given THEN accepted'[t][i].seq < d.event.seq
                                               ELSE accepted'[t][i].seq > d.event.seq
        BY <3>1
      <4>1. CASE t # s
        BY <3>2, <4>1
      <4>2. ASSUME t = s, NEW i \in 1..(n + 1), accepted'[s][i].pub = d.event.pub
            PROVE  IF i <= d.given THEN accepted'[s][i].seq < d.event.seq
                                   ELSE accepted'[s][i].seq > d.event.seq
        <5>1. CASE i \in 1..n
          BY <3>3, <4>2, <5>1
        <5>2. CASE i = n + 1
          <6>1. ~(i <= d.given) /\ d.event.pub = p /\ accepted'[s][i].seq = calls[p]
            BY <2>3, <3>3, <3>4, <4>2, <5>2
          <6>2. d.event.seq < calls[p]
            BY <2>4, <4>2, <6>1
          <6> QED
            BY <1>d, <2>3, <4>2, <6>1, <6>2
        <5> QED
          BY <2>3, <5>1, <5>2
      <4> QED
        BY <3>3, <4>1, <4>2
    <3>6. \A t \in Subs : Len(accepted'[t]) >= Len(accepted[t]) /\ Len(accepted[t]) \in Nat
                          /\ Len(accepted'[t]) \in Nat
      <4> SUFFICES ASSUME NEW t \in Subs
                   PROVE  Len(accepted'[t]) >= Len(accepted[t]) /\ Len(accepted[t]) \in Nat
                          /\ Len(accepted'[t]) \in Nat
        OBVIOUS
      <4> QED
        BY <1>t, <2>3, <3>2, <3>3
    <3>7. \A t \in Subs : \A d \in dropped'[t] :
            d.given <= Len(accepted'[t]) /\ d.event.seq <= calls'[d.event.pub]
      BY <1>d, <2>1, <3>1, <3>6
    <3> QED
      BY <2>1, <3>1, <3>5, <3>7
  <2> QED
    BY <2>5, <2>6
<1>4. ASSUME NEW p \in Publishers, PublishReturn(p) PROVE GapInv'
  BY <1>4 DEF PublishReturn, TypeInv, TypeOK
<1>5. ASSUME NEW c \in Callers, NEW s \in Subs, SubscribeCall(c, s) PROVE GapInv'
  BY <1>5 DEF SubscribeCall
<1>6. ASSUME NEW c \in Callers, NEW s \in Subs, CancelCall(c, s) PROVE GapInv'
  BY <1>6 DEF CancelCall
<1>7. ASSUME NEW c \in Callers, LockStep(c) PROVE GapInv'
  BY <1>7 DEF LockStep, LockAnnounce, SubscribeLocked, CancelLocked
<1>8. ASSUME NEW s \in Subs, Receive(s) PROVE GapInv'
  BY <1>8 DEF Receive
<1>9. CASE UNCHANGED brokerVars
  BY <1>9 DEF brokerVars
<1> QED
  BY <1>1, <1>2, <1>3, <1>4, <1>5, <1>6, <1>7, <1>8, <1>9 DEF Next, PublishStep

\* An event is lost to a subscription only while it has a whole buffer of others
\* to receive, and is missing in its place: what that publisher gave before it is
\* older and what it gives after it is newer.
THEOREM LossNeedsBacklogHolds == Spec => []LossNeedsBacklog
<1>1. GapInv => LossNeedsBacklog
  BY DEF GapInv
<1> QED
  BY <1>1, TypeInvInit, TypeInvStep, LockInvInit, LockInvStep, OrderInvInit, OrderInvStep,
     GapInvInit, GapInvStep, PTL DEF Spec

-----------------------------------------------------------------------------
(* Refinement *)

LEMMA RefinementInit == Init => Fanout!AbsInit
  BY DEF Init, Fanout!AbsInit, Membership

\* A step that changes nothing the abstraction sees.
LEMMA SameMembership ==
  ASSUME subs' = subs, chan' = chan, calls' = calls, accepted' = accepted
  PROVE  UNCHANGED Fanout!absVars
  BY DEF Fanout!absVars, Membership

\* Every step of the broker is a step of the fan-out, or changes nothing that
\* the fan-out knows of: the first turn of a loop at s gives s the event.
LEMMA RefinementStep ==
  TypeInv /\ LockInv /\ OrderInv /\ [Next]_brokerVars => [Fanout!AbsNext]_(Fanout!absVars)
<1> SUFFICES ASSUME TypeInv, LockInv, OrderInv, [Next]_brokerVars
             PROVE  [Fanout!AbsNext]_(Fanout!absVars)
  OBVIOUS
<1> DEFINE member == [s \in Subs |-> Membership(s)]
<1>1. ASSUME NEW p \in Publishers, PublishCall(p) PROVE Fanout!Issue(p)
  <2>1. calls' = [calls EXCEPT ![p] = @ + 1] /\ accepted' = accepted
    BY <1>1 DEF PublishCall
  <2>2. member' = member
    BY <1>1 DEF PublishCall, Membership
  <2> QED
    BY <2>1, <2>2 DEF Fanout!Issue
<1>2. ASSUME NEW p \in Publishers, PublishRLock(p) \/ PublishReturn(p)
      PROVE  UNCHANGED Fanout!absVars
  BY <1>2, SameMembership DEF PublishRLock, PublishReturn
<1>3. ASSUME NEW p \in Publishers, NEW s \in Subs, PublishSend(p, s)
      PROVE  Fanout!Give(p, s) \/ UNCHANGED Fanout!absVars
  <2>1. /\ subs' = subs /\ chan' = chan /\ calls' = calls
        /\ s \in subs
    BY <1>3 DEF PublishSend, LockInv
  <2>2. CASE accepted' = accepted
    BY <2>1, <2>2, SameMembership
  <2>3. CASE accepted' = [accepted EXCEPT ![s] = Append(@, Current(p))]
    <3>1. member' = member
      BY <2>1 DEF Membership
    <3>2. member[s] = "in"
      BY <2>1 DEF Membership
    <3>3. calls[p] > 0
      BY <1>3 DEF PublishSend, TypeInv
    <3>4. Fresh(p, s)
      BY <1>3 DEF PublishSend, OrderInv
    <3>5. accepted' = [accepted EXCEPT ![s] = Append(@, [pub |-> p, seq |-> calls[p]])]
      BY <2>3 DEF Current
    <3> QED
      BY <2>1, <3>1, <3>2, <3>3, <3>4, <3>5 DEF Fanout!Give, Fresh
  <2> QED
    BY <1>3, <2>2, <2>3 DEF PublishSend
<1>4. ASSUME NEW c \in Callers, NEW s \in Subs, SubscribeCall(c, s)
      PROVE  UNCHANGED Fanout!absVars
  <2>1. /\ chan' = [chan EXCEPT ![s] = "open"] /\ chan[s] = "none"
        /\ subs' = subs /\ calls' = calls /\ accepted' = accepted
    BY <1>4 DEF SubscribeCall
  <2>2. \A t \in Subs : (chan'[t] = "closed") <=> (chan[t] = "closed")
    BY <2>1 DEF TypeInv, TypeOK
  <2>3. member' = member
    BY <2>1, <2>2 DEF Membership
  <2> QED
    BY <2>1, <2>3 DEF Fanout!absVars
<1>5. ASSUME NEW c \in Callers, NEW s \in Subs, CancelCall(c, s)
      PROVE  UNCHANGED Fanout!absVars
  BY <1>5, SameMembership DEF CancelCall
<1>6. ASSUME NEW c \in Callers, LockAnnounce(c)
      PROVE  UNCHANGED Fanout!absVars
  BY <1>6, SameMembership DEF LockAnnounce
<1>7. ASSUME NEW c \in Callers, SubscribeLocked(c)
      PROVE  Fanout!Join(want[c].sub) /\ want[c].sub \in Subs
  <2> DEFINE s == want[c].sub
  <2>1. s \in Subs
    BY <1>7 DEF SubscribeLocked, TypeInv, TypeOK, Call, NoCall
  <2>2. s \notin subs /\ chan[s] = "open"
    BY <1>7 DEF SubscribeLocked, LockInv
  <2>3. subs' = subs \cup {s} /\ chan' = chan /\ calls' = calls /\ accepted' = accepted
    BY <1>7 DEF SubscribeLocked
  <2>4. member[s] = "out"
    BY <2>1, <2>2 DEF Membership
  <2>5. member' = [member EXCEPT ![s] = "in"]
    BY <2>1, <2>3 DEF Membership
  <2> QED
    BY <2>1, <2>3, <2>4, <2>5 DEF Fanout!Join
<1>8. ASSUME NEW c \in Callers, CancelLocked(c)
      PROVE  \/ UNCHANGED Fanout!absVars
             \/ Fanout!Leave(want[c].sub) /\ want[c].sub \in Subs
  <2> DEFINE s == want[c].sub
  <2>1. calls' = calls /\ accepted' = accepted
    BY <1>8 DEF CancelLocked
  <2>2. CASE s \notin subs
    BY <1>8, <2>1, <2>2, SameMembership DEF CancelLocked
  <2>3. CASE s \in subs
    <3>1. s \in Subs
      BY <2>3 DEF TypeInv, TypeOK
    <3>2. subs' = subs \ {s} /\ chan' = [chan EXCEPT ![s] = "closed"]
      BY <1>8, <2>3 DEF CancelLocked
    <3>3. member[s] = "in"
      BY <2>3, <3>1 DEF Membership
    <3>4. member' = [member EXCEPT ![s] = "gone"]
      <4>1. chan'[s] = "closed" /\ \A t \in Subs : t # s => chan'[t] = chan[t]
        BY <3>1, <3>2 DEF TypeInv, TypeOK
      <4> QED
        BY <3>1, <3>2, <4>1 DEF Membership
    <3> QED
      BY <2>1, <3>1, <3>3, <3>4 DEF Fanout!Leave
  <2> QED
    BY <2>2, <2>3
<1>9. ASSUME NEW s \in Subs, Receive(s)
      PROVE  UNCHANGED Fanout!absVars
  BY <1>9, SameMembership DEF Receive
<1>10. CASE UNCHANGED brokerVars
  BY <1>10, SameMembership DEF brokerVars
<1> QED
  BY <1>1, <1>2, <1>3, <1>4, <1>5, <1>6, <1>7, <1>8, <1>9, <1>10
  DEF Next, PublishStep, LockStep, Fanout!AbsNext

\* The broker implements the lossy fan-out: the lock, the loop and the
\* channels are not visible in what subscribers may observe.
THEOREM BrokerImplementsFanout == Spec => ImplementsFanout
  BY RefinementInit, RefinementStep, TypeInvInit, TypeInvStep, LockInvInit, LockInvStep,
     OrderInvInit, OrderInvStep, PTL DEF Spec, ImplementsFanout, Fanout!AbsSpec

-----------------------------------------------------------------------------
(* Why the lock is free in the end *)

\* The turns of their loops that the readers still have to make.
Ahead == { v \in Publishers \X Subs : pc[v[1]] = "sending" /\ v[2] \in todo[v[1]] }

FiniteInv == IsFiniteSet(subs) /\ IsFiniteSet(Readers)

LEMMA FiniteInvInit == Init => FiniteInv
<1> SUFFICES ASSUME Init PROVE FiniteInv
  OBVIOUS
<1>1. subs = {} /\ Readers = {}
  BY DEF Init, Readers
<1> QED
  BY <1>1, FS_EmptySet DEF FiniteInv

LEMMA FiniteInvStep == TypeInv /\ FiniteInv /\ [Next]_brokerVars => FiniteInv'
<1> SUFFICES ASSUME TypeInv, FiniteInv, [Next]_brokerVars PROVE FiniteInv'
  OBVIOUS
<1>1. \E x : subs' \subseteq subs \cup {x}
  <2>1. ASSUME NEW c \in Callers, SubscribeLocked(c) PROVE subs' = subs \cup {want[c].sub}
    BY <2>1 DEF SubscribeLocked
  <2>2. ASSUME NEW c \in Callers, CancelLocked(c) PROVE subs' \subseteq subs
    BY <2>2 DEF CancelLocked
  <2> QED
    BY <2>1, <2>2 DEF Next, PublishStep, LockStep, PublishCall, PublishRLock, PublishSend,
       PublishReturn, SubscribeCall, CancelCall, LockAnnounce, Receive, brokerVars
<1>2. \E x : Readers' \subseteq Readers \cup {x}
  <2>1. ASSUME NEW p \in Publishers, UNCHANGED pc \/ PublishCall(p) \/ PublishStep(p)
        PROVE  Readers' \subseteq Readers \cup {p}
    BY <2>1 DEF PublishCall, PublishStep, PublishRLock, PublishSend, PublishReturn, Readers,
       TypeInv, TypeOK
  <2>2. ASSUME UNCHANGED pc PROVE Readers' = Readers
    BY <2>2 DEF Readers
  <2> QED
    BY <2>1, <2>2 DEF Next, LockStep, SubscribeCall, CancelCall, LockAnnounce, SubscribeLocked,
       CancelLocked, Receive, brokerVars
<1>3. IsFiniteSet(subs')
  <2> PICK x : subs' \subseteq subs \cup {x}
    BY <1>1
  <2>1. IsFiniteSet(subs \cup {x})
    BY FS_AddElement DEF FiniteInv
  <2> QED
    BY <2>1, FS_Subset
<1>4. IsFiniteSet(Readers')
  <2> PICK x : Readers' \subseteq Readers \cup {x}
    BY <1>2
  <2>1. IsFiniteSet(Readers \cup {x})
    BY FS_AddElement DEF FiniteInv
  <2> QED
    BY <2>1, FS_Subset
<1> QED
  BY <1>3, <1>4 DEF FiniteInv

LEMMA AheadFinite ==
  ASSUME TypeInv, LockInv, FiniteInv
  PROVE  IsFiniteSet(Ahead)
<1>1. Ahead \subseteq Readers \X subs
  BY DEF Ahead, Readers, LockInv, TypeInv, TypeOK
<1>2. IsFiniteSet(Readers \X subs)
  BY FS_Product DEF FiniteInv
<1> QED
  BY <1>1, <1>2, FS_Subset

\* Once a writer has announced itself nobody joins the readers, and each step of
\* a reader brings it nearer to the end of its loop, over a map that stays as it is.
WaitShrinks ==
  /\ writer # Nobody => Readers' \subseteq Readers /\ Ahead' \subseteq Ahead
  /\ \A p \in Readers :
       /\ subs' = subs
       /\ PublishStep(p) => Readers' # Readers \/ Ahead' # Ahead

LEMMA StepShrinksWait ==
  ASSUME TypeInv, LockInv, [Next]_brokerVars
  PROVE  WaitShrinks
<1>1. ASSUME NEW p \in Publishers, pc[p] = "sending", PublishReturn(p)
      PROVE  /\ Readers' \subseteq Readers /\ Ahead' \subseteq Ahead /\ subs' = subs
             /\ Readers' # Readers
  <2>1. /\ pc'[p] = "idle" /\ \A q \in Publishers \ {p} : pc'[q] = pc[q]
        /\ todo' = todo /\ subs' = subs
    BY <1>1 DEF PublishReturn, TypeInv, TypeOK
  <2> QED
    BY <1>1, <2>1 DEF Readers, Ahead
<1>2. ASSUME NEW p \in Publishers, NEW s \in Subs, PublishSend(p, s)
      PROVE  /\ Readers' = Readers /\ Ahead' \subseteq Ahead /\ subs' = subs
             /\ Ahead' # Ahead
  <2>1. /\ pc' = pc /\ subs' = subs /\ todo'[p] = todo[p] \ {s} /\ s \in todo[p] /\ pc[p] = "sending"
        /\ \A q \in Publishers \ {p} : todo'[q] = todo[q]
    BY <1>2 DEF PublishSend, AfterVisit, TypeInv, TypeOK
  <2>2. <<p, s>> \in Ahead /\ <<p, s>> \notin Ahead'
    BY <2>1 DEF Ahead
  <2> QED
    BY <2>1, <2>2 DEF Readers, Ahead
<1>3. ASSUME NEW p \in Publishers, PublishCall(p)
      PROVE  Readers' = Readers /\ Ahead' = Ahead /\ subs' = subs
  <2>1. /\ pc[p] = "idle" /\ pc'[p] = "locking" /\ todo' = todo /\ subs' = subs
        /\ \A q \in Publishers \ {p} : pc'[q] = pc[q]
    BY <1>3 DEF PublishCall, TypeInv, TypeOK
  <2> QED
    BY <2>1 DEF Readers, Ahead
<1>4. ASSUME NEW p \in Publishers, PublishRLock(p) PROVE writer = Nobody /\ pc[p] = "locking" /\ subs' = subs
  BY <1>4 DEF PublishRLock
<1>5. ASSUME NEW c \in Callers, LockStep(c)
      PROVE  Readers' = Readers /\ Ahead' = Ahead /\ (Readers # {} => subs' = subs)
  BY <1>5 DEF LockStep, LockAnnounce, SubscribeLocked, CancelLocked, Readers, Ahead
<1>6. ASSUME \/ \E s \in Subs : Receive(s)
             \/ \E c \in Callers, s \in Subs : SubscribeCall(c, s) \/ CancelCall(c, s)
             \/ UNCHANGED brokerVars
      PROVE  Readers' = Readers /\ Ahead' = Ahead /\ subs' = subs
  <2>1. UNCHANGED <<pc, todo, subs>>
    BY <1>6 DEF Receive, SubscribeCall, CancelCall, brokerVars
  <2> QED
    BY <2>1 DEF Readers, Ahead
<1>7. writer # Nobody => Readers' \subseteq Readers /\ Ahead' \subseteq Ahead
  BY <1>1, <1>2, <1>3, <1>4, <1>5, <1>6 DEF Next, PublishStep, PublishReturn
<1>8. ASSUME NEW p \in Readers
      PROVE  /\ subs' = subs
             /\ PublishStep(p) => Readers' # Readers \/ Ahead' # Ahead
  <2>1. p \in Publishers /\ pc[p] = "sending"
    BY DEF Readers
  <2>2. subs' = subs
    BY <1>1, <1>2, <1>3, <1>4, <1>5, <1>6, <2>1 DEF Next, PublishStep, PublishReturn
  <2>3. PublishStep(p) => Readers' # Readers \/ Ahead' # Ahead
    BY <1>1, <1>2, <1>4, <2>1 DEF PublishStep
  <2> QED
    BY <2>2, <2>3
<1> QED
  BY <1>7, <1>8 DEF WaitShrinks

\* What makes CallsReturn true: a Subscribe or cancel that has announced itself
\* waits for finitely many turns of the loops that are under way and for nothing
\* else; publishers that come later, and subscribers that do not receive, add none.
THEOREM WritersWaitRunsOut ==
  Spec => [][IsFiniteSet(Readers) /\ IsFiniteSet(Ahead) /\ WaitShrinks]_brokerVars
<1> DEFINE Inv == TypeInv /\ LockInv /\ FiniteInv
<1>1. Init => Inv
  BY TypeInvInit, LockInvInit, FiniteInvInit
<1>2. Inv /\ [Next]_brokerVars => Inv'
  BY TypeInvStep, LockInvStep, FiniteInvStep
<1>3. Inv /\ [Next]_brokerVars
        => [IsFiniteSet(Readers) /\ IsFiniteSet(Ahead) /\ WaitShrinks]_brokerVars
  BY AheadFinite, StepShrinksWait DEF FiniteInv
<1> QED
  BY <1>1, <1>2, <1>3, PTL DEF Spec
=============================================================================
