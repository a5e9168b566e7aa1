------------------------- MODULE EventStreamProofs -------------------------
(***************************************************************************)
(* Proofs about EventStream, for any handlers, requests, publishers and    *)
(* classes of events.  What AuditBrokerProofs shows of the broker is used  *)
(* here for the broker inside EventStream (BrokerInv): every step of the   *)
(* composition is a step of the broker or leaves it alone.  On top of it   *)
(* stand where a handler is and what it then holds (SourceInv), and what   *)
(* it has sent of what it took (ForwardInv).                               *)
(* Last, the two joined: what a client sees of a publisher, and that the   *)
(* composition is still the lossy fan-out.                                 *)
(***************************************************************************)
EXTENDS EventStream, TLAPS

BrokerProofs == INSTANCE AuditBrokerProofs
                  WITH Callers <- Handlers, Subs <- Handlers,
                       BufSize <- [h \in Handlers |-> 0]

-----------------------------------------------------------------------------
(* The broker in the composition *)

BrokerInv == BrokerProofs!TypeInv /\ BrokerProofs!LockInv

LEMMA NoSizeIsGiven == [h \in Handlers |-> 0] \in [Handlers -> Int]
  OBVIOUS

\* What the handlers rely on.
BrokerShape ==
  /\ subs \subseteq Handlers
  /\ chan \in [Handlers -> {"none", "open", "closed"}]
  /\ accepted \in [Handlers -> Seq(Broker!Event)]
  /\ taken \in [Handlers -> Nat]
  /\ \A h \in Handlers : taken[h] <= Len(accepted[h])
  /\ want \in [Handlers -> Broker!Call \cup {Broker!NoCall}]
  /\ \A h \in subs : chan[h] = "open"

LEMMA BrokerInvShape == BrokerInv => BrokerShape
<1> SUFFICES ASSUME BrokerInv PROVE BrokerShape
  OBVIOUS
<1> USE DEF BrokerInv, BrokerProofs!TypeInv, BrokerProofs!TypeOK
<1>1. /\ subs \subseteq Handlers
      /\ chan \in [Handlers -> {"none", "open", "closed"}]
      /\ accepted \in [Handlers -> Seq(Broker!Event)]
      /\ taken \in [Handlers -> Nat]
      /\ want \in [Handlers -> Broker!Call \cup {Broker!NoCall}]
  BY DEF Broker!Event, BrokerProofs!Event, Broker!Call, BrokerProofs!Call,
         Broker!NoCall, BrokerProofs!NoCall
<1>2. \A h \in subs : chan[h] = "open"
  BY DEF BrokerProofs!LockInv
<1>3. \A h \in Handlers : taken[h] <= Len(accepted[h])
  <2> SUFFICES ASSUME NEW h \in Handlers PROVE taken[h] <= Len(accepted[h])
    OBVIOUS
  <2>1. Len(accepted[h]) \in Nat /\ taken[h] \in Nat
    BY <1>1
  <2>2. BrokerProofs!Buffered(h) >= 0
    BY BrokerProofs!CapacityPositive, NoSizeIsGiven, BrokerAssumption
  <2> QED
    BY <2>1, <2>2 DEF BrokerProofs!Buffered
<1> QED
  BY <1>1, <1>2, <1>3 DEF BrokerShape

LEMMA BrokerInvInit == Broker!Init => BrokerInv
<1>1. Broker!Init => BrokerProofs!Init
  BY DEF Broker!Init, BrokerProofs!Init, Broker!NoCall, BrokerProofs!NoCall
<1>2. BrokerProofs!Init => BrokerInv
  BY BrokerAssumption, NoSizeIsGiven, BrokerProofs!TypeInvInit, BrokerProofs!LockInvInit
  DEF BrokerInv
<1> QED
  BY <1>1, <1>2

\* Every step is a step of the broker or leaves it alone.
LEMMA StepsOfBroker == [Next]_vars => [BrokerProofs!Next]_(BrokerProofs!brokerVars)
<1> SUFFICES ASSUME [Next]_vars PROVE [BrokerProofs!Next]_(BrokerProofs!brokerVars)
  OBVIOUS
<1> USE DEF BrokerProofs!Next, BrokerProofs!PublishStep, BrokerProofs!LockStep
<1>1. ASSUME NEW p \in Publishers, Publish(p) PROVE BrokerProofs!Next
  BY <1>1 DEF Publish, Broker!PublishCall, BrokerProofs!PublishCall
<1>2. ASSUME NEW p \in Publishers, PublishStep(p) PROVE BrokerProofs!Next
  <2>1. CASE Broker!PublishRLock(p)
    BY <2>1 DEF Broker!PublishRLock, BrokerProofs!PublishRLock
  <2>2. ASSUME NEW s \in Handlers, Broker!PublishSend(p, s) PROVE BrokerProofs!PublishSend(p, s)
    BY <2>2 DEF Broker!PublishSend, BrokerProofs!PublishSend, Broker!AfterVisit,
       BrokerProofs!AfterVisit, Broker!Full, BrokerProofs!Full, Broker!Buffered,
       BrokerProofs!Buffered, Broker!Capacity, BrokerProofs!Capacity, Broker!LossNow,
       BrokerProofs!LossNow, Broker!DefaultBufSize,
       BrokerProofs!DefaultBufSize, Broker!Current, BrokerProofs!Current
  <2>3. CASE Broker!PublishReturn(p)
    BY <2>3 DEF Broker!PublishReturn, BrokerProofs!PublishReturn, Broker!Current,
       BrokerProofs!Current
  <2> QED
    BY <1>2, <2>1, <2>2, <2>3 DEF PublishStep, Broker!PublishStep
<1>3. ASSUME NEW h \in Handlers, LockAnnounce(h) PROVE BrokerProofs!Next
  BY <1>3 DEF LockAnnounce, Broker!LockAnnounce, BrokerProofs!LockAnnounce, Broker!NoCall,
     BrokerProofs!NoCall
<1>4. ASSUME NEW h \in Handlers, NEW r \in Requests, Open(h, r)
      PROVE  BrokerProofs!Next \/ UNCHANGED brokerVars
  BY <1>4 DEF Open, Broker!SubscribeCall, BrokerProofs!SubscribeCall, Broker!NoCall,
     BrokerProofs!NoCall
<1>5. ASSUME NEW h \in Handlers, Subscribed(h) PROVE BrokerProofs!Next
  BY <1>5 DEF Subscribed, Broker!SubscribeLocked, BrokerProofs!SubscribeLocked, Broker!NoCall,
     BrokerProofs!NoCall, Broker!Readers, BrokerProofs!Readers
<1>6. ASSUME NEW h \in Handlers, Return(h) PROVE BrokerProofs!Next \/ UNCHANGED brokerVars
  BY <1>6 DEF Return, Broker!CancelCall, BrokerProofs!CancelCall, Broker!NoCall,
     BrokerProofs!NoCall
<1>7. ASSUME NEW h \in Handlers, Canceled(h) PROVE BrokerProofs!Next
  BY <1>7 DEF Canceled, Broker!CancelLocked, BrokerProofs!CancelLocked, Broker!NoCall,
     BrokerProofs!NoCall, Broker!Readers, BrokerProofs!Readers
<1>8. ASSUME NEW h \in Handlers, SelectAudit(h) PROVE BrokerProofs!Next
  BY <1>8 DEF SelectAudit, Broker!Receive, BrokerProofs!Receive, Broker!Buffered,
     BrokerProofs!Buffered
<1>9. ASSUME NEW h \in Handlers,
             \/ SelectCtxDone(h) \/ SelectK8sClosed(h) \/ SendEnds(h)
             \/ ClientCancels(h) \/ WatchCloses(h)
             \/ \E obj \in EventClass \cup {Bookmark} : SelectK8sEvent(h, obj)
             \/ \E r \in Requests : OpenFails(h, r)
      PROVE  UNCHANGED brokerVars
  BY <1>9 DEF SelectCtxDone, SelectK8sClosed, SendEnds, SendReturns, SendFails, ClientCancels,
     WatchCloses, SelectK8sEvent, OpenFails
<1>10. UNCHANGED vars => UNCHANGED brokerVars
  BY DEF vars
<1>11. UNCHANGED brokerVars => UNCHANGED BrokerProofs!brokerVars
  BY DEF brokerVars, BrokerProofs!brokerVars
<1> QED
  BY <1>1, <1>2, <1>3, <1>4, <1>5, <1>6, <1>7, <1>8, <1>9, <1>10, <1>11 DEF Next, HandlerStep

LEMMA BrokerInvStep == BrokerInv /\ [Next]_vars => BrokerInv'
<1>1. BrokerInv /\ [BrokerProofs!Next]_(BrokerProofs!brokerVars) => BrokerInv'
  BY BrokerAssumption, NoSizeIsGiven, BrokerProofs!TypeInvStep, BrokerProofs!LockInvStep
  DEF BrokerInv
<1> QED
  BY <1>1, StepsOfBroker

\* Publishers only add to what a channel has been given.
Grows(h) ==
  /\ Len(accepted'[h]) >= Len(accepted[h])
  /\ \A k \in 1..Len(accepted[h]) : accepted'[h][k] = accepted[h][k]

LEMMA PublishersOnlyAdd ==
  ASSUME BrokerInv, NEW p \in Publishers, Publish(p) \/ PublishStep(p)
  PROVE  /\ UNCHANGED <<subs, chan, taken, want, handlerVars>>
         /\ \A h \in Handlers : Grows(h) /\ (chan[h] = "none" => accepted'[h] = accepted[h])
<1>0. \A h \in Handlers : accepted[h] \in Seq(Broker!Event)
  BY BrokerInvShape DEF BrokerShape
<1>1. CASE Publish(p)
  BY <1>0, <1>1 DEF Publish, Broker!PublishCall, Grows
<1>2. CASE PublishStep(p)
  <2>1. CASE Broker!PublishRLock(p) \/ Broker!PublishReturn(p)
    BY <1>0, <1>2, <2>1 DEF PublishStep, Broker!PublishRLock, Broker!PublishReturn, Grows
  <2>2. ASSUME NEW s \in Handlers, Broker!PublishSend(p, s)
        PROVE  /\ UNCHANGED <<subs, chan, taken, want>>
               /\ \A h \in Handlers : Grows(h) /\ (chan[h] = "none" => accepted'[h] = accepted[h])
    <3>1. \/ accepted' = accepted
          \/ chan[s] = "open" /\ accepted' = [accepted EXCEPT ![s] = Append(@, Broker!Current(p))]
      BY <2>2 DEF Broker!PublishSend
    <3>2. Broker!Current(p) \in Broker!Event
      <4>1. BrokerProofs!Current(p) \in BrokerProofs!Event
        <5>1. calls[p] > 0
          BY <2>2 DEF Broker!PublishSend, BrokerInv, BrokerProofs!TypeInv
        <5> QED
          BY <5>1 DEF BrokerInv, BrokerProofs!TypeInv, BrokerProofs!TypeOK, BrokerProofs!Current,
             BrokerProofs!Event
      <4> QED
        BY <4>1 DEF Broker!Current, BrokerProofs!Current, Broker!Event, BrokerProofs!Event
    <3>3. accepted \in [Handlers -> Seq(Broker!Event)]
      BY BrokerInvShape DEF BrokerShape
    <3>4. \A h \in Handlers : Grows(h)
      <4> SUFFICES ASSUME NEW h \in Handlers PROVE Grows(h)
        OBVIOUS
      <4>1. accepted[h] \in Seq(Broker!Event)
        BY <3>3
      <4>2. accepted'[h] \in {accepted[h], Append(accepted[h], Broker!Current(p))}
        BY <3>1, <3>3
      <4>3. CASE accepted'[h] = accepted[h]
        BY <4>1, <4>3 DEF Grows
      <4>4. CASE accepted'[h] = Append(accepted[h], Broker!Current(p))
        BY <4>1, <4>4, <3>2 DEF Grows
      <4> QED
        BY <4>2, <4>3, <4>4
    <3> QED
      BY <2>2, <3>1, <3>4 DEF Broker!PublishSend
  <2> QED
    BY <1>2, <2>1, <2>2 DEF PublishStep, Broker!PublishStep
<1> QED
  BY <1>1, <1>2

-----------------------------------------------------------------------------
(* Where a handler is, and what it then holds *)

HandlerTypes ==
  /\ hpc \in [Handlers -> {"idle", "subscribing", "select", "sending", "returning", "canceling",
                        "done"}]
  /\ req \in [Handlers -> Requests \cup {NoRequest}]
  /\ k8sCh \in [Handlers -> {"nil", "open", "closed"}]
  /\ auditCh \in [Handlers -> {"nil", "open"}]

\* No call is under way, and the channel is the broker's.
Subscribes(h) == want[h] = Broker!NoCall /\ h \in subs

\* No call is under way, and there is nothing to cancel.
Unsubscribed(h) == want[h] = Broker!NoCall /\ h \notin subs /\ chan[h] = "none"

SourceOf(h) ==
  /\ k8sCh[h] # "nil" => WantsK8s(req[h])
  /\ hpc[h] = "idle" => Unsubscribed(h) /\ k8sCh[h] = "nil" /\ auditCh[h] = "nil"
  /\ hpc[h] = "subscribing" =>
       /\ WantsAudit(req[h]) /\ auditCh[h] = "nil"
       /\ want[h] = [op |-> "subscribe", sub |-> h]
  /\ hpc[h] \in {"select", "sending", "returning"} =>
       IF WantsAudit(req[h]) THEN auditCh[h] = "open" /\ Subscribes(h)
                             ELSE auditCh[h] = "nil" /\ Unsubscribed(h)
  /\ hpc[h] = "canceling" => want[h] = [op |-> "cancel", sub |-> h] /\ h \in subs
  /\ hpc[h] = "done" => /\ want[h] = Broker!NoCall /\ h \notin subs /\ chan[h] # "open"
                        /\ k8sCh[h] = "nil"

SourceInv == HandlerTypes /\ \A h \in Handlers : SourceOf(h)

\* A step that is none of h's.
Untouched(h) ==
  /\ hpc'[h] = hpc[h] /\ req'[h] = req[h] /\ k8sCh'[h] = k8sCh[h] /\ auditCh'[h] = auditCh[h]
  /\ want'[h] = want[h] /\ chan'[h] = chan[h] /\ (h \in subs' <=> h \in subs)

LEMMA SourceKept ==
  ASSUME NEW h \in Handlers, SourceOf(h), Untouched(h)
  PROVE  SourceOf(h)'
  BY DEF SourceOf, Untouched, Subscribes, Unsubscribed

LEMMA SourceInvInit == Init => SourceInv
  BY DEF Init, Broker!Init, SourceInv, HandlerTypes, SourceOf, Unsubscribed

LEMMA SourceInvStep == BrokerInv /\ SourceInv /\ [Next]_vars => SourceInv'
<1> SUFFICES ASSUME BrokerInv, SourceInv, [Next]_vars PROVE SourceInv'
  OBVIOUS
<1>0. BrokerShape
  BY BrokerInvShape
<1> USE <1>0 DEF SourceInv, HandlerTypes, BrokerShape
\* It is enough to look at the handler that takes the step.
<1>a. ASSUME NEW g \in Handlers, HandlerTypes', \A h \in Handlers \ {g} : Untouched(h), SourceOf(g)'
      PROVE  SourceInv'
  <2>1. \A h \in Handlers : SourceOf(h)'
    BY <1>a, SourceKept
  <2> QED
    BY <1>a, <2>1
<1>1. ASSUME NEW p \in Publishers, Publish(p) \/ PublishStep(p) PROVE SourceInv'
  <2>1. UNCHANGED <<subs, chan, want, handlerVars>>
    BY <1>1, PublishersOnlyAdd
  <2> QED
    BY <2>1, SourceKept DEF Untouched, handlerVars
<1>2. ASSUME NEW g \in Handlers, LockAnnounce(g) PROVE SourceInv'
  BY <1>2, SourceKept DEF LockAnnounce, Broker!LockAnnounce, Untouched, handlerVars
<1>3. ASSUME NEW g \in Handlers, NEW r \in Requests, Open(g, r) PROVE SourceInv'
  <2>1. HandlerTypes'
    BY <1>3 DEF Open
  <2>2. \A h \in Handlers \ {g} : Untouched(h)
    BY <1>3 DEF Open, Broker!SubscribeCall, Untouched, brokerVars
  <2>3. SourceOf(g)'
    BY <1>3 DEF Open, Broker!SubscribeCall, SourceOf, Unsubscribed, brokerVars
  <2> QED
    BY <1>a, <2>1, <2>2, <2>3
<1>4. ASSUME NEW g \in Handlers, NEW r \in Requests, OpenFails(g, r) PROVE SourceInv'
  <2>1. HandlerTypes'
    BY <1>4 DEF OpenFails
  <2>2. \A h \in Handlers \ {g} : Untouched(h)
    BY <1>4 DEF OpenFails, Untouched, brokerVars
  <2>3. SourceOf(g)'
    BY <1>4 DEF OpenFails, SourceOf, Unsubscribed, brokerVars
  <2> QED
    BY <1>a, <2>1, <2>2, <2>3
<1>5. ASSUME NEW g \in Handlers, Subscribed(g) PROVE SourceInv'
  <2>0. want[g] = [op |-> "subscribe", sub |-> g]
    BY <1>5 DEF Subscribed, SourceOf
  <2>1. HandlerTypes'
    BY <1>5 DEF Subscribed
  <2>2. \A h \in Handlers \ {g} : Untouched(h)
    BY <1>5, <2>0 DEF Subscribed, Broker!SubscribeLocked, Untouched
  <2>3. SourceOf(g)'
    BY <1>5, <2>0 DEF Subscribed, Broker!SubscribeLocked, SourceOf, Subscribes
  <2> QED
    BY <1>a, <2>1, <2>2, <2>3
<1>6. ASSUME NEW g \in Handlers, SelectCtxDone(g) PROVE SourceInv'
  <2>1. HandlerTypes'
    BY <1>6 DEF SelectCtxDone
  <2>2. \A h \in Handlers \ {g} : Untouched(h)
    BY <1>6 DEF SelectCtxDone, Untouched, brokerVars
  <2>3. SourceOf(g)'
    BY <1>6 DEF SelectCtxDone, SourceOf, Subscribes, Unsubscribed, brokerVars
  <2> QED
    BY <1>a, <2>1, <2>2, <2>3
<1>7. ASSUME NEW g \in Handlers, NEW obj \in EventClass \cup {Bookmark}, SelectK8sEvent(g, obj)
      PROVE  SourceInv'
  <2>0. /\ UNCHANGED <<brokerVars, req, k8sCh, auditCh>>
        /\ hpc[g] = "select" /\ hpc' \in {hpc, [hpc EXCEPT ![g] = "sending"]}
    BY <1>7 DEF SelectK8sEvent, Respond, Skip
  <2>1. HandlerTypes'
    BY <2>0
  <2>2. \A h \in Handlers \ {g} : Untouched(h)
    BY <2>0 DEF Untouched, brokerVars
  <2>3. SourceOf(g)'
    BY <2>0 DEF SourceOf, Subscribes, Unsubscribed, brokerVars
  <2> QED
    BY <1>a, <2>1, <2>2, <2>3
<1>8. ASSUME NEW g \in Handlers, SelectK8sClosed(g) PROVE SourceInv'
  <2>1. HandlerTypes'
    BY <1>8 DEF SelectK8sClosed, Skip
  <2>2. \A h \in Handlers \ {g} : Untouched(h)
    BY <1>8 DEF SelectK8sClosed, Skip, Untouched, brokerVars
  <2>3. SourceOf(g)'
    BY <1>8 DEF SelectK8sClosed, Skip, SourceOf, Subscribes, Unsubscribed, brokerVars
  <2> QED
    BY <1>a, <2>1, <2>2, <2>3
<1>9. ASSUME NEW g \in Handlers, SelectAudit(g) PROVE SourceInv'
  <2>0. /\ UNCHANGED <<subs, chan, want, req, k8sCh, auditCh>>
        /\ hpc[g] = "select" /\ hpc' \in {hpc, [hpc EXCEPT ![g] = "sending"]}
    BY <1>9 DEF SelectAudit, Broker!Receive, Respond, Skip
  <2>1. HandlerTypes'
    BY <2>0
  <2>2. \A h \in Handlers \ {g} : Untouched(h)
    BY <2>0 DEF Untouched
  <2>3. SourceOf(g)'
    BY <2>0 DEF SourceOf, Subscribes, Unsubscribed
  <2> QED
    BY <1>a, <2>1, <2>2, <2>3
<1>10. ASSUME NEW g \in Handlers, Return(g) PROVE SourceInv'
  <2>1. HandlerTypes'
    BY <1>10 DEF Return
  <2>2. \A h \in Handlers \ {g} : Untouched(h)
    BY <1>10 DEF Return, Broker!CancelCall, Untouched, brokerVars
  <2>3. SourceOf(g)'
    BY <1>10 DEF Return, MustCancel, Broker!CancelCall, SourceOf, Subscribes, Unsubscribed, brokerVars
  <2> QED
    BY <1>a, <2>1, <2>2, <2>3
<1>11. ASSUME NEW g \in Handlers, Canceled(g) PROVE SourceInv'
  <2>0. want[g] = [op |-> "cancel", sub |-> g] /\ g \in subs
    BY <1>11 DEF Canceled, SourceOf
  <2>1. HandlerTypes'
    BY <1>11 DEF Canceled, AfterCancel
  <2>2. \A h \in Handlers \ {g} : Untouched(h)
    BY <1>11, <2>0 DEF Canceled, AfterCancel, Broker!CancelLocked, Untouched
  <2>3. SourceOf(g)'
    BY <1>11, <2>0 DEF Canceled, AfterCancel, Broker!CancelLocked, SourceOf
  <2> QED
    BY <1>a, <2>1, <2>2, <2>3
<1>12. ASSUME NEW g \in Handlers, ClientCancels(g) PROVE SourceInv'
  BY <1>12, SourceKept DEF ClientCancels, Untouched, brokerVars
<1>13. ASSUME NEW g \in Handlers, WatchCloses(g) PROVE SourceInv'
  <2>1. HandlerTypes'
    BY <1>13 DEF WatchCloses
  <2>2. \A h \in Handlers \ {g} : Untouched(h)
    BY <1>13 DEF WatchCloses, Untouched, brokerVars
  <2>3. SourceOf(g)'
    BY <1>13 DEF WatchCloses, SourceOf, Subscribes, Unsubscribed, brokerVars
  <2> QED
    BY <1>a, <2>1, <2>2, <2>3
<1>14. ASSUME NEW g \in Handlers, SendEnds(g) PROVE SourceInv'
  <2>0. /\ UNCHANGED <<brokerVars, req, k8sCh, auditCh>> /\ hpc[g] = "sending"
        /\ hpc' \in {[hpc EXCEPT ![g] = "select"], [hpc EXCEPT ![g] = "returning"]}
    BY <1>14 DEF SendEnds, SendReturns, SendFails
  <2>1. HandlerTypes'
    BY <2>0
  <2>2. \A h \in Handlers \ {g} : Untouched(h)
    BY <2>0 DEF Untouched, brokerVars
  <2>3. SourceOf(g)'
    BY <2>0 DEF SourceOf, Subscribes, Unsubscribed, brokerVars
  <2> QED
    BY <1>a, <2>1, <2>2, <2>3
<1>15. CASE UNCHANGED vars
  BY <1>15, SourceKept DEF vars, brokerVars, handlerVars, Untouched
<1> QED
  BY <1>1, <1>2, <1>3, <1>4, <1>5, <1>6, <1>7, <1>8, <1>9, <1>10, <1>11, <1>12, <1>13, <1>14, <1>15
  DEF Next, HandlerStep

-----------------------------------------------------------------------------
(* What was sent of what was taken *)

Response == { FromAudit(e) : e \in Broker!Event } \cup { FromK8s(c) : c \in EventClass }

ForwardOf(h) ==
  /\ hpc[h] \in {"idle", "subscribing"} => sent[h] = << >> /\ taken[h] = 0
  /\ \A i \in SentAudit(h) : \E k \in Handled(h) : Wanted(h, k) /\ Forwarded(h, i, k)
  /\ \A i, j \in SentAudit(h) : i < j =>
       \E k, l \in Handled(h) : k < l /\ Forwarded(h, i, k) /\ Forwarded(h, j, l)
  /\ InLoop(h) =>
       \A k \in Handled(h) : Wanted(h, k) => \E i \in SentAudit(h) : Forwarded(h, i, k)
  /\ AuditInHand(h) => /\ taken[h] > 0 /\ Wanted(h, taken[h])
                       /\ inHand[h] = FromAudit(accepted[h][taken[h]])

SentTypes ==
  /\ sent \in [Handlers -> Seq(Response)]
  /\ inHand \in [Handlers -> Response \cup {NoResponse}]
  /\ \A h \in Handlers : hpc[h] = "sending" => inHand[h] \in Response

ForwardInv == SentTypes /\ \A h \in Handlers : ForwardOf(h)

LEMMA HandledIsTaken ==
  ASSUME NEW h \in Handlers, taken[h] \in Nat
  PROVE  Handled(h) \subseteq 1..taken[h]
  BY DEF Handled

\* Nothing was taken or sent, the loop is not entered anew, and what was taken
\* is where it was in the channel.
Quiet(h) ==
  /\ hpc'[h] \in {"idle", "subscribing", "select"} => hpc'[h] = hpc[h]
  /\ hpc'[h] = "sending" <=> hpc[h] = "sending"
  /\ req'[h] = req[h] /\ inHand'[h] = inHand[h] /\ sent'[h] = sent[h] /\ taken'[h] = taken[h]
  /\ \A k \in 1..taken[h] : accepted'[h][k] = accepted[h][k]

LEMMA ForwardKept ==
  ASSUME NEW h \in Handlers, taken[h] \in Nat, ForwardOf(h), Quiet(h)
  PROVE  ForwardOf(h)'
<1>1. /\ SentAudit(h)' = SentAudit(h) /\ taken'[h] = taken[h] /\ sent'[h] = sent[h]
      /\ \A k \in 1..taken[h] : Wanted(h, k)' <=> Wanted(h, k)
      /\ \A i, k : k \in 1..taken[h] => (Forwarded(h, i, k)' <=> Forwarded(h, i, k))
  BY DEF Quiet, SentAudit, Wanted, KindMatches, Forwarded
<1>2. /\ AuditInHand(h)' <=> AuditInHand(h)
      /\ Handled(h)' = Handled(h)
      /\ InLoop(h)' => InLoop(h)
  BY DEF Quiet, AuditInHand, Handled, InLoop
<1>3. Handled(h) \subseteq 1..taken[h]
  BY HandledIsTaken
<1>4. hpc'[h] \in {"idle", "subscribing"} => hpc'[h] = hpc[h]
  BY DEF Quiet
<1>5. /\ \A i \in SentAudit(h)' : \E k \in Handled(h)' : Wanted(h, k)' /\ Forwarded(h, i, k)'
      /\ \A i, j \in SentAudit(h)' : i < j =>
           \E k, l \in Handled(h)' : k < l /\ Forwarded(h, i, k)' /\ Forwarded(h, j, l)'
      /\ InLoop(h)' =>
           \A k \in Handled(h)' : Wanted(h, k)' => \E i \in SentAudit(h)' : Forwarded(h, i, k)'
  BY <1>1, <1>2, <1>3 DEF ForwardOf
<1>6. AuditInHand(h)' => /\ taken'[h] > 0 /\ Wanted(h, taken[h])'
                        /\ inHand'[h] = FromAudit(accepted'[h][taken'[h]])
  <2>1. AuditInHand(h) => taken[h] \in 1..taken[h]
    BY DEF ForwardOf
  <2> QED
    BY <1>1, <1>2, <2>1 DEF ForwardOf, Quiet
<1>7. (hpc[h] \in {"idle", "subscribing"} => sent[h] = << >> /\ taken[h] = 0)'
  BY <1>1, <1>4 DEF ForwardOf
<1> QED
  BY <1>1, <1>5, <1>6, <1>7 DEF ForwardOf

\* Nothing was taken or sent before the loop is entered.
LEMMA ForwardEmpty ==
  ASSUME NEW h \in Handlers, sent'[h] = << >>, taken'[h] = 0, hpc'[h] # "sending"
  PROVE  ForwardOf(h)'
<1>1. SentAudit(h)' = {} /\ Handled(h)' = {} /\ ~AuditInHand(h)'
  BY DEF SentAudit, Handled, AuditInHand
<1> QED
  BY <1>1 DEF ForwardOf

\* A response is sent: which ones are now of the audit source, and where.
LEMMA SentAfterAppend ==
  ASSUME NEW h \in Handlers, sent[h] \in Seq(Response), NEW resp \in Response,
         sent'[h] = Append(sent[h], resp)
  PROVE  /\ Len(sent[h]) + 1 \notin SentAudit(h)
         /\ \A i \in SentAudit(h) : i < Len(sent[h]) + 1 /\ sent'[h][i] = sent[h][i]
         /\ sent'[h][Len(sent[h]) + 1] = resp
         /\ SentAudit(h)' = IF resp.src = "audit" THEN SentAudit(h) \cup {Len(sent[h]) + 1}
                                                 ELSE SentAudit(h)
<1>1. /\ DOMAIN sent[h] = 1..Len(sent[h]) /\ Len(sent[h]) \in Nat
      /\ DOMAIN sent'[h] = 1..(Len(sent[h]) + 1)
      /\ \A i \in 1..Len(sent[h]) : sent'[h][i] = sent[h][i]
      /\ sent'[h][Len(sent[h]) + 1] = resp
  OBVIOUS
<1>2. 1..(Len(sent[h]) + 1) = 1..Len(sent[h]) \cup {Len(sent[h]) + 1}
  BY <1>1
<1> QED
  BY <1>1, <1>2 DEF SentAudit

LEMMA ForwardInvInit == Init => ForwardInv
<1> SUFFICES ASSUME Init PROVE ForwardInv
  OBVIOUS
<1>1. SentTypes
  BY DEF Init, SentTypes
<1>2. \A h \in Handlers : /\ SentAudit(h) = {} /\ Handled(h) = {} /\ ~AuditInHand(h)
                           /\ sent[h] = << >> /\ taken[h] = 0
  BY DEF Init, Broker!Init, SentAudit, Handled, AuditInHand
<1> QED
  BY <1>1, <1>2 DEF ForwardInv, ForwardOf

LEMMA ForwardInvStep == BrokerInv /\ SourceInv /\ ForwardInv /\ [Next]_vars => ForwardInv'
<1> SUFFICES ASSUME BrokerInv, SourceInv, ForwardInv, [Next]_vars PROVE ForwardInv'
  OBVIOUS
<1>0. /\ BrokerShape /\ \A h \in Handlers : taken[h] \in Nat /\ Len(accepted[h]) \in Nat
      /\ hpc \in [Handlers -> {"idle", "subscribing", "select", "sending", "returning",
                               "canceling", "done"}]
  BY BrokerInvShape DEF BrokerShape, SourceInv, HandlerTypes
<1>t. SentTypes
  BY DEF ForwardInv
\* It is enough to look at the handler that takes the step.
<1>a. ASSUME NEW g \in Handlers, SentTypes', \A h \in Handlers \ {g} : Quiet(h), ForwardOf(g)'
      PROVE  ForwardInv'
  BY <1>0, <1>a, ForwardKept DEF ForwardInv
<1>b. ASSUME UNCHANGED <<sent, inHand>>, \A h \in Handlers : Quiet(h)
      PROVE  ForwardInv'
  <2>1. SentTypes'
    BY <1>b, <1>t DEF SentTypes, Quiet
  <2> QED
    BY <1>0, <1>b, <2>1, ForwardKept DEF ForwardInv
<1>1. ASSUME NEW p \in Publishers, Publish(p) \/ PublishStep(p) PROVE ForwardInv'
  <2>1. UNCHANGED <<taken, handlerVars>> /\ \A h \in Handlers : Grows(h)
    BY <1>1, PublishersOnlyAdd
  <2>2. \A h \in Handlers : \A k \in 1..taken[h] : accepted'[h][k] = accepted[h][k]
    <3> SUFFICES ASSUME NEW h \in Handlers, NEW k \in 1..taken[h]
                 PROVE  accepted'[h][k] = accepted[h][k]
      OBVIOUS
    <3>1. k \in 1..Len(accepted[h])
      BY <1>0 DEF BrokerShape
    <3> QED
      BY <2>1, <3>1 DEF Grows
  <2> QED
    BY <1>b, <2>1, <2>2 DEF Quiet, handlerVars
<1>2. ASSUME NEW g \in Handlers, NEW r \in Requests, Open(g, r) PROVE ForwardInv'
  <2>1. /\ sent' = sent /\ inHand' = inHand /\ taken' = taken /\ accepted' = accepted
        /\ hpc[g] = "idle" /\ hpc' \in {[hpc EXCEPT ![g] = "subscribing"], [hpc EXCEPT ![g] = "select"]}
        /\ \A h \in Handlers \ {g} : req'[h] = req[h]
    BY <1>2 DEF Open, Broker!SubscribeCall, brokerVars, SourceInv, HandlerTypes
  <2>2. \A h \in Handlers \ {g} : Quiet(h)
    BY <1>0, <2>1 DEF Quiet
  <2>3. hpc'[g] # "sending" /\ SentTypes'
    BY <1>0, <1>t, <2>1 DEF SentTypes
  <2>4. ForwardOf(g)'
    BY <2>1, <2>3, ForwardEmpty DEF ForwardInv, ForwardOf
  <2> QED
    BY <1>a, <2>2, <2>3, <2>4
<1>3. ASSUME NEW g \in Handlers, NEW r \in Requests, OpenFails(g, r) PROVE ForwardInv'
  <2>1. /\ sent' = sent /\ inHand' = inHand /\ taken' = taken /\ accepted' = accepted
        /\ hpc[g] = "idle" /\ hpc' = [hpc EXCEPT ![g] = "done"]
        /\ \A h \in Handlers \ {g} : req'[h] = req[h]
    BY <1>3 DEF OpenFails, brokerVars, SourceInv, HandlerTypes
  <2>2. \A h \in Handlers \ {g} : Quiet(h)
    BY <1>0, <2>1 DEF Quiet
  <2>3. hpc'[g] # "sending" /\ SentTypes'
    BY <1>0, <1>t, <2>1 DEF SentTypes
  <2>4. ForwardOf(g)'
    BY <2>1, <2>3, ForwardEmpty DEF ForwardInv, ForwardOf
  <2> QED
    BY <1>a, <2>2, <2>3, <2>4
<1>4. ASSUME NEW g \in Handlers, Subscribed(g) PROVE ForwardInv'
  <2>1. /\ sent' = sent /\ inHand' = inHand /\ taken' = taken /\ accepted' = accepted /\ req' = req
        /\ hpc[g] = "subscribing" /\ hpc' = [hpc EXCEPT ![g] = "select"]
    BY <1>4 DEF Subscribed, Broker!SubscribeLocked
  <2>2. \A h \in Handlers \ {g} : Quiet(h)
    BY <1>0, <2>1 DEF Quiet
  <2>3. hpc'[g] # "sending" /\ SentTypes'
    BY <1>0, <1>t, <2>1 DEF SentTypes
  <2>4. ForwardOf(g)'
    BY <2>1, <2>3, ForwardEmpty DEF ForwardInv, ForwardOf
  <2> QED
    BY <1>a, <2>2, <2>3, <2>4
<1>5. ASSUME NEW g \in Handlers,
             \/ SelectCtxDone(g) \/ SelectK8sClosed(g) \/ Return(g) \/ Canceled(g)
             \/ ClientCancels(g) \/ WatchCloses(g) \/ LockAnnounce(g)
      PROVE  ForwardInv'
  <2>1. sent' = sent /\ inHand' = inHand /\ req' = req /\ taken' = taken /\ accepted' = accepted
    BY <1>5 DEF SelectCtxDone, SelectK8sClosed, Skip, Return, Canceled, ClientCancels, WatchCloses,
       LockAnnounce, Broker!CancelCall, Broker!CancelLocked, Broker!LockAnnounce, brokerVars,
       handlerVars
  <2>2. /\ \A h \in Handlers : hpc'[h] \in {hpc[h], "returning", "canceling", "done"}
        /\ \A h \in Handlers : hpc[h] = "sending" => hpc'[h] = hpc[h]
    BY <1>0, <1>5 DEF SelectCtxDone, SelectK8sClosed, Skip, Return, Canceled, AfterCancel,
       ClientCancels, WatchCloses, LockAnnounce, handlerVars
  <2> QED
    BY <1>b, <2>1, <2>2 DEF Quiet
<1>6. ASSUME NEW g \in Handlers, NEW obj \in EventClass \cup {Bookmark}, SelectK8sEvent(g, obj)
      PROVE  ForwardInv'
  <2>1. taken' = taken /\ accepted' = accepted /\ req' = req /\ hpc[g] = "select"
    BY <1>6 DEF SelectK8sEvent, brokerVars
  <2>2. CASE Skip
    BY <1>b, <2>1, <2>2 DEF Skip, Quiet
  <2>3. CASE obj # Bookmark /\ Respond(g, FromK8s(obj))
    <3>1. FromK8s(obj) \in Response /\ FromK8s(obj).src # "audit"
      BY <2>3 DEF Response, FromK8s
    <3>2. /\ hpc' = [hpc EXCEPT ![g] = "sending"] /\ sent' = sent
          /\ inHand' = [inHand EXCEPT ![g] = FromK8s(obj)]
      BY <2>3 DEF Respond
    <3>3. SentTypes'
      BY <1>0, <1>t, <3>1, <3>2 DEF SentTypes
    <3>4. \A h \in Handlers \ {g} : Quiet(h)
      BY <1>0, <1>t, <2>1, <3>2 DEF Quiet, SentTypes
    <3>5. hpc'[g] = "sending" /\ inHand'[g] = FromK8s(obj)
      BY <1>0, <1>t, <3>2 DEF SentTypes
    <3>6. /\ ~AuditInHand(g) /\ ~AuditInHand(g)' /\ InLoop(g) /\ Handled(g)' = Handled(g)
      BY <2>1, <3>1, <3>5 DEF AuditInHand, InLoop, Handled
    <3>7. /\ SentAudit(g)' = SentAudit(g)
          /\ \A k : Wanted(g, k)' <=> Wanted(g, k)
          /\ \A i, k : Forwarded(g, i, k)' <=> Forwarded(g, i, k)
      BY <2>1, <3>2 DEF SentAudit, Wanted, KindMatches, Forwarded
    <3>8. ForwardOf(g)'
      BY <3>5, <3>6, <3>7 DEF ForwardInv, ForwardOf
    <3> QED
      BY <1>a, <3>3, <3>4, <3>8
  <2> QED
    BY <1>6, <2>2, <2>3 DEF SelectK8sEvent
<1>7. ASSUME NEW g \in Handlers, SelectAudit(g) PROVE ForwardInv'
  <2>a. PICK n : n = taken[g] + 1
    OBVIOUS
  <2>b. PICK e : e = accepted[g][n]
    OBVIOUS
  <2>1. /\ accepted' = accepted /\ req' = req /\ hpc[g] = "select"
        /\ taken' = [taken EXCEPT ![g] = @ + 1] /\ Broker!Buffered(g) > 0
    BY <1>7 DEF SelectAudit, Broker!Receive
  <2>2. /\ n \in 1..Len(accepted[g]) /\ e \in Broker!Event /\ taken'[g] = n
        /\ 1..n = 1..taken[g] \cup {n} /\ 1..(n - 1) = 1..taken[g] /\ n > 0
    <3>1. n \in 1..Len(accepted[g])
      BY <1>0, <2>a, <2>1 DEF Broker!Buffered
    <3>2. accepted[g] \in Seq(Broker!Event)
      BY <1>0 DEF BrokerShape
    <3>3. taken'[g] = n
      BY <1>0, <2>a, <2>1 DEF BrokerShape
    <3>4. 1..n = 1..taken[g] \cup {n} /\ 1..(n - 1) = 1..taken[g] /\ n > 0
      BY <1>0, <2>a
    <3> QED
      BY <2>b, <3>1, <3>2, <3>3, <3>4
  <2>3. NextEvent(g) = e /\ (KindMatches(g, ClassOf[e.pub]) <=> Wanted(g, n))
    BY <2>a, <2>b DEF NextEvent, Wanted
  <2>4. /\ InLoop(g) /\ ~AuditInHand(g) /\ Handled(g) = 1..taken[g] /\ ForwardOf(g)
    BY <2>1 DEF InLoop, AuditInHand, Handled, ForwardInv
  <2>5. \A k : Wanted(g, k)' <=> Wanted(g, k)
    BY <2>1 DEF Wanted, KindMatches
  <2>6. CASE Skip /\ ~Wanted(g, n)
    <3>1. /\ SentAudit(g)' = SentAudit(g)
          /\ \A i, k : Forwarded(g, i, k)' <=> Forwarded(g, i, k)
      BY <2>1, <2>6 DEF Skip, SentAudit, Forwarded
    <3>2. /\ ~AuditInHand(g)' /\ Handled(g)' = Handled(g) \cup {n} /\ hpc'[g] = "select"
      BY <2>1, <2>2, <2>4, <2>6 DEF Skip, AuditInHand, Handled
    <3>3. ForwardOf(g)'
      <4>1. /\ \A i \in SentAudit(g)' : \E k \in Handled(g)' : Wanted(g, k)' /\ Forwarded(g, i, k)'
            /\ \A i, j \in SentAudit(g)' : i < j =>
                 \E k, l \in Handled(g)' : k < l /\ Forwarded(g, i, k)' /\ Forwarded(g, j, l)'
        BY <2>4, <2>5, <3>1, <3>2 DEF ForwardOf
      <4>2. \A k \in Handled(g)' : Wanted(g, k)' => \E i \in SentAudit(g)' : Forwarded(g, i, k)'
        BY <2>4, <2>5, <2>6, <3>1, <3>2 DEF ForwardOf
      <4> QED
        BY <3>2, <4>1, <4>2 DEF ForwardOf
    <3>4. \A h \in Handlers \ {g} : Quiet(h)
      BY <1>0, <2>1, <2>6 DEF Quiet, BrokerShape, Skip
    <3>5. SentTypes'
      BY <1>t, <2>6 DEF SentTypes, Skip
    <3> QED
      BY <1>a, <3>3, <3>4, <3>5
  <2>7. CASE Wanted(g, n) /\ Respond(g, FromAudit(e))
    <3>1. FromAudit(e) \in Response /\ FromAudit(e).src = "audit"
      BY <2>2 DEF Response, FromAudit
    <3>2. /\ hpc' = [hpc EXCEPT ![g] = "sending"] /\ sent' = sent
          /\ inHand' = [inHand EXCEPT ![g] = FromAudit(e)]
      BY <2>7 DEF Respond
    <3>3. hpc'[g] = "sending" /\ inHand'[g] = FromAudit(e)
      BY <1>0, <1>t, <3>2 DEF SentTypes
    <3>4. SentTypes'
      BY <1>0, <1>t, <3>1, <3>2 DEF SentTypes
    <3>5. \A h \in Handlers \ {g} : Quiet(h)
      BY <1>0, <1>t, <2>1, <3>2 DEF Quiet, SentTypes, BrokerShape
    <3>6. AuditInHand(g)' /\ Handled(g)' = Handled(g)
      BY <2>2, <2>4, <3>1, <3>3 DEF AuditInHand, Handled
    <3>7. /\ SentAudit(g)' = SentAudit(g)
          /\ \A i, k : Forwarded(g, i, k)' <=> Forwarded(g, i, k)
      BY <2>1, <3>2 DEF SentAudit, Forwarded
    <3>8. /\ taken'[g] > 0 /\ Wanted(g, taken[g])'
          /\ inHand'[g] = FromAudit(accepted'[g][taken'[g]])
      BY <2>b, <2>1, <2>2, <2>7, <3>3 DEF Wanted, KindMatches
    <3>9. ForwardOf(g)'
      BY <2>4, <2>5, <3>3, <3>6, <3>7, <3>8 DEF ForwardOf
    <3> QED
      BY <1>a, <3>4, <3>5, <3>9
  <2> QED
    BY <1>7, <2>3, <2>6, <2>7 DEF SelectAudit
<1>8. ASSUME NEW g \in Handlers, SendFails(g) PROVE ForwardInv'
  <2>1. /\ taken' = taken /\ accepted' = accepted /\ req' = req /\ sent' = sent /\ hpc[g] = "sending"
        /\ hpc' = [hpc EXCEPT ![g] = "returning"] /\ inHand' = [inHand EXCEPT ![g] = NoResponse]
    BY <1>8 DEF SendFails, brokerVars
  <2>2. SentTypes' /\ hpc'[g] = "returning"
    BY <1>0, <1>t, <2>1 DEF SentTypes
  <2>3. \A h \in Handlers \ {g} : Quiet(h)
    BY <1>0, <1>t, <2>1 DEF Quiet, SentTypes
  <2>4. /\ SentAudit(g)' = SentAudit(g)
        /\ \A k : Wanted(g, k)' <=> Wanted(g, k)
        /\ \A i, k : Forwarded(g, i, k)' <=> Forwarded(g, i, k)
    BY <2>1 DEF SentAudit, Wanted, KindMatches, Forwarded
  <2>5. ~AuditInHand(g)' /\ ~InLoop(g)' /\ Handled(g) \subseteq Handled(g)'
    <3>1. Handled(g)' = 1..taken[g]
      BY <2>1, <2>2 DEF Handled, AuditInHand
    <3> QED
      BY <1>0, <2>2, <3>1, HandledIsTaken DEF AuditInHand, InLoop
  <2>6. ForwardOf(g)'
    BY <2>2, <2>4, <2>5 DEF ForwardInv, ForwardOf
  <2> QED
    BY <1>a, <2>2, <2>3, <2>6
<1>9. ASSUME NEW g \in Handlers, SendReturns(g) PROVE ForwardInv'
  <2>m. PICK m : m = Len(sent[g]) + 1
    OBVIOUS
  <2>r. PICK resp : resp = inHand[g]
    OBVIOUS
  <2>1. /\ taken' = taken /\ accepted' = accepted /\ req' = req /\ hpc[g] = "sending"
        /\ hpc' \in {[hpc EXCEPT ![g] = "returning"], [hpc EXCEPT ![g] = "select"]}
        /\ inHand' = [inHand EXCEPT ![g] = NoResponse]
        /\ sent' = [sent EXCEPT ![g] = Append(@, resp)]
    BY <1>9, <2>r DEF SendReturns, brokerVars
  <2>2. resp \in Response
    BY <1>t, <2>r, <2>1 DEF SentTypes
  <2>3. sent[g] \in Seq(Response) /\ sent'[g] = Append(sent[g], resp)
    BY <1>t, <2>1 DEF SentTypes
  <2>4. SentTypes' /\ hpc'[g] \in {"returning", "select"}
    <3>1. sent' \in [Handlers -> Seq(Response)]
      BY <1>t, <2>1, <2>2 DEF SentTypes
    <3> QED
      BY <1>0, <1>t, <2>1, <3>1 DEF SentTypes
  <2>5. \A h \in Handlers \ {g} : Quiet(h)
    BY <1>0, <1>t, <2>1 DEF Quiet, SentTypes
  <2>6. /\ m \notin SentAudit(g)
        /\ \A i \in SentAudit(g) : i < m /\ sent'[g][i] = sent[g][i]
        /\ sent'[g][m] = resp
        /\ SentAudit(g)' = IF resp.src = "audit" THEN SentAudit(g) \cup {m} ELSE SentAudit(g)
    BY <2>m, <2>2, <2>3, SentAfterAppend
  <2>7. /\ \A k : Wanted(g, k)' <=> Wanted(g, k)
        /\ \A i \in SentAudit(g) : \A k : Forwarded(g, i, k)' <=> Forwarded(g, i, k)
    BY <2>1, <2>6 DEF Wanted, KindMatches, Forwarded
  <2>8. ~AuditInHand(g)' /\ Handled(g)' = 1..taken[g] /\ InLoop(g) /\ ForwardOf(g)
    BY <2>1, <2>4 DEF AuditInHand, Handled, InLoop, ForwardInv
  <2>9. CASE resp.src # "audit"
    <3>1. SentAudit(g)' = SentAudit(g) /\ Handled(g)' = Handled(g)
      BY <2>r, <2>6, <2>8, <2>9 DEF Handled, AuditInHand
    <3> QED
      <4>1. ForwardOf(g)'
        BY <2>4, <2>7, <2>8, <3>1 DEF ForwardOf
      <4> QED
        BY <1>a, <2>4, <2>5, <4>1
  <2>10. CASE resp.src = "audit"
    <3>n. PICK n : n = taken[g]
      OBVIOUS
    <3>1. /\ n > 0 /\ Wanted(g, n) /\ resp = FromAudit(accepted[g][n]) /\ n \in Nat
          /\ Handled(g) = 1..(n - 1)
      BY <1>0, <2>r, <2>1, <2>8, <2>10, <3>n DEF AuditInHand, Handled, ForwardOf
    <3>2. Handled(g)' = Handled(g) \cup {n} /\ \A k \in Handled(g) : k < n
      BY <2>8, <3>n, <3>1
    <3>3. Forwarded(g, m, n)'
      BY <2>1, <2>6, <3>1 DEF Forwarded
    <3>4. SentAudit(g)' = SentAudit(g) \cup {m}
      BY <2>6, <2>10
    <3>5. \A i \in SentAudit(g)' : \E k \in Handled(g)' : Wanted(g, k)' /\ Forwarded(g, i, k)'
      BY <2>7, <2>8, <3>1, <3>2, <3>3, <3>4 DEF ForwardOf
    <3>6. ASSUME NEW i \in SentAudit(g)', NEW j \in SentAudit(g)', i < j
          PROVE  \E k, l \in Handled(g)' : k < l /\ Forwarded(g, i, k)' /\ Forwarded(g, j, l)'
      <4>1. i \in SentAudit(g)
        <5>1. \A d \in SentAudit(g) \cup {m} : d \in Int
          BY <2>m, <2>3 DEF SentAudit
        <5> QED
          BY <2>6, <3>4, <3>6, <5>1
      <4>2. CASE j \in SentAudit(g)
        BY <2>7, <2>8, <3>2, <3>6, <4>1, <4>2 DEF ForwardOf
      <4>3. CASE j = m
        <5>1. PICK k \in Handled(g) : Forwarded(g, i, k)
          BY <2>8, <4>1 DEF ForwardOf
        <5> QED
          BY <2>7, <3>2, <3>3, <4>1, <4>3, <5>1
      <4> QED
        BY <3>4, <4>2, <4>3
    <3>7. \A k \in Handled(g)' : Wanted(g, k)' => \E i \in SentAudit(g)' : Forwarded(g, i, k)'
      BY <2>7, <2>8, <3>2, <3>3, <3>4 DEF ForwardOf
    <3>8. ForwardOf(g)'
      BY <2>4, <2>8, <3>5, <3>6, <3>7 DEF ForwardOf
    <3> QED
      BY <1>a, <2>4, <2>5, <3>8
  <2> QED
    BY <2>9, <2>10
<1>10. CASE UNCHANGED vars
  BY <1>10, <1>b DEF vars, brokerVars, handlerVars, Quiet
<1> QED
  BY <1>1, <1>2, <1>3, <1>4, <1>5, <1>6, <1>7, <1>8, <1>9, <1>10 DEF Next, HandlerStep, SendEnds

-----------------------------------------------------------------------------
StreamInv == BrokerInv /\ SourceInv /\ ForwardInv

LEMMA StreamInvHolds == Spec => []StreamInv
<1>1. Init => StreamInv
  BY BrokerInvInit, SourceInvInit, ForwardInvInit DEF Init, StreamInv
<1>2. StreamInv /\ [Next]_vars => StreamInv'
  BY BrokerInvStep, SourceInvStep, ForwardInvStep DEF StreamInv
<1> QED
  BY <1>1, <1>2, PTL DEF Spec

\* However an EventStream RPC ends, its subscription is out of the broker's map
\* and closed, and its watch is stopped.
THEOREM StreamsDoNotLeak == Spec => []NothingLeaks
<1>1. StreamInv => NothingLeaks
  BY DEF StreamInv, SourceInv, SourceOf, NothingLeaks
<1> QED
  BY <1>1, StreamInvHolds, PTL

\* The loop has the sources that were asked for, and the channel it receives
\* from is in the broker's map and open: it is never read after it is closed.
THEOREM LoopIsServed == Spec => []ServedWhileSelecting
<1>1. StreamInv => ServedWhileSelecting
  <2> SUFFICES ASSUME StreamInv, NEW h \in Handlers, InLoop(h)
               PROVE  /\ k8sCh[h] # "nil" => req[h].source \in {"", "k8s"}
                      /\ auditCh[h] = IF req[h].source \in {"", "audit"} THEN "open" ELSE "nil"
                      /\ auditCh[h] = "open" => h \in subs /\ chan[h] = "open"
    BY DEF ServedWhileSelecting
  <2>1. SourceOf(h) /\ BrokerShape
    BY BrokerInvShape DEF StreamInv, SourceInv
  <2> QED
    BY <2>1 DEF InLoop, SourceOf, Subscribes, WantsK8s, WantsAudit, BrokerShape
<1> QED
  BY <1>1, StreamInvHolds, PTL

\* What a client is sent of the audit trail is what its handler took from the
\* channel, less what it filters out, each event once and in the same order.
THEOREM TrailIsForwarded == Spec => []ForwardsWhatItTook
<1>1. StreamInv => ForwardsWhatItTook
  BY DEF StreamInv, ForwardInv, ForwardOf, ForwardsWhatItTook
<1> QED
  BY <1>1, StreamInvHolds, PTL

-----------------------------------------------------------------------------
(* From the publisher to the client *)

\* Handlers are among the callers the broker is proved for: they subscribe and
\* cancel as it allows, and so what EventStream does to the broker is, as the
\* broker by itself, a behaviour of the lossy fan-out.
THEOREM StreamsFanOut == Spec => BrokerProofs!ImplementsFanout
<1>1. Broker!Init => BrokerProofs!Init
  BY DEF Broker!Init, BrokerProofs!Init, Broker!NoCall, BrokerProofs!NoCall
<1>2. Init => BrokerProofs!Init
  BY <1>1 DEF Init
<1>3. Spec => BrokerProofs!Spec
  BY <1>2, StepsOfBroker, PTL DEF Spec, BrokerProofs!Spec
<1>4. BrokerProofs!Spec => BrokerProofs!ImplementsFanout
  BY BrokerAssumption, NoSizeIsGiven, BrokerProofs!BrokerImplementsFanout
<1> QED
  BY <1>3, <1>4, PTL

\* The audit events of one publisher that a client is sent.
SeenInOrder ==
  \A h \in Handlers : \A i, j \in SentAudit(h) :
    i < j /\ sent[h][i].pub = sent[h][j].pub => sent[h][i].seq < sent[h][j].seq

\* Across Publish, the channel and the select loop, each client sees what one
\* RPC published in the order it was published, and nothing twice, whatever
\* full buffers, filters and the watch beside it left out or put in between.
THEOREM ClientsSeeOrder == Spec => []SeenInOrder
<1>1. Init => BrokerProofs!OrderInv
  <2>1. Broker!Init => BrokerProofs!Init
    BY DEF Broker!Init, BrokerProofs!Init, Broker!NoCall, BrokerProofs!NoCall
  <2> QED
    BY <2>1, BrokerAssumption, NoSizeIsGiven, BrokerProofs!OrderInvInit DEF Init
<1>2. BrokerInv /\ BrokerProofs!OrderInv /\ [Next]_vars => BrokerProofs!OrderInv'
  BY StepsOfBroker, BrokerAssumption, NoSizeIsGiven, BrokerProofs!OrderInvStep DEF BrokerInv
<1>3. StreamInv /\ BrokerProofs!OrderInv => SeenInOrder
  <2> SUFFICES ASSUME StreamInv, BrokerProofs!OrderInv,
                      NEW h \in Handlers, NEW i \in SentAudit(h), NEW j \in SentAudit(h),
                      i < j, sent[h][i].pub = sent[h][j].pub
               PROVE  sent[h][i].seq < sent[h][j].seq
    BY DEF SeenInOrder
  <2>1. ForwardsWhatItTook /\ BrokerShape
    BY BrokerInvShape DEF StreamInv, ForwardInv, ForwardOf, ForwardsWhatItTook
  <2>2. PICK k \in Handled(h), l \in Handled(h) :
          k < l /\ Forwarded(h, i, k) /\ Forwarded(h, j, l)
    BY <2>1 DEF ForwardsWhatItTook
  <2>3. /\ taken[h] \in Nat /\ taken[h] <= Len(accepted[h]) /\ Len(accepted[h]) \in Nat
        /\ Handled(h) \subseteq 1..taken[h]
    BY <2>1, HandledIsTaken DEF BrokerShape
  <2>4. k \in 1..Len(accepted[h]) /\ l \in 1..Len(accepted[h])
    BY <2>3
  <2>5. /\ sent[h][i].pub = accepted[h][k].pub /\ sent[h][i].seq = accepted[h][k].seq
        /\ sent[h][j].pub = accepted[h][l].pub /\ sent[h][j].seq = accepted[h][l].seq
    BY <2>2 DEF Forwarded, FromAudit
  <2> QED
    BY <2>2, <2>4, <2>5 DEF BrokerProofs!OrderInv, BrokerProofs!PublisherOrder
<1> QED
  BY <1>1, <1>2, <1>3, StreamInvHolds, PTL DEF Spec, StreamInv
=============================================================================
