---------------------------- MODULE EventStream ----------------------------
(***************************************************************************)
(* internal/service/event_stream.go on top of internal/audit: each handler *)
(* is one EventStream RPC that merges a Kubernetes watch over Events with  *)
(* its subscription of the audit broker, until the client goes away, a     *)
(* send fails, or (so its comment says) both sources are gone.             *)
(*                                                                         *)
(* A handler is itself the caller of Subscribe and cancel and owns one     *)
(* subscription, so Handlers stand for Callers and for Subs of AuditBroker.*)
(* The watch and the gRPC stream are the environment: the watch may fail   *)
(* to open, deliver events and bookmarks of the requested namespace, and   *)
(* be closed by the API server.  The client may cancel, and may stop       *)
(* reading: flow control then blocks a Send until it reads again or the    *)
(* context of the stream ends, as no keepalive or timeout is set.          *)
(***************************************************************************)
EXTENDS Integers, Sequences

CONSTANTS Publishers, MaxCalls, Nobody,   \* as in AuditBroker
          Handlers,     \* EventStream RPCs
          Requests,     \* requests clients make
          EventClass,   \* what filters look at: [kind |-> ..., ns |-> ...]
          ClassOf,      \* ClassOf[p]: class of the events publisher p publishes
          Bookmark,     \* a watch event whose object is not a corev1.Event
          MaxK8s        \* bound: watch events each handler is given

ASSUME RequestsAssumption == \A r \in Requests : r.source \in {"", "k8s", "audit", "other"}
ASSUME BrokerAssumption == Nobody \notin Handlers /\ MaxCalls \in [Publishers -> Nat]
ASSUME ClassOfAssumption == ClassOf \in [Publishers -> EventClass]

VARIABLES subs, chan, accepted, taken, pc, calls, todo, want, writer,
          panicked, dropped, due, owed
VARIABLES
  hpc,        \* hpc[h]: where handler h is
  req,        \* req[h]: its request, or NoRequest
  k8sCh,      \* k8sCh[h]: "nil", "open", or "closed" by the API server
  auditCh,    \* auditCh[h]: "nil" or "open"
  ctxDone,    \* ctxDone[h]: the stream's context is canceled
  k8sSeen,    \* k8sSeen[h]: watch events taken so far
  inHand,     \* inHand[h]: the response h's Send is busy with, or NoResponse
  result,     \* result[h]: what the handler returns, "ok" or "error"
  sent        \* sent[h]: responses sent to the client, in order

Broker == INSTANCE AuditBroker
            WITH Callers <- Handlers, Subs <- Handlers,
                 BufSize <- [h \in Handlers |-> 0]      \* s.audit.Subscribe(0)

brokerVars == <<subs, chan, accepted, taken, pc, calls, todo, want, writer,
                panicked, dropped, due, owed>>
handlerVars == <<hpc, req, k8sCh, auditCh, ctxDone, k8sSeen, inHand, result, sent>>
vars == <<brokerVars, handlerVars>>

NoRequest == [source |-> "none", kind |-> "", ns |-> ""]
NoResponse == [src |-> "none"]

FromAudit(e) == [src |-> "audit", seq |-> e.seq, pub |-> e.pub]
FromK8s(c) == [src |-> "k8s", class |-> c]

\* The kind filter, applied to both sources; the namespace one is left to the
\* API server, which applies it to the watch alone.
KindMatches(h, class) == req[h].kind \in {"", class.kind}
WatchShows(h, class) == req[h].ns \in {"", class.ns}

Init ==
  /\ Broker!Init
  /\ hpc = [h \in Handlers |-> "idle"]
  /\ req = [h \in Handlers |-> NoRequest]
  /\ k8sCh = [h \in Handlers |-> "nil"]
  /\ auditCh = [h \in Handlers |-> "nil"]
  /\ ctxDone = [h \in Handlers |-> FALSE]
  /\ k8sSeen = [h \in Handlers |-> 0]
  /\ inHand = [h \in Handlers |-> NoResponse]
  /\ result = [h \in Handlers |-> "none"]
  /\ sent = [h \in Handlers |-> << >>]

-----------------------------------------------------------------------------
(* Opening the two sources *)

WantsK8s(r) == r.source \in {"", "k8s"}
WantsAudit(r) == r.source \in {"", "audit"}

\* The watch is opened first, if it is wanted, and then the subscription.
Open(h, r) ==
  /\ hpc[h] = "idle"
  /\ req' = [req EXCEPT ![h] = r]
  /\ k8sCh' = [k8sCh EXCEPT ![h] = IF WantsK8s(r) THEN "open" ELSE "nil"]
  /\ IF WantsAudit(r)
     THEN /\ Broker!SubscribeCall(h, h)
          /\ hpc' = [hpc EXCEPT ![h] = "subscribing"]
     ELSE /\ hpc' = [hpc EXCEPT ![h] = "select"]
          /\ UNCHANGED brokerVars
  /\ UNCHANGED <<auditCh, ctxDone, k8sSeen, inHand, result, sent>>

\* A watch that cannot be opened fails the RPC before anything is subscribed.
OpenFails(h, r) ==
  /\ hpc[h] = "idle"
  /\ WantsK8s(r)
  /\ req' = [req EXCEPT ![h] = r]
  /\ hpc' = [hpc EXCEPT ![h] = "done"]
  /\ result' = [result EXCEPT ![h] = "error"]
  /\ UNCHANGED <<brokerVars, k8sCh, auditCh, ctxDone, k8sSeen, inHand, sent>>

\* Subscribe returns.
Subscribed(h) ==
  /\ hpc[h] = "subscribing"
  /\ Broker!SubscribeLocked(h)
  /\ auditCh' = [auditCh EXCEPT ![h] = "open"]
  /\ hpc' = [hpc EXCEPT ![h] = "select"]
  /\ UNCHANGED <<req, k8sCh, ctxDone, k8sSeen, inHand, result, sent>>

-----------------------------------------------------------------------------
(* The select loop *)

\* Mutant: the loop has no case for the context.
NoCtxCase(h) == FALSE

SelectCtxDone(h) ==
  /\ hpc[h] = "select"
  /\ ctxDone[h]
  /\ hpc' = [hpc EXCEPT ![h] = "returning"]
  /\ result' = [result EXCEPT ![h] = "ok"]
  /\ UNCHANGED <<brokerVars, req, k8sCh, auditCh, ctxDone, k8sSeen, inHand, sent>>

\* srv.Send is called.
Respond(h, resp) ==
  /\ hpc' = [hpc EXCEPT ![h] = "sending"]
  /\ inHand' = [inHand EXCEPT ![h] = resp]
  /\ UNCHANGED <<result, sent>>

\* continue: straight back to select, past the look at the sources.
Skip == UNCHANGED <<hpc, inHand, result, sent>>

SelectK8sEvent(h, obj) ==
  /\ hpc[h] = "select"
  /\ k8sCh[h] = "open"
  /\ k8sSeen[h] < MaxK8s
  /\ obj # Bookmark => WatchShows(h, obj)
  /\ k8sSeen' = [k8sSeen EXCEPT ![h] = @ + 1]
  /\ IF obj # Bookmark /\ KindMatches(h, obj) THEN Respond(h, FromK8s(obj)) ELSE Skip
  /\ UNCHANGED <<brokerVars, req, k8sCh, auditCh, ctxDone>>

SelectK8sClosed(h) ==
  /\ hpc[h] = "select"
  /\ k8sCh[h] = "closed"
  /\ k8sCh' = [k8sCh EXCEPT ![h] = "nil"]
  /\ Skip
  /\ UNCHANGED <<brokerVars, req, auditCh, ctxDone, k8sSeen>>

\* Mutant: audit events are only received beside an open watch.
AuditBesideWatch(h) == auditCh[h] = "open" /\ k8sCh[h] = "open"

AuditReady(h) == auditCh[h] = "open"

\* Mutant: the event is read after a later one has taken its place.
NewestEvent(h) == accepted[h][Len(accepted[h])]

NextEvent(h) == accepted[h][taken[h] + 1]

\* The next buffered audit event.  The branch for a closed audit channel is
\* not here: ServedWhileSelecting shows that it is never taken.
SelectAudit(h) ==
  /\ hpc[h] = "select"
  /\ AuditReady(h)
  /\ Broker!Receive(h)
  /\ IF KindMatches(h, ClassOf[NextEvent(h).pub])
     THEN Respond(h, FromAudit(NextEvent(h))) ELSE Skip
  /\ UNCHANGED <<req, k8sCh, auditCh, ctxDone, k8sSeen>>

BothGone(h) == k8sCh[h] = "nil" /\ auditCh[h] = "nil"

\* Send returns once flow control lets the response through, and the loop looks
\* at its sources.
SendReturns(h) ==
  /\ hpc[h] = "sending"
  /\ sent' = [sent EXCEPT ![h] = Append(@, inHand[h])]
  /\ inHand' = [inHand EXCEPT ![h] = NoResponse]
  /\ IF BothGone(h)
     THEN /\ hpc' = [hpc EXCEPT ![h] = "returning"]
          /\ result' = [result EXCEPT ![h] = "ok"]
     ELSE /\ hpc' = [hpc EXCEPT ![h] = "select"]
          /\ UNCHANGED result
  /\ UNCHANGED <<brokerVars, req, k8sCh, auditCh, ctxDone, k8sSeen>>

\* Send fails, and the handler returns.
SendFails(h) ==
  /\ hpc[h] = "sending"
  /\ hpc' = [hpc EXCEPT ![h] = "returning"]
  /\ result' = [result EXCEPT ![h] = "error"]
  /\ inHand' = [inHand EXCEPT ![h] = NoResponse]
  /\ UNCHANGED <<brokerVars, req, k8sCh, auditCh, ctxDone, k8sSeen, sent>>

SendEnds(h) == SendReturns(h) \/ SendFails(h)

-----------------------------------------------------------------------------
(* Returning: deferred calls run last first, auditCancel before stop *)

\* Mutant: only a client that goes away has its subscription canceled.
CancelOnlyIfCtxDone(h) == auditCh[h] = "open" /\ ctxDone[h]

\* auditCancel was deferred.
MustCancel(h) == auditCh[h] = "open"

Return(h) ==
  /\ hpc[h] = "returning"
  /\ IF MustCancel(h)
     THEN /\ Broker!CancelCall(h, h)
          /\ hpc' = [hpc EXCEPT ![h] = "canceling"]
          /\ UNCHANGED k8sCh
     ELSE /\ hpc' = [hpc EXCEPT ![h] = "done"]
          /\ k8sCh' = [k8sCh EXCEPT ![h] = "nil"]
          /\ UNCHANGED brokerVars
  /\ UNCHANGED <<req, auditCh, ctxDone, k8sSeen, inHand, result, sent>>

\* Mutant: the handler cancels and goes on with its loop.
BackToSelect(h) == "select"

AfterCancel(h) == "done"

Canceled(h) ==
  /\ hpc[h] = "canceling"
  /\ Broker!CancelLocked(h)
  /\ hpc' = [hpc EXCEPT ![h] = AfterCancel(h)]
  /\ k8sCh' = [k8sCh EXCEPT ![h] = "nil"]
  /\ UNCHANGED <<req, auditCh, ctxDone, k8sSeen, inHand, result, sent>>

-----------------------------------------------------------------------------
(* Environment *)

ClientCancels(h) ==
  /\ hpc[h] # "idle"
  /\ ~ctxDone[h]
  /\ ctxDone' = [ctxDone EXCEPT ![h] = TRUE]
  /\ UNCHANGED <<brokerVars, hpc, req, k8sCh, auditCh, k8sSeen, inHand, result, sent>>

WatchCloses(h) ==
  /\ k8sCh[h] = "open"
  /\ k8sCh' = [k8sCh EXCEPT ![h] = "closed"]
  /\ UNCHANGED <<brokerVars, hpc, req, auditCh, ctxDone, k8sSeen, inHand, result, sent>>

LockAnnounce(h) == Broker!LockAnnounce(h) /\ UNCHANGED handlerVars
PublishRLock(p) == Broker!PublishRLock(p) /\ UNCHANGED handlerVars
PublishStep(p) == Broker!PublishStep(p) /\ UNCHANGED handlerVars
Publish(p) == Broker!PublishCall(p) /\ UNCHANGED handlerVars

-----------------------------------------------------------------------------
HandlerStep(h) == Subscribed(h) \/ Return(h) \/ Canceled(h)

Next ==
  \/ \E p \in Publishers : Publish(p) \/ PublishStep(p)
  \/ \E h \in Handlers :
       \/ HandlerStep(h) \/ LockAnnounce(h)
       \/ SelectCtxDone(h) \/ SelectK8sClosed(h) \/ SelectAudit(h)
       \/ \E obj \in EventClass \cup {Bookmark} : SelectK8sEvent(h, obj)
       \/ SendEnds(h)
       \/ ClientCancels(h) \/ WatchCloses(h)
       \/ \E r \in Requests : Open(h, r) \/ OpenFails(h, r)

Spec == Init /\ [][Next]_vars

\* The end of the context ends a Send, which nothing else has to.
Unblocked(h) == ctxDone[h] /\ SendEnds(h)

\* Goroutines are scheduled; a ready case of a select is not passed over for
\* ever, as Go picks among the ready ones at random (weak fairness will do, since
\* MaxK8s bounds how often another is picked); locks are as in AuditBroker.
\* Clients, the API server and publishers owe nothing: a client need not read.
Fairness ==
  /\ \A p \in Publishers : WF_vars(PublishStep(p)) /\ SF_vars(PublishRLock(p))
  /\ \A h \in Handlers :
       /\ WF_vars(HandlerStep(h)) /\ SF_vars(LockAnnounce(h))
       /\ WF_vars(SelectCtxDone(h)) /\ WF_vars(SelectK8sClosed(h)) /\ WF_vars(SelectAudit(h))
       /\ WF_vars(Unblocked(h))

FairSpec == Spec /\ Fairness

-----------------------------------------------------------------------------
(* Properties *)

\* Whichever way a handler returns, failed sends included, the broker no longer
\* knows its subscription and its watch is stopped: nothing leaks.
NothingLeaks ==
  \A h \in Handlers : hpc[h] = "done" =>
    h \notin subs /\ chan[h] # "open" /\ k8sCh[h] = "nil"

\* A handler in its loop has the sources that were asked for and no others,
\* until the API server closes the watch; the channel of its subscription is
\* in the broker's map and open, so that the loop never sees it closed.
InLoop(h) == hpc[h] \in {"select", "sending"}

ServedWhileSelecting ==
  \A h \in Handlers : InLoop(h) =>
    /\ k8sCh[h] # "nil" => req[h].source \in {"", "k8s"}
    /\ auditCh[h] = IF req[h].source \in {"", "audit"} THEN "open" ELSE "nil"
    /\ auditCh[h] = "open" => h \in subs /\ chan[h] = "open"

\* What the client is sent from the audit source is what the handler took from
\* its channel, less the kinds it filters out, in the same order: merging with
\* the watch loses, repeats and reorders nothing.  Of the events it took all it
\* wants were sent, but for the one a Send is busy with, until a send fails; and
\* as no event is in a channel twice (PublisherOrder), none is sent twice.
Wanted(h, k) == KindMatches(h, ClassOf[accepted[h][k].pub])
SentAudit(h) == {i \in DOMAIN sent[h] : sent[h][i].src = "audit"}

\* Response i is the k-th event of the channel.
Forwarded(h, i, k) == sent[h][i] = FromAudit(accepted[h][k])

\* The last event taken waits in a Send; those before it are done with.
AuditInHand(h) == hpc[h] = "sending" /\ inHand[h].src = "audit"
Handled(h) == IF AuditInHand(h) THEN 1..(taken[h] - 1) ELSE 1..taken[h]

ForwardsWhatItTook ==
  \A h \in Handlers :
    /\ \A i \in SentAudit(h) : \E k \in Handled(h) : Wanted(h, k) /\ Forwarded(h, i, k)
    /\ \A i, j \in SentAudit(h) : i < j =>
         \E k, l \in Handled(h) : k < l /\ Forwarded(h, i, k) /\ Forwarded(h, j, l)
    /\ InLoop(h) =>
         \A k \in Handled(h) : Wanted(h, k) => \E i \in SentAudit(h) : Forwarded(h, i, k)
    /\ AuditInHand(h) =>
         Wanted(h, taken[h]) /\ inHand[h] = FromAudit(accepted[h][taken[h]])

\* A client that goes away ends its stream, subscription and watch included,
\* even if it has long stopped reading.
CancelEndsStream ==
  \A h \in Handlers : ctxDone[h] ~> hpc[h] = "done"

\* The API server closing the watch does not take the audit trail from a client
\* that asked for both: its events keep being received, until the client goes
\* away or a send fails, as long as no Send blocks for ever, that is, as long as
\* the client reads.
AuditOutlivesWatch ==
  \A h \in Handlers :
    []<>(hpc[h] # "sending") =>
      (taken[h] < Len(accepted[h])
         ~> \/ taken[h] = Len(accepted[h])
            \/ hpc[h] = "done" /\ (ctxDone[h] \/ result[h] = "error"))

\* "If both sources are gone, end the stream cleanly" (event_stream.go:86).
EndsWhenSourcesGone ==
  \A h \in Handlers : (hpc[h] = "select" /\ BothGone(h)) ~> hpc[h] = "done"
=============================================================================
