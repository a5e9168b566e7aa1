---------------------------- MODULE AuditBroker ----------------------------
(***************************************************************************)
(* internal/audit/broker.go: the in-memory fan-out of audit events.        *)
(*                                                                         *)
(* Publishers are the goroutines of mutating RPCs inside Publish; callers  *)
(* are the goroutines that call Subscribe and the cancel function it       *)
(* returned (EventStream handlers).  The map of subscriptions is guarded   *)
(* by a sync.RWMutex: Publish walks it under the read lock and offers the  *)
(* event to each channel without blocking, Subscribe and cancel change it  *)
(* under the write lock.                                                   *)
(*                                                                         *)
(* A channel is an immutable queue: accepted[s] is every event ever put    *)
(* into it, and the first taken[s] of them have been received, so that the *)
(* buffer holds the rest.                                                  *)
(***************************************************************************)
EXTENDS Integers, Sequences, FiniteSets

CONSTANTS Publishers,   \* goroutines that call Publish
          Callers,      \* goroutines that call Subscribe and cancel
          Subs,         \* subscriptions, one per call of Subscribe
          BufSize,      \* BufSize[s]: the bufSize argument of that call
          MaxCalls,     \* bound: MaxCalls[p] calls of Publish by p
          Nobody        \* holder of a lock that is free

ASSUME BufSizeAssumption == BufSize \in [Subs -> Int]
ASSUME MaxCallsAssumption == MaxCalls \in [Publishers -> Nat]
ASSUME NobodyAssumption == Nobody \notin Callers

DefaultBufSize == 64

\* Mutant: the default for a missing buffer size is forgotten.
RawSize(s) == BufSize[s]

\* Capacity of the channel Subscribe makes.
Capacity(s) == IF BufSize[s] <= 0 THEN DefaultBufSize ELSE BufSize[s]

VARIABLES
  subs,       \* Broker.subs: subscriptions Publish walks over
  chan,       \* chan[s]: "none" before Subscribe makes it, "open", "closed"
  accepted,   \* accepted[s]: events put into the channel, in order
  taken,      \* taken[s]: how many of them were received
  pc,         \* pc[p]: where publisher p is in Publish
  calls,      \* calls[p]: Publish calls of p so far, the current one included
  todo,       \* todo[p]: subscriptions the range loop of p has not visited
  want,       \* want[c]: the lock-taking call c is in, or NoCall
  writer,     \* caller whose Lock() is announced or granted, or Nobody
  panicked,   \* a send on a closed channel or a second close happened
  dropped,    \* history: dropped[s], the events that met a full buffer of s,
              \*   with how many it had been given and had received by then
  due,        \* history: due[p], subs when p's current call was made
  owed        \* history: owed[s], events published wholly while s was in subs

brokerVars == <<subs, chan, accepted, taken, pc, calls, todo, want, writer,
                panicked, dropped, due, owed>>

Event == [pub : Publishers, seq : Nat \ {0}]

Loss == [event : Event, given : Nat, received : Nat]

NoCall == [op |-> "none"]
Call == [op : {"subscribe", "cancel"}, sub : Subs]

\* The event of p's current call.
Current(p) == [pub |-> p, seq |-> calls[p]]

Buffered(s) == Len(accepted[s]) - taken[s]

Full(s) == Buffered(s) >= Capacity(s)

\* Events the channel of s has been given.
Given(s) == { accepted[s][i] : i \in 1..Len(accepted[s]) }

\* Events it has lost.
Lost(s) == { d.event : d \in dropped[s] }

\* Mutant: cancel and Subscribe do not wait for the read locks.
NoReaders == {}

\* Publishers that hold the read lock.
Readers == { p \in Publishers : pc[p] = "sending" }

Init ==
  /\ subs = {}
  /\ chan = [s \in Subs |-> "none"]
  /\ accepted = [s \in Subs |-> << >>]
  /\ taken = [s \in Subs |-> 0]
  /\ pc = [p \in Publishers |-> "idle"]
  /\ calls = [p \in Publishers |-> 0]
  /\ todo = [p \in Publishers |-> {}]
  /\ want = [c \in Callers |-> NoCall]
  /\ writer = Nobody
  /\ panicked = FALSE
  /\ dropped = [s \in Subs |-> {}]
  /\ due = [p \in Publishers |-> {}]
  /\ owed = [s \in Subs |-> {}]

-----------------------------------------------------------------------------
(* Publish *)

\* Publish is entered on a broker that is not nil; the event is stamped
\* before the lock is taken.
PublishCall(p) ==
  /\ pc[p] = "idle"
  /\ calls[p] < MaxCalls[p]
  /\ pc' = [pc EXCEPT ![p] = "locking"]
  /\ calls' = [calls EXCEPT ![p] = @ + 1]
  /\ due' = [due EXCEPT ![p] = subs]
  /\ UNCHANGED <<subs, chan, accepted, taken, todo, want, writer, panicked, dropped, owed>>

\* RLock waits for a writer that holds the lock or has announced itself.
PublishRLock(p) ==
  /\ pc[p] = "locking"
  /\ writer = Nobody
  /\ pc' = [pc EXCEPT ![p] = "sending"]
  /\ todo' = [todo EXCEPT ![p] = subs]
  /\ UNCHANGED <<subs, chan, accepted, taken, calls, want, writer, panicked, dropped, due, owed>>

\* Mutants of the loop: it stops at the first full buffer, it tries a full
\* buffer again (a blocking send), it visits a subscription twice.
StopWhenFull(p, s) == IF Full(s) THEN {} ELSE todo[p] \ {s}
RetryWhenFull(p, s) == IF Full(s) THEN todo[p] ELSE todo[p] \ {s}
VisitAgain(p, s) == todo[p]

\* What the range loop has left once it has visited s.
AfterVisit(p, s) == todo[p] \ {s}

\* The event of p, lost to s as things stand.
LossNow(p, s) == [event |-> Current(p), given |-> Len(accepted[s]), received |-> taken[s]]

\* One turn of the loop, in the arbitrary order of a Go map: the event goes
\* into the buffer or, when that is full, is dropped for this subscription.
\* A send on a closed channel panics, full or not.
PublishSend(p, s) ==
  /\ pc[p] = "sending"
  /\ s \in todo[p]
  /\ todo' = [todo EXCEPT ![p] = AfterVisit(p, s)]
  /\ panicked' = (panicked \/ chan[s] = "closed")
  /\ accepted' = IF chan[s] = "open" /\ ~Full(s)
                 THEN [accepted EXCEPT ![s] = Append(@, Current(p))] ELSE accepted
  /\ dropped' = IF chan[s] = "open" /\ Full(s)
                THEN [dropped EXCEPT ![s] = @ \cup {LossNow(p, s)}] ELSE dropped
  /\ UNCHANGED <<subs, chan, taken, pc, calls, want, writer, due, owed>>

\* The loop is over: RUnlock, and Publish returns.
PublishReturn(p) ==
  /\ pc[p] = "sending"
  /\ todo[p] = {}
  /\ pc' = [pc EXCEPT ![p] = "idle"]
  /\ due' = [due EXCEPT ![p] = {}]
  /\ owed' = [s \in Subs |-> IF s \in due[p] \cap subs
                             THEN owed[s] \cup {Current(p)} ELSE owed[s]]
  /\ UNCHANGED <<subs, chan, accepted, taken, calls, todo, want, writer, panicked, dropped>>

-----------------------------------------------------------------------------
(* Subscribe and cancel *)

\* Subscribe makes a new subscription and its channel, then asks for the lock.
SubscribeCall(c, s) ==
  /\ want[c] = NoCall
  /\ chan[s] = "none"
  /\ chan' = [chan EXCEPT ![s] = "open"]
  /\ want' = [want EXCEPT ![c] = [op |-> "subscribe", sub |-> s]]
  /\ UNCHANGED <<subs, accepted, taken, pc, calls, todo, writer, panicked, dropped, due, owed>>

\* Whoever has the cancel function may call it, more than once too: it exists
\* once Subscribe has returned.
CancelCall(c, s) ==
  /\ want[c] = NoCall
  /\ s \in subs \/ chan[s] = "closed"
  /\ want' = [want EXCEPT ![c] = [op |-> "cancel", sub |-> s]]
  /\ UNCHANGED <<subs, chan, accepted, taken, pc, calls, todo, writer, panicked, dropped, due, owed>>

\* First half of RWMutex.Lock: c is the one writer, new readers now wait.
LockAnnounce(c) ==
  /\ want[c] # NoCall
  /\ writer = Nobody
  /\ writer' = c
  /\ UNCHANGED <<subs, chan, accepted, taken, pc, calls, todo, want, panicked, dropped, due, owed>>

\* Lock granted once the readers have left; then b.subs[s] = struct{}{} and
\* Unlock.
SubscribeLocked(c) ==
  /\ writer = c
  /\ want[c].op = "subscribe"
  /\ Readers = {}
  /\ subs' = subs \cup {want[c].sub}
  /\ want' = [want EXCEPT ![c] = NoCall]
  /\ writer' = Nobody
  /\ UNCHANGED <<chan, accepted, taken, pc, calls, todo, panicked, dropped, due, owed>>

\* Lock granted; a subscription still in the map is deleted from it and its
\* channel closed, then Unlock.  A later cancel finds nothing to do.
CancelLocked(c) ==
  /\ writer = c
  /\ want[c].op = "cancel"
  /\ Readers = {}
  /\ LET s == want[c].sub IN
       IF s \in subs
       THEN /\ subs' = subs \ {s}
            /\ chan' = [chan EXCEPT ![s] = "closed"]
            /\ panicked' = (panicked \/ chan[s] = "closed")
       ELSE UNCHANGED <<subs, chan, panicked>>
  /\ want' = [want EXCEPT ![c] = NoCall]
  /\ writer' = Nobody
  /\ UNCHANGED <<accepted, taken, pc, calls, todo, dropped, due, owed>>

\* The holder of the channel takes the oldest buffered event; a closed channel
\* still hands out what it holds.
Receive(s) ==
  /\ Buffered(s) > 0
  /\ taken' = [taken EXCEPT ![s] = @ + 1]
  /\ UNCHANGED <<subs, chan, accepted, pc, calls, todo, want, writer, panicked, dropped, due, owed>>

-----------------------------------------------------------------------------
PublishStep(p) ==
  \/ PublishRLock(p)
  \/ \E s \in Subs : PublishSend(p, s)
  \/ PublishReturn(p)

LockStep(c) == LockAnnounce(c) \/ SubscribeLocked(c) \/ CancelLocked(c)

Next ==
  \/ \E p \in Publishers : PublishCall(p) \/ PublishStep(p)
  \/ \E c \in Callers : LockStep(c) \/ \E s \in Subs : SubscribeCall(c, s) \/ CancelCall(c, s)
  \/ \E s \in Subs : Receive(s)

Spec == Init /\ [][Next]_brokerVars

\* Goroutines inside Publish, Subscribe or cancel are scheduled.  RLock and
\* Lock are strongly fair: sync.RWMutex admits every waiting reader when a
\* writer unlocks, and its writer mutex is starvation-free.  Nobody has to
\* call anything, and nobody has to receive.
BrokerFairness ==
  /\ \A p \in Publishers : WF_brokerVars(PublishStep(p)) /\ SF_brokerVars(PublishRLock(p))
  /\ \A c \in Callers : WF_brokerVars(LockStep(c)) /\ SF_brokerVars(LockAnnounce(c))

FairSpec == Spec /\ BrokerFairness

-----------------------------------------------------------------------------
(* Properties *)

\* State has its type; the buffer never holds more than its capacity.
TypeOK ==
  /\ subs \in SUBSET Subs
  /\ chan \in [Subs -> {"none", "open", "closed"}]
  /\ accepted \in [Subs -> Seq(Event)]
  /\ taken \in [Subs -> Nat]
  /\ \A s \in Subs : Buffered(s) \in 0..Capacity(s)
  /\ pc \in [Publishers -> {"idle", "locking", "sending"}]
  /\ calls \in [Publishers -> Nat]
  /\ todo \in [Publishers -> SUBSET Subs]
  /\ want \in [Callers -> Call \cup {NoCall}]
  /\ writer \in Callers \cup {Nobody}
  /\ panicked \in BOOLEAN
  /\ dropped \in [Subs -> SUBSET Loss]
  /\ due \in [Publishers -> SUBSET Subs]
  /\ owed \in [Subs -> SUBSET Event]

\* However Publish, Subscribe and cancel interleave, nothing is sent on a
\* closed channel and no channel is closed twice, so no RPC panics.
NoPanic == ~panicked

\* "every other subscriber still gets it": a subscription that was in the map
\* from the call of Publish to its return has been given the event, unless its
\* own buffer was full.  No other subscriber's slowness can cost it the event.
NoSilentLoss == \A s \in Subs : owed[s] \subseteq Given(s) \cup Lost(s)

\* A subscription loses an event only while it has a whole buffer of others to
\* receive, where a bufSize of zero or less asks for the default of 64; and the
\* loss is a gap in its place: of the same publisher it was given only older
\* events before it and is given only newer ones after it, whoever else publishes
\* and however much it has received since.
LossNeedsBacklog ==
  \A s \in Subs : \A d \in dropped[s] :
    /\ d.given - d.received >= (IF BufSize[s] > 0 THEN BufSize[s] ELSE 64)
    /\ \A i \in 1..Len(accepted[s]) : accepted[s][i].pub = d.event.pub =>
         IF i <= d.given THEN accepted[s][i].seq < d.event.seq
                         ELSE accepted[s][i].seq > d.event.seq

\* A subscriber sees the events of one publisher in the order they were
\* published and none of them twice, whatever was dropped in between.
PublisherOrder ==
  \A s \in Subs : \A i, j \in 1..Len(accepted[s]) :
    (i < j /\ accepted[s][i].pub = accepted[s][j].pub)
      => accepted[s][i].seq < accepted[s][j].seq

\* Publish returns although no subscriber need ever receive: a bad consumer
\* cannot hold back the RPC that publishes.  Nor can publishers that keep
\* publishing hold back Subscribe and cancel.
CallsReturn ==
  /\ \A p \in Publishers : pc[p] # "idle" ~> pc[p] = "idle"
  /\ \A c \in Callers : want[c] # NoCall ~> want[c] = NoCall

\* The broker implements the lossy fan-out.
Membership(s) ==
  IF s \in subs THEN "in" ELSE IF chan[s] = "closed" THEN "gone" ELSE "out"

Fanout == INSTANCE LossyFanout
            WITH member <- [s \in Subs |-> Membership(s)],
                 issued <- calls, stream <- accepted

ImplementsFanout == Fanout!AbsSpec
=============================================================================
