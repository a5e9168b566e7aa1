---------------------------- MODULE TailStream ----------------------------
(***************************************************************************)
(* internal/streams JSReader.Tail under internal/service TailStream: one   *)
(* RPC, three goroutines and a bounded channel.                            *)
(*                                                                         *)
(*   - nats.go delivers the messages of an ordered consumer, one callback  *)
(*     at a time; the callback sends into the channel, or gives up once    *)
(*     the context is done, and recovers if the channel was closed;        *)
(*   - the cleanup goroutine waits for the context, stops the consumer and *)
(*     closes the channel;                                                 *)
(*   - the handler receives, decodes, filters and sends to the client,     *)
(*     which may take for ever while the client does not read; on its      *)
(*     return gRPC cancels the context of the stream.                      *)
(*                                                                         *)
(* A message is its stream sequence number; message n is published at time *)
(* n.  The ordered consumer is external: it delivers every message from    *)
(* its start on, in order, and may deliver a little after Stop.            *)
(***************************************************************************)
EXTENDS Integers, Sequences, SequencesExt

CONSTANTS
  StartAtSeqs, StartAtTSs,  \* values of TailOpts.StartAtSeq and StartAtTS; 0 is unset
  BufSize,                  \* TailOpts.BufSize
  NoMetadata,               \* messages whose Metadata() fails
  Rejected,                 \* messages buildEnvelope returns nil for
  MaxSeq,                   \* bound: messages the stream ever holds
  MaxLate                   \* bound: callbacks that begin after Stop

ASSUME TailAssumption ==
  /\ StartAtSeqs \subseteq Nat /\ StartAtTSs \subseteq Nat
  /\ BufSize \in Int /\ MaxSeq \in Nat /\ MaxLate \in Nat
  /\ NoMetadata \subseteq 1..MaxSeq /\ Rejected \subseteq 1..MaxSeq

DefaultTailBufSize == 64

Capacity == IF BufSize <= 0 THEN DefaultTailBufSize ELSE BufSize

VARIABLES
  opts,       \* [seq, ts]: the options of the call
  last,       \* last sequence number in the stream
  start,      \* first sequence number the consumer is to deliver
  next,       \* next one it will deliver
  consumer,   \* "none", "running", "stopped" by Stop, "dead" of its own
  late,       \* callbacks begun after Stop
  cb,         \* callback goroutine: "idle" or "sending"
  inHand,     \* message the callback sends
  ch,         \* contents of the channel
  closed,     \* close(ch) happened
  crashed,    \* a panic left a goroutine, and the process is gone
  ctxDone,    \* the stream's context is canceled
  cleanup,    \* cleanup goroutine: "none", "waiting", "stopping", "exited"
  hpc,        \* handler: "start", "receiving", "sending" the last received, "done"
  received,   \* history: messages the handler took from the channel
  sent        \* history: messages sent to the client

vars == <<opts, last, start, next, consumer, late, cb, inHand, ch, closed, crashed,
          ctxDone, cleanup, hpc, received, sent>>

Init ==
  /\ opts \in [seq : StartAtSeqs, ts : StartAtTSs]
  /\ last \in 0..MaxSeq
  /\ start = 0 /\ next = 0
  /\ consumer = "none" /\ late = 0
  /\ cb = "idle" /\ inHand = 0
  /\ ch = << >> /\ closed = FALSE /\ crashed = FALSE
  /\ ctxDone = FALSE
  /\ cleanup = "none" /\ hpc = "start"
  /\ received = << >> /\ sent = << >>

-----------------------------------------------------------------------------
(* Tail *)

\* Mutant: the timestamp wins when both options are set.
TimeFirst ==
  IF opts.ts > 0 THEN opts.ts ELSE IF opts.seq > 0 THEN opts.seq ELSE last + 1

\* Deliver policy: by sequence, else by time, else new messages only.
FirstToDeliver ==
  IF opts.seq > 0 THEN opts.seq ELSE IF opts.ts > 0 THEN opts.ts ELSE last + 1

TailOpens ==
  /\ hpc = "start"
  /\ start' = FirstToDeliver
  /\ next' = FirstToDeliver
  /\ consumer' = "running"
  /\ cleanup' = "waiting"
  /\ hpc' = "receiving"
  /\ UNCHANGED <<opts, last, late, cb, inHand, ch, closed, crashed, ctxDone, received, sent>>

\* No such stream, no consumer, or Consume failed: the RPC returns an error.
TailFails ==
  /\ hpc = "start"
  /\ hpc' = "done"
  /\ UNCHANGED <<opts, last, start, next, consumer, late, cb, inHand, ch, closed, crashed,
                 ctxDone, cleanup, received, sent>>

-----------------------------------------------------------------------------
(* The callback *)

Delivers == consumer = "running" \/ (consumer = "stopped" /\ late < MaxLate)

CallbackBegins ==
  /\ cb = "idle"
  /\ Delivers
  /\ next <= last
  /\ next' = next + 1
  /\ late' = IF consumer = "stopped" THEN late + 1 ELSE late
  /\ IF next \in NoMetadata
     THEN UNCHANGED <<cb, inHand>>
     ELSE cb' = "sending" /\ inHand' = next
  /\ UNCHANGED <<opts, last, start, consumer, ch, closed, crashed, ctxDone, cleanup, hpc,
                 received, sent>>

\* Mutant: the callback has no deferred recover.
NotRecovered == TRUE

\* Whether the panic of a send on the closed channel leaves the callback.
Escapes == FALSE

HasRoom == Len(ch) < Capacity

\* The send case of the callback's select: it is ready when there is room, or
\* when the channel is closed, and then it panics.
CallbackSends ==
  /\ cb = "sending"
  /\ closed \/ HasRoom
  /\ cb' = "idle"
  /\ crashed' = (crashed \/ (closed /\ Escapes))
  /\ ch' = IF closed THEN ch ELSE Append(ch, inHand)
  /\ UNCHANGED <<opts, last, start, next, consumer, late, inHand, closed, ctxDone, cleanup, hpc,
                 received, sent>>

\* Mutant: the callback gives a message up when the channel is full.
GivesUpWhenFull == ctxDone \/ Len(ch) >= Capacity

GivesUp == ctxDone

\* The context case of the callback's select: the message is dropped.
CallbackGivesUp ==
  /\ cb = "sending"
  /\ GivesUp
  /\ cb' = "idle"
  /\ UNCHANGED <<opts, last, start, next, consumer, late, inHand, ch, closed, crashed, ctxDone,
                 cleanup, hpc, received, sent>>

-----------------------------------------------------------------------------
(* The cleanup goroutine *)

\* Mutant: the consumer is not stopped.
NotStopped == consumer

\* The consumer after cc.Stop().
Stopped == IF consumer = "running" THEN "stopped" ELSE consumer

CleanupStops ==
  /\ cleanup = "waiting"
  /\ ctxDone
  /\ cleanup' = "stopping"
  /\ consumer' = Stopped
  /\ UNCHANGED <<opts, last, start, next, late, cb, inHand, ch, closed, crashed, ctxDone, hpc,
                 received, sent>>

CleanupCloses ==
  /\ cleanup = "stopping"
  /\ cleanup' = "exited"
  /\ closed' = TRUE
  /\ UNCHANGED <<opts, last, start, next, consumer, late, cb, inHand, ch, crashed, ctxDone, hpc,
                 received, sent>>

-----------------------------------------------------------------------------
(* The handler *)

HandlerCtxDone ==
  /\ hpc = "receiving"
  /\ ctxDone
  /\ hpc' = "done"
  /\ UNCHANGED <<opts, last, start, next, consumer, late, cb, inHand, ch, closed, crashed,
                 ctxDone, cleanup, received, sent>>

\* The channel is closed and drained.
HandlerSeesClose ==
  /\ hpc = "receiving"
  /\ closed /\ ch = << >>
  /\ hpc' = "done"
  /\ UNCHANGED <<opts, last, start, next, consumer, late, cb, inHand, ch, closed, crashed,
                 ctxDone, cleanup, received, sent>>

\* buildEnvelope returns an envelope.
Passes(n) == n \notin Rejected

\* A message is decoded and filtered, and skipped, or srv.Send is called.
HandlerReceives ==
  /\ hpc = "receiving"
  /\ ch # << >>
  /\ ch' = Tail(ch)
  /\ received' = Append(received, Head(ch))
  /\ hpc' = IF Passes(Head(ch)) THEN "sending" ELSE "receiving"
  /\ UNCHANGED <<opts, last, start, next, consumer, late, cb, inHand, closed, crashed, ctxDone,
                 cleanup, sent>>

\* Send returns once flow control lets the message through.
SendReturns ==
  /\ hpc = "sending"
  /\ sent' = Append(sent, Last(received))
  /\ hpc' = "receiving"
  /\ UNCHANGED <<opts, last, start, next, consumer, late, cb, inHand, ch, closed, crashed,
                 ctxDone, cleanup, received>>

\* Send fails, and ends the RPC.
SendFails ==
  /\ hpc = "sending"
  /\ hpc' = "done"
  /\ UNCHANGED <<opts, last, start, next, consumer, late, cb, inHand, ch, closed, crashed,
                 ctxDone, cleanup, received, sent>>

SendEnds == SendReturns \/ SendFails

-----------------------------------------------------------------------------
(* Environment *)

Published ==
  /\ last < MaxSeq
  /\ last' = last + 1
  /\ UNCHANGED <<opts, start, next, consumer, late, cb, inHand, ch, closed, crashed, ctxDone,
                 cleanup, hpc, received, sent>>

\* The client cancels, or gRPC does because the handler has returned.
ContextEnds ==
  /\ ~ctxDone
  /\ ctxDone' = TRUE
  /\ UNCHANGED <<opts, last, start, next, consumer, late, cb, inHand, ch, closed, crashed,
                 cleanup, hpc, received, sent>>

ClientCancels == hpc # "start" /\ ContextEnds
HandlerReturned == hpc = "done" /\ ContextEnds

\* The consumer ends on its own: its stream is deleted or the connection to
\* NATS is closed.
ConsumerDies ==
  /\ consumer = "running"
  /\ consumer' = "dead"
  /\ UNCHANGED <<opts, last, start, next, late, cb, inHand, ch, closed, crashed, ctxDone,
                 cleanup, hpc, received, sent>>

-----------------------------------------------------------------------------
CallbackStep == CallbackBegins \/ CallbackSends \/ CallbackGivesUp
CleanupStep == CleanupStops \/ CleanupCloses
HandlerStep == HandlerCtxDone \/ HandlerSeesClose \/ HandlerReceives \/ SendEnds

Next ==
  \/ TailOpens \/ TailFails
  \/ CallbackStep \/ CleanupStep \/ HandlerStep
  \/ Published \/ ClientCancels \/ HandlerReturned \/ ConsumerDies

Spec == Init /\ [][Next]_vars

\* gRPC does not leave a Send blocked once the context has ended.
Unblocked == ctxDone /\ SendEnds

\* Goroutines are scheduled, a select does not pass over a ready case for ever,
\* and gRPC ends the context of a handler that has returned.  NATS need not
\* deliver and the client need not read.
Fairness ==
  /\ WF_vars(CallbackSends) /\ WF_vars(CallbackGivesUp)
  /\ WF_vars(CleanupStep)
  /\ WF_vars(HandlerCtxDone) /\ WF_vars(HandlerSeesClose) /\ WF_vars(HandlerReceives)
  /\ WF_vars(Unblocked) /\ WF_vars(HandlerReturned)

FairSpec == Spec /\ Fairness

-----------------------------------------------------------------------------
(* Properties *)

\* Messages the client asked for and the consumer has delivered so far.
AskedFor(n) == IF opts.seq > 0 THEN n >= opts.seq ELSE IF opts.ts > 0 THEN n >= opts.ts
               ELSE n >= start
Delivered == {n \in 1..(next - 1) : AskedFor(n) /\ n \notin NoMetadata}

Increasing(s) == \A i, j \in DOMAIN s : i < j => s[i] < s[j]

\* What the handler took, and after it what waits in the channel and in the
\* callback's hand.
InFlight == IF cb = "sending" THEN << inHand >> ELSE << >>
Pipe == received \o ch \o InFlight

\* Until the context ends every delivered message is with the handler, in the
\* channel, which keeps to its capacity, or in the callback's hand, once and in
\* order: backpressure delays but loses nothing.  After that the selects on both
\* sides may pass messages over, but still none is repeated, out of order or not
\* asked for.  The client is sent what was received less what the filter
\* rejects and less the last one while it is in a Send, or when that has failed.
NoGap ==
  /\ Increasing(Pipe) /\ ToSet(Pipe) \subseteq Delivered
  /\ ~ctxDone => ToSet(Pipe) = Delivered
  /\ Len(ch) <= IF BufSize > 0 THEN BufSize ELSE 64
  /\ Increasing(sent) /\ ToSet(sent) \subseteq ToSet(received) \ Rejected
  /\ \A i \in DOMAIN received : \/ received[i] \in Rejected \cup ToSet(sent)
                                \/ hpc \in {"sending", "done"} /\ i = Len(received)

\* Tail implements the bounded feed: the channel and the hand of the callback
\* are its queue.  A callback that nats.go still runs after Stop may send on the
\* channel that the cleanup goroutine has closed; the process survives it.
Feed == INSTANCE BoundedFeed
          WITH Room <- Capacity + 1, Skipped <- NoMetadata, from <- start, pos <- next,
               queue <- ch \o InFlight, taken <- received, cut <- ctxDone, up <- ~crashed

ImplementsFeed == Feed!AbsSpec

\* The end of the context, which follows any return of the handler, ends the
\* callback's wait, the consumer and all three goroutines.
NothingLeftRunning == hpc = "done" /\ cb = "idle" /\ cleanup \in {"none", "exited"}
ContextEndReleasesAll == ctxDone ~> [](NothingLeftRunning /\ consumer # "running")

\* As long as no Send blocks for ever, a message that NATS has delivered is sent
\* to the client, unless the filter rejects it, or the RPC ends: neither the
\* callback's wait on a full channel, however small, nor the end of the consumer
\* strands it.
AllReceived ==
  []<>(hpc # "sending") =>
    \A n \in 1..MaxSeq :
      n \in Delivered ~> (n \in ToSet(sent) \cup Rejected \/ ctxDone \/ hpc = "done")

\* "The returned channel is closed when ctx is canceled or the consumer
\* terminates; callers detect end via channel close" (streams.go:36-38).
ClosesWhenConsumerEnds == consumer = "dead" ~> closed
=============================================================================
