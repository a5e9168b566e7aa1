----------------------------- MODULE StreamRead -----------------------------
(***************************************************************************)
(* internal/service StreamRead, StreamStats and StreamList over the        *)
(* JSReader of internal/streams: an RPC reads a bounded batch of a stream  *)
(* that goes on growing at one end and expiring at the other, and returns  *)
(* the messages that decode and pass its jq filter (internal/filter); or   *)
(* it reports how much the stream holds.                                   *)
(*                                                                         *)
(* As in TailStream a message is its stream sequence number and message n  *)
(* was published at time n.  The stream, its ordered consumer and the      *)
(* batch are external: a batch delivers what the stream still holds, in    *)
(* order, and ends when it is full, when FetchMaxWait is over, or with an  *)
(* error.                                                                  *)
(***************************************************************************)
EXTENDS Integers, Sequences, SequencesExt

CONSTANTS
  Limits, Sinces, Untils,   \* fields of requests; a bound of 0 is unset
  streamReadDefaultLimit, streamReadMaxLimit,   \* of the RPC
  defaultReadLimit, maxReadLimit,               \* of the reader
  NoMetadata,               \* messages whose Metadata() fails
  Malformed,                \* messages that are not JSON objects
  Yields,                   \* Yields[n]: what the filter yields for message n,
                            \* a sequence of "truthy", "falsy" and "error"
  MaxSeq                    \* bound: messages the stream ever holds

VARIABLES
  req,          \* [op, limit, filter, since, until], op "read", "stats" or "list"
  first, last,  \* the stream holds first..last
  pc,           \* "called", "fetching", "fetched", "done"
  start,        \* first message the consumer may deliver
  next,         \* the next one, unless it has expired
  delivered,    \* messages the batch has delivered
  raw,          \* messages Read returns
  out,          \* messages of the response
  report,       \* [messages, bounds] of a stats or list response
  answer        \* "none", "ok", "error"

vars == <<req, first, last, pc, start, next, delivered, raw, out, report, answer>>

Lesser(a, b) == IF a <= b THEN a ELSE b
Greater(a, b) == IF a <= b THEN b ELSE a

\* A limit that is not positive asks for the default.
Bounded(limit, default, max) == Lesser(IF limit <= 0 THEN default ELSE limit, max)

Limit == Bounded(req.limit, streamReadDefaultLimit, streamReadMaxLimit)

\* With a filter four times as many messages are fetched, up to the ceiling.
backendLimit == IF req.filter THEN Lesser(Limit * 4, streamReadMaxLimit) ELSE Limit

FetchLimit == Bounded(backendLimit, defaultReadLimit, maxReadLimit)

Requests ==
  [op : {"read"}, limit : Limits, filter : BOOLEAN, since : Sinces, until : Untils]
    \cup [op : {"stats", "list"}, limit : {0}, filter : {FALSE}, since : Sinces, until : Untils]

Init ==
  /\ req \in Requests
  /\ first = 1
  /\ last \in 0..MaxSeq
  /\ pc = "called"
  /\ start = 0 /\ next = 0 /\ delivered = 0
  /\ raw = << >> /\ out = << >>
  /\ report = [messages |-> 0, bounds |-> << >>]
  /\ answer = "none"

Fails ==
  /\ pc' = "done"
  /\ answer' = "error"
  /\ UNCHANGED <<req, first, last, start, next, delivered, raw, out, report>>

\* No backend, no name, a window or a filter that does not parse; or the reader
\* finds no stream, or makes no consumer or no batch.
CallFails == pc = "called" /\ Fails

\* The consumer starts at the oldest message, or at the oldest not before since.
FetchBegins ==
  /\ pc = "called" /\ req.op = "read"
  /\ start' = Greater(first, req.since)
  /\ next' = start'
  /\ pc' = "fetching"
  /\ UNCHANGED <<req, first, last, delivered, raw, out, report, answer>>

-----------------------------------------------------------------------------
(* The batch *)

\* The message the batch delivers next: what has expired is passed over.
Available == Greater(next, first)

After(n) == req.until # 0 /\ n > req.until

\* A message after until ends the reading, one without metadata is skipped.
FetchMessage ==
  /\ pc = "fetching"
  /\ delivered < FetchLimit
  /\ Available <= last
  /\ delivered' = delivered + 1
  /\ next' = Available + 1
  /\ pc' = IF Available \notin NoMetadata /\ After(Available) THEN "fetched" ELSE "fetching"
  /\ raw' = IF Available \in NoMetadata \/ After(Available) THEN raw ELSE Append(raw, Available)
  /\ UNCHANGED <<req, first, last, start, out, report, answer>>

\* The batch is full, or two seconds have passed.
FetchEnds ==
  /\ pc = "fetching"
  /\ pc' = "fetched"
  /\ UNCHANGED <<req, first, last, start, next, delivered, raw, out, report, answer>>

\* batch.Error(): what was read is dropped by the caller.  It is looked at when
\* the loop has been left by a message after until, too.
FetchFails == pc \in {"fetching", "fetched"} /\ Fails

-----------------------------------------------------------------------------
(* The response *)

\* filter.Match: the first result that is not false or null, unless an error
\* comes before it.  A filter that yields nothing does not match.
Match(n) == \E k \in DOMAIN Yields[n] :
  Yields[n][k] = "truthy" /\ \A j \in 1..k : Yields[n][j] # "error"

Passes(n) == n \notin Malformed /\ (req.filter => Match(n))
Kept ==
  LET kept[k \in 0..Len(raw)] ==
        IF k = 0 THEN << >>
        ELSE IF Passes(raw[k]) THEN Append(kept[k - 1], raw[k]) ELSE kept[k - 1]
  IN kept[Len(raw)]

\* Mutant: the loop does not stop at the limit.
KeptAll == Kept

UpToLimit == SubSeq(Kept, 1, Lesser(Len(Kept), Limit))

Respond ==
  /\ pc = "fetched"
  /\ out' = UpToLimit
  /\ answer' = "ok"
  /\ pc' = "done"
  /\ UNCHANGED <<req, first, last, start, next, delivered, raw, report>>

\* JSReader.Stats and List: what the stream holds now, whatever the window asked
\* for, which stats echo; a list gives the times of the first and the last
\* message of a stream that has any.
Reported ==
  [messages |-> last - first + 1,
   bounds |-> CASE req.op = "stats" -> << req.since, req.until >>
                [] req.op = "list" -> IF first <= last THEN << first, last >> ELSE << >>]

\* StreamStats and StreamList.
Describe ==
  /\ pc = "called" /\ req.op # "read"
  /\ report' = Reported
  /\ answer' = "ok"
  /\ pc' = "done"
  /\ UNCHANGED <<req, first, last, start, next, delivered, raw, out>>

-----------------------------------------------------------------------------
(* Environment *)

Published ==
  /\ last < MaxSeq
  /\ last' = last + 1
  /\ UNCHANGED <<req, first, pc, start, next, delivered, raw, out, report, answer>>

\* The stream's own limits drop its oldest message.
Expired ==
  /\ first <= last
  /\ first' = first + 1
  /\ UNCHANGED <<req, last, pc, start, next, delivered, raw, out, report, answer>>

Next ==
  \/ CallFails \/ FetchBegins
  \/ FetchMessage \/ FetchEnds \/ FetchFails
  \/ Respond \/ Describe
  \/ Published \/ Expired

Spec == Init /\ [][Next]_vars

-----------------------------------------------------------------------------
(* Properties *)

\* The messages the request asks for.
Wanted ==
  { n \in start..last :
      /\ n \notin NoMetadata \cup Malformed
      /\ req.filter => Match(n)
      /\ n >= req.since
      /\ req.until # 0 => n <= req.until }

\* A response holds only messages that were asked for, in order, no more than
\* the limit, and from the oldest on without a gap: up to its last message, or
\* up to all that was fetched if it falls short of the limit, a message that
\* was asked for is missing only if the stream itself has dropped it.
ReadsOldestWithoutGap ==
  answer = "ok" /\ req.op = "read" =>
    LET full == Len(out) = Bounded(req.limit, streamReadDefaultLimit, streamReadMaxLimit)
        upTo == IF full THEN Last(out) ELSE next - 1
    IN  /\ Len(out) <= Bounded(req.limit, streamReadDefaultLimit, streamReadMaxLimit)
        /\ \A i, j \in 1..Len(out) : i < j => out[i] < out[j]
        /\ ToSet(out) \subseteq Wanted
        /\ \A n \in Wanted : n <= upTo => n \in ToSet(out) \/ n < first
=============================================================================
