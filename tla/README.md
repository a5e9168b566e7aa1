# A TLA+ model of eob-mcp

eob-mcp serves one Kubernetes site to a fleet: a gRPC service (`EoBService`) and an MCP endpoint
over HTTP in one process, backed by the site's API server, a JetStream store and a NATS defense
bus. This directory holds TLA+ modules of all of it but the generated protocol code, the TLC
configurations that check them, and proofs that TLAPS checks. File and line references are to the
repository.

Run `tlc -config MCAuditBroker.cfg MCAuditBroker` (each module and configuration go by the table
under Runs) and `tlapm M.tla` for the modules `*Proofs` (`ReadsProofs` takes some minutes).
`PROJECT.json` is the index: components, runs, findings, hazards, the source lines of every
definition, and for every property a mutated definition that breaks it.

## Inventory

| Component | State | Operations | What makes it correct |
|---|---|---|---|
| Audit broker, `internal/audit/broker.go` | map of subscriptions under an RWMutex, one buffered channel each | Publish, Subscribe, cancel | no send on a closed channel; losses only while a whole buffer is waiting; order per publisher; nobody is blocked by a slow subscriber |
| EventStream, `service/event_stream.go` | per RPC: a Kubernetes watch and a broker subscription, each possibly nil | open, select loop, deferred release | releases both on every return; forwards what it takes; goes on with one source, ends with none |
| TailStream and `JSReader.Tail`, `service/tail_stream.go`, `streams/nats.go` | per RPC: bounded channel, ordered consumer, callback, cleanup goroutine | start, callback, cleanup, receive loop | no gap or duplicate under backpressure; no crash on the close race; no goroutine left behind |
| Mutating RPCs, `service/resource_{apply,delete}.go`, `batch_apply.go` | none of their own; objects in the API server, audit events | ResourceApply, ResourceDelete, BatchApply | every change audited once, with its outcome; batches add up; bounded time |
| Journey, `service/journey.go` | counts, series, probers, totals, endpoint index under one mutex | Start, Close, onMessage, sample, maybeRefreshIndex, snapshot | every denial plotted once; names agree with the index; silent channels vanish; what a handler encodes stays as it was; Close returns |
| Lifecycle, `cmd/eob-mcp/main.go`, `internal/config`, `internal/k8s`, `streams/discover.go` | identity, wired backends, two listeners, error and signal channels | run, buildService, FromEnv, discovery, shutdownAll | one identity, of one source; tools of the backends that are there; shutdown ends; backends outlive requests |
| MCP server and tools, `internal/mcp`, `internal/tools` | tool registry, filled before serving | RegisterTool, Dispatch, ServeHTTP, the tools | one response per request, none per notification |
| Bounded reads, `service/stream_{read,list,stats}.go`, `JSReader.{Read,List,Stats}`, `internal/filter` | none; a batch per call | StreamRead, StreamList, StreamStats | limits and window respected, no gap although the stream grows and expires meanwhile |
| WatchResources, `service/watch_resources.go` | one watch per RPC | open, relay, stop | a client that re-opens from its last version misses nothing |
| Read-only resource RPCs, `service/resource_{get,list,schema}.go` | none | one API call each | the objects and the schema asked for, of one moment |
| Resolution and graph, `service/{resolve_endpoints,east_west_graph}.go` | an index, or edges, per call | three lists, then look up; sample, count and cut | lookup order, true names, counts that add up, the heaviest edges first |
| Health and identity, `service/{eob_health,trace_health,heartbeat,cluster_identity}.go` | none | several reads of the cluster in turn | an error is not an absence; time bounds |

How they interact: the mutating RPCs call `Publish` in their own goroutine; EventStream handlers
call `Subscribe` and `cancel` in theirs; TailStream handlers read a channel that a NATS goroutine
fills and a third goroutine closes; Journey is written by NATS goroutines and its sampler and read
by HTTP handlers; `run` registers the tools of what it wired, starts the listeners and closes the
backends after them; the RPCs that read share nothing but the site. The hard behaviours are the
close races of the two channels, losses at full buffers, late answers after a timeout, slow API
calls in the middle of a periodic task or under one deadline, a site that changes between two reads
of it, a client that neither reads nor goes away, slices that outlive their mutex, and shutdown with
requests that need not end. Nothing is persisted, so there is no recovery after a crash to get
wrong.

## Modules

- Three abstract specifications say what a component promises. `LossyFanout` is the broker's:
  members of a fan-out see some of the events issued while they are members, each publisher's in
  order and at most once. `BoundedFeed` is Tail's: a bounded queue between a source and a reader,
  which loses nothing until it is cut, and then only its newest, and which stays up. `AuditedStore`
  is that of the mutating RPCs: a call changes the store at most once, while it is open or after it,
  and is reported exactly once, as a success only if it changed what it was to change.
- `AuditBroker` is `broker.go`. Publishers and callers are goroutines. `Publish` is four actions:
  the call, `RLock`, one `PublishSend` per turn of the range loop (a Go map is walked in any
  order), and the return. `Subscribe` and `cancel` are a call, the announcement of the writer (as
  in `sync.RWMutex`, from then on new readers wait) and the critical section. A channel is the
  sequence of all it accepted and a count of what was received; `due`, `owed` and `dropped`, which
  keeps of each lost event how much had been given and received at its loss, are history.
- `EventStream` is `event_stream.go` over an instance of `AuditBroker`: a handler is both a caller
  and the owner of a subscription. Every action names the branch of the select it stands for;
  `Return` and `Canceled` are the deferred calls. A branch with a response calls `Send`, which is a
  stage of its own (`sending`): gRPC flow control may hold it for as long as a live client does not
  read, as `buildGRPCServer` sets no keepalive or timeout; it returns, fails, or is ended with the
  context (`SendReturns`, `SendFails`). The watch and the client may fail or end at any time. The
  branch for a closed audit channel has no action: `ServedWhileSelecting` shows it is never taken.
- `TailStream` is `JSReader.Tail` and its handler. The ordered consumer is external: it delivers in
  order from its start, one callback at a time, may end on its own, and may begin callbacks after
  `Stop`, as the comment at `nats.go:196-200` says. The handler's `Send` may block as EventStream's
  may; the channel then fills, and the callback waits behind it. It implements `BoundedFeed`, whose
  queue is the channel and, behind it, the message in the callback's hand.
- `ResourceOps` is the three mutating RPCs. A ResourceApply is a batch of one. The API server may
  fail any call, and a call whose client has given up may still be served, or be lost. Manifests
  are records of what the code looks at: group, kind, namespace, name, and whether an apiVersion
  is there. It implements `AuditedStore`: open calls are those sent or answered, loose ones those
  given up before they were served, events are the trail.
- `Journey` is `journey.go`; an action is one critical section of its mutex, and the lists that
  rebuild the index happen between two of them. A clock of whole seconds drives the ticker. In it
  a channel's history is a value. `SeriesRing` is one history as the Go slice it is: an append may
  write the array that a handler is still encoding, or go to a new one.
- `Lifecycle` is `run` with what it calls: identity from the environment and `resolv.conf`, which
  Kubernetes config is loaded, discovery of the stream store, tools, TLS, listeners, shutdown. A
  site is what the process finds at start. One MCP exchange is followed through `McpServer`; other
  requests are counted. A listener that has failed keeps its connections, and requests still come
  on them until it is shut down.
- `McpServer` is `internal/mcp` and `internal/tools`: the registry, `ServeHTTP` and `Dispatch` with
  every refusal in the order the code makes it, the tool's call to its backend, its panic, and the
  write timeout. `Lifecycle` brings it in by `INSTANCE` and shares `tools` and `exchange` with it.
- `SiteQueries` is the RPCs that report on a site. Each is a plan, a sequence of calls made in turn
  with the deadlines the code gives them; each call answers with what is there at that moment. The
  fields of the responses are operators over what was read. A graph's edges are sorted by count with
  ties in any order, and cut. `connectTimeout` is what `nats.Connect` takes in all: the option in
  `east_west_graph.go:69` bounds each dial and each handshake.
- `StreamRead` is `StreamRead` over `JSReader.Read`, with `List`, `Stats` and `Match` of the jq
  filter: the batch delivers message by message while the stream grows and expires, and ends full,
  late, at the first message after `until` or with an error; decoding, the filter and the cut at
  the limit are one action, as they touch nothing shared.
- `ResourceReads` is get, list, schema and watch over a store that is a log of versions and that
  compacts it, with a client that keeps a copy and re-opens from the version it was given.
- `Reads` composes `SiteQueries`, `StreamRead` and `ResourceReads`, and `JourneyHistory` composes
  `Journey` and `SeriesRing`, through a variable (`asked`, `view`) that is chosen at the start and
  says which of them moves: they share no state, so their interleavings would add nothing.
- `PromisesProofs` (the three abstract specifications), `AuditBrokerProofs`, `EventStreamProofs`,
  `TailStreamProofs`, `ResourceOpsProofs`, `JourneyProofs` (with `SeriesRing`), `LifecycleProofs`
  (with `McpServer`) and `ReadsProofs` (the three modules of `Reads`) hold the theorems; the models
  do not depend on them.
- `MC*` give the constants their values.

## Runs

| Configuration (module, where it differs) | Shows | Bounds |
|---|---|---|
| `MCAuditBroker` | `NoPanic`, `NoSilentLoss`, `LossNeedsBacklog`, `PublisherOrder`, and that the broker implements `LossyFanout` (`ImplementsFanout`) | two publishers with two and one events, two callers, two subscriptions: a buffer of 1, which one slow subscriber fills at once, and the default of 64 |
| `MCAuditBrokerLive` (`MCAuditBroker`) | `CallsReturn` | one subscription, callers that may cancel again and again |
| `MCEventStream` | `NothingLeaks`, `ServedWhileSelecting`, `ForwardsWhatItTook`, `CancelEndsStream`, `AuditOutlivesWatch` | one handler, as handlers share nothing but the broker; five requests over every source and filter; three audit events and a watch event |
| `MCEventStreamEnd` (`MCEventStream`) | violates `EndsWhenSourcesGone` | a request for the watch alone |
| `MCTailStream` | `NoGap`, `ContextEndReleasesAll`, `AllReceived`, and that Tail implements `BoundedFeed` (`ImplementsFeed`) | a channel of 1, five messages, one of them without metadata and one rejected, two late callbacks, every combination of the start options |
| `MCTailStreamEnd` (`MCTailStream`) | violates `ClosesWhenConsumerEnds` | the same |
| `MCResourceOps` | `EveryChangeAudited`, `OutcomesAreTrue`, `BatchAddsUp`, `RpcReturns`, and that the RPCs implement `AuditedStore` (`ImplementsLedger`) | two clients with one RPC each, batches of up to two items, objects both clients touch |
| `MCResourceOpsDelete` (`MCResourceOps`) | violates `NotFoundMeansGone` | one client, two RPCs |
| `MCJourney` | `EveryDenialPlotted`, `NamesFollowIndex`, `NoGhostLine`, `SnapshotIsStable`, `CloseReturns` | three messages on two channels, a clock up to 9, an idle window of 5, lists of up to two seconds; a ring of three and nine samples; the time constants are scaled down and keep their order |
| `MCLifecycle` | `AnsweredOnce`, `RequestsGetTheirGrace`, `ServesWhatItFound`, `ShutdownEnds` | five sites; fourteen kinds of MCP request, with and without id, and malformed ones; beside it one HTTP request and one RPC at a time |
| `MCReads` | `AnswersInTime`, `AnswersWereTrue`, `NamesWereTrue`, `GraphAddsUp`, `ReadsOldestWithoutGap`, `ResumeLosesNothing`, `ReadsAreTrue` | two changes of the site, one failure besides timeouts, five lists of directives (none, ready, short, unwanted, mixed), three bus messages over three edges, of which a graph shows one or two; seven stream messages, limits below, at and above the ceilings; three objects, three versions of the store; time constants and ceilings scaled down in order |
| `MCHeartbeat` (`MCSiteQueries`) | violates `HeartbeatIsQuick` | as `MCReads` |

The bounds are small because the hazards are: a panic needs one publisher and one cancel, an order
violation two events of one publisher, a loss a buffer of one, a gap a channel of one and two
messages, a missed trail entry one call and its timeout, a torn answer one change between two
calls, a lost change one compaction, a shared array one ring's length of samples after a snapshot.
`AnswersWereTrue` goes through a response field by field: a component's status is that of an object
the site held, and `error` if and only if its own call failed; the directives' statuses and their
aggregate are those of one list (a directive that wants no node is `absent`, and the aggregate is
`absent` only if all are, `degraded` if any is); ready and total pods of each node are the sums over
the lists read; versions and counts are of values held, and stand empty or zero for want of an
answer only where the backend is not wired or the call failed. `LossNeedsBacklog` is about the moment
of a loss: a whole buffer was given and not yet received then, however much had been received
before. `GraphAddsUp` compares the response with the messages heard: order, counts, the cut, and that
no edge left out is heavier than one listed.

`CHECK_DEADLOCK FALSE` is set in every configuration: the bounded instances come to rest when their
events are used up, and a process, handler or call that has returned does nothing more. What has to
keep moving is stated as liveness.

Each violated property quotes a comment of the code; the findings in `PROJECT.json` say where.

- EventStream does not end when both of its sources are gone: `continue` skips the check.
- The channel of `Tail` is not closed when the consumer ends on its own.
- Deleting without a namespace reports as gone what applying without one put into `default`.
- Heartbeat makes four calls, one of them without a timeout, where its comment counts two.

Remarks that no run states, as no document is plain enough to be violated or the model only
follows the code:

- An API server that is down at start ends `run` (`NewDynClient`), although `main.go:101-103` and
  `217-218` call the wiring best-effort. `WireDyn` does so too.
- A watch that ends among its initial objects and is re-opened from the version given is not shown
  the rest of them; `ResumeLosesNothing` holds of clients that were once given everything.
- A malformed notification is answered (`http.go:47-52`), and `notifications/initialized` with an
  id is not; `AnsweredOnce` is about well-formed messages and names this exception.
- A graph with the longest window takes as long as the write timeout of the HTTP listener
  (`main.go:47`), so that such a call is not answered over MCP; `AnsweredOnce` grants the timeout.
- `stream_read.go:17` speaks of the latest messages where the code, and `ReadsOldestWithoutGap`,
  give the oldest.
- The schemas of the tools are told to clients and are not enforced.

## Fairness

Steps of goroutines that are inside a call are weakly fair: the Go scheduler runs them. `RLock` and
`Lock` are strongly fair, as `sync.RWMutex` lets every waiting reader in when a writer unlocks and
queues writers on a mutex that does not starve. A case of a select that stays ready is eventually
taken, as Go chooses among ready cases at random; in Journey, whose sampler leaves its select
between ticks, the stop case is strongly fair for that reason. Timeouts fire. `run` goes on: its
wiring and its shutdown are weakly fair. `JourneyHistory` repeats Journey's fairness for the behaviours
in which the board moves.

Nothing is assumed of clients, subscribers, the API server, NATS or signals: none of them need ever
act. In particular a client need not read, so a `Send` need not return: only the end of the stream's
context unblocks it (`Unblocked` is weakly fair, `SendReturns` and `SendFails` are not), and NATS need
not begin a callback. The two properties about what a live client goes on to receive
are therefore conditional. `AuditOutlivesWatch` and `AllReceived` say `[]<>(hpc # "sending") => ...`:
in behaviours in which no `Send` blocks for ever, that is, in which the client reads, audit events
keep being received, and messages that NATS has delivered reach the client, unless the RPC ends.
`CancelEndsStream` and `ContextEndReleasesAll` have no such condition.

## Proofs

Every safety invariant that a passing run checks is a theorem for all values of the constants that
meet the assumptions of its module, and so are the three refinements. No invariant below is
inductive as it stands. Each is strengthened in layers, which are proved one after the other, a
layer using those before it; a proof of a layer has a step per action.

A refinement is proved from those layers: initial states map to initial states, and each action to
one of the abstract specification or to a stutter. What a reader of the abstract specification may
rely on is proved of it in `PromisesProofs`, each by one joint induction with its types:
`InIssueOrder` and `OnlyIssued` of the fan-out, `NothingSkipped` of the feed (what was taken, and
after it what is queued, is all that was entered, in order, until the cut), `AllAccounted` of the
store (every change is reported or its call is open, and a report of a success is true).

The liveness properties are out of the prover's reach, but four of them rest on a measure, which is
safety and is proved: `WritersWaitRunsOut`, `TailRunsOut`, `RpcsRunOut` and `RunRunsOut` state, as
action properties, that each step of the goroutine concerned lowers a bounded number or shrinks a
finite set, and that no step of anyone else raises it. With the fairness above this is why
`CallsReturn`, `ContextEndReleasesAll`, `RpcReturns` and `ShutdownEnds` hold beyond the instances
that TLC runs; that last conclusion, from measure and fairness to liveness, is not machine-checked.

**Broker** (`AuditBrokerProofs`): any publishers, callers, subscriptions, events, buffer sizes.

1. `TypeInv`: `TypeOK`, and a publisher inside `Publish` has made a call.
2. `LockInv`: what a publisher has left to visit is in the map while it holds the read lock, a
   subscription in the map has an open channel, one about to be added is open and not yet in the
   map, and two callers are not about to add the same one. It gives `NoPanic`, because cancel
   closes a channel only when there are no readers.
3. `OrderInv`: what a channel holds of a publisher is no newer than its current event, and older
   than it while the loop has yet to visit that channel. It gives `PublisherOrder`.
4. `LossInv`: while a publisher is in its loop, a subscription it was due to reach is still to be
   visited, was given the event, or lost it to a full buffer. It gives `NoSilentLoss`.
5. `GapInv`: a loss was of a publisher's current event or an older one, and as many events as were
   given before it are still the first the channel accepted; while a publisher has yet to visit a
   subscription, that has lost only older events of it. With `OrderInv` it gives `LossNeedsBacklog`:
   a loss happens at a full backlog, and in its place.

`BrokerImplementsFanout` follows from the first three: `SubscribeLocked` is `Join`, `CancelLocked`
is `Leave` or a stutter, `PublishCall` is `Issue`, `PublishSend` is `Give` or a stutter, the rest
stutter. `WritersWaitRunsOut`: once a writer has announced itself, the readers and the turns their
loops have left (`Ahead`) only get fewer, and are finitely many (`FiniteInv`).

**EventStream** (`EventStreamProofs`) reuses the broker's layers through `INSTANCE`: `StepsOfBroker`
shows that each step of the composition is a step of the broker or leaves it alone, so that handlers
are callers the broker is proved for, and `StreamsFanOut` that the composition, too, implements the
fan-out. `SourceInv` says which of watch, subscription and pending call a handler has at each point
of it; it gives `NothingLeaks` and `ServedWhileSelecting`, and with the latter that the branch for a
closed audit channel is dead code. `ForwardInv` relates what was sent, and
the response a `Send` is busy with, to what was taken.
`ClientsSeeOrder` joins the two ends: from `Publish` to the client an RPC's events keep their order
and none is seen twice.

**TailStream** (`TailStreamProofs`): any capacity, messages and start options. `PipeInv` says of
received, channel and the callback's hand, one after the other, that they increase, hold only what
was asked for, and all of it while the context lives. It needs `TypeInv`, which says how the flags
of the three goroutines go together: a channel is closed only after the context ended. `SentInv`
relates sent to received; `NoGap` follows. `TailImplementsFeed`: `CallbackBegins` is `Enter`, which
passes over a message without metadata; the send into the channel stutters, as the queue holds the
message already; `CallbackGivesUp` and the send on the closed channel, whose panic is recovered, are
`Lose`; `HandlerReceives` is `Take`, its `Send` stutters, the end of the context `Cut`.
`TailRunsOut`: after `Stop` (`StopInv`) callback, cleanup and handler have a bounded number of steps
left (`TailLeft`, which counts on NATS to begin no more than `MaxLate` callbacks then) and one of
them can go until all are gone.

**ResourceOps** (`ResourceOpsProofs`): any clients, requests and batches. Calls have identities
(client, RPC, item), which the layers tie together: `BatchInv` (results stand for the items before
the current one; it gives `BatchAddsUp`), `TrailInv` (a trail has calls made earlier, each once; a
call given up on is in it as an error), `CommitInv` (what changed the store is published or its call
is answered and about to be), `DryInv` (a call that is still served after its client gave up is a
dry run only if its item asked for that) and `OutcomeInv` (`OutcomesAreTrue` with the answer not yet
published). Without the last conjunct of `TrailInv` a late answer could make a trail false.
`LooseInv` (a call that is over and not served has changed nothing, and is alone with its identity)
is what the refinement needs besides: in `RpcsImplementLedger`, `Issue` is `Make`, `ServerAnswers`
is `Change` or a stutter, `Finish` and `GiveUp` are `Report`, `OrphanServed` is `ChangeLate` or,
when it changes nothing, `Lose`. `RpcsRunOut`: an RPC of n items takes at most 3n + 1 steps
(`StepsLeft`).

**Journey** (`JourneyProofs`): any channels, probers, probes, and time constants in the code's
order. `TimeInv` bounds how late a sample can be: two samples on end do not list the cluster, since
an index does not go stale within one list. `CountsInv` and `LinesInv` say since when the channels
with a count or a line were seen, `DeniedInv` that the total is the sum of counts and lines; they give
`NoGhostLine` and `EveryDenialPlotted`. `NamesInv` gives `NamesFollowIndex`. Of `SeriesRing`,
`RingInv` says that a handler's slice ends where the sampler's does or before it in the same array,
so that appends write behind it.

**Lifecycle and MCP** (`LifecycleProofs`): any sites, requests and number of open requests.
`RegistryInv` (the tools are those of the backends, from their registration until the backends are
closed), `ExchangeInv` (`AnsweredOnce`, and an open exchange is owed what its id says),
`StageInv` (which listener can have what open at which stage of `run`; it gives
`RequestsGetTheirGrace`), `BackendInv`, and `IdentityInv`: for a `resolv.conf` of any length the
fields found are those of one site token (`OneTokenFound`), which gives `ServesWhatItFound`.
`RunRunsOut`: the stages of `run` have an order it never goes back in (`RunLeft`), and while it
shuts down the grace period is running or over (`GraceInv`), so that requests cannot hold it up.

**Reads** (`ReadsProofs`):

- `SiteQueries`: `TimesInv` (the deadline of a call, and what is left of it) gives `AnswersInTime`;
  `WasInv` (what was read is a value the site had during the call) gives `NamesWereTrue`. With
  `AskedInv` (each call before the one in progress was made once and has either been read or failed,
  unless its backend is not wired) it gives `AnswersWereTrue`, through a lemma for each field:
  `StatusIsTrue`, `AgentsAreTrue` (by `SumsTell`, an induction over the list), `SummaryCounts`,
  `VersionIsTrue`. `Accounted` (an edge's count is the number of messages heard of it) and `Shown`
  (what is shown is `Ranked`: sorted, without repetition, cut) give `GraphAddsUp`.
- `StreamRead`: `ReadInv` says that the batch has returned, or had a reason to pass by, every
  sequence number from its start to where it is; filter and cut at the limit are shown not to
  skip by an induction over what was fetched. It gives `ReadsOldestWithoutGap`.
- `ResourceReads`: `AnswersInv` (list and get are of one version each, a schema of the version
  picked) gives `ReadsAreTrue`. `ResumeLosesNothing` needs the responses still on the wire: `WatchInv`
  has a chain of client states, one for each response after the one before, such that none misses
  anything of its version, and the last agrees with where the server's watch stands.

Loops over lists and sets (sums, the labels of a domain, storage versions, the batch) are recursive
functions or folds over sets. The library states induction and recursion with an operator as
parameter, which no prover here can instantiate; the modules derive them for sets of numbers and for
finite sets (`SetInduction`, `RecursiveFunction`, `SumExists`) and apply those.

Assumptions on constants say what the code or its counterparts guarantee: bounds are numbers;
identifiers that mean "nothing" are none of the others; the CRD API group is not empty
(`config.go` has a default); `CallTimeout` is at most `IndexRefresh`, and below the activity window,
which is below `ChannelIdle`, as the constants in `journey.go` are; of the nodes that should run an
agent no more have it ready; an object is its group, kind, namespace and name, cluster-wide
ones without a namespace; a CRD has at most one storage version, as the API server enforces. TLC
evaluates them all in the runs.

Only model-checked: liveness (`CallsReturn`, `CancelEndsStream`, `AuditOutlivesWatch`,
`ContextEndReleasesAll`, `AllReceived`, `RpcReturns`, `CloseReturns`, `ShutdownEnds`), which the
prover does not do under fairness, and the violated properties.

## Not modelled

- The generated code (`gen/`): message types and stubs without logic of this repository.
- Data that no property tells apart: the wording of responses, events and the HTML page, JSON, the
  contents of objects, workloads and service accounts of resolved addresses, descriptions and
  schemas of tools, logging.
- What libraries do: jq's evaluation (a filter is the sequence of results it yields for a message),
  TLS beyond which files must be given and load, HTTP request limits other than the ones `ServeHTTP`
  checks, the resolver. API server, JetStream and NATS are modelled as far as the code relies on
  them, and marked external.
- Known gaps, listed in `PROJECT.json` under `hazards` without a property: what a failed refresh of
  the index should leave, the failing start above, the watch re-opened too early, the graph that
  takes as long as its client waits, and the gRPC address that cannot be listened on, at which `run`
  returns past `shutdownAll` and requests do not get their grace (`RequestsGetTheirGrace` excepts it).

## Plan

Modelled and checked: every component but generated code. Proved: every safety invariant of the
passing runs, the three refinements, and four of the measures that liveness rests on. What is left,
in order of worth:

1. The measures of the other liveness properties. `CloseReturns` and `AllReceived` need one that
   includes the ticker and the publisher; `CancelEndsStream` and `AuditOutlivesWatch` one of the
   handler that is built on `WritersWaitRunsOut`.
2. An abstract specification of the MCP exchange as request and response. `AnsweredOnce` says of the
   exchange most of what it would.
3. Properties for the known gaps, once the repository says what should hold.
