------------------------------ MODULE Journey ------------------------------
(***************************************************************************)
(* internal/service/journey.go: the passive dashboard of the defense bus.  *)
(*                                                                         *)
(* NATS callbacks count denials as they arrive; the sampler goroutine      *)
(* turns the counts into per-channel series once a second, forgets silent  *)
(* channels and probers, and now and then rebuilds the index that names    *)
(* probers, listing the cluster outside of the mutex while callbacks go    *)
(* on; HTTP handlers read.  Every action is one critical section of        *)
(* Journey.mu, or a step taken outside of it.                              *)
(*                                                                         *)
(* Time is a clock of whole seconds, the period of the sampler's ticker.   *)
(* Goroutines that can run do so before it advances; only the lists take   *)
(* time, up to their timeout.                                              *)
(***************************************************************************)
EXTENDS Integers, Sequences, FiniteSets, FiniteSetsExt

CONSTANTS
  Channels,       \* channels probes are denied on
  Addrs,          \* prober addresses
  NoAddr,         \* what a message without one has instead
  Probes,         \* denials that can be published: [ch, addr, hasSub, decision],
                  \* hasSub when there is a substitute payload
  HasKube,        \* whether there is a client for the cluster
  HistoryLen,     \* journeyHistoryLen
  ChannelIdle,    \* journeyChannelIdle, in seconds
  ActiveWindow,   \* journeyActiveWindow
  ProberTTL,      \* journeyProberTTL
  IndexRefresh,   \* journeyIndexRefresh
  CallTimeout,    \* k8sCallTimeout
  MaxTime,        \* bound: seconds
  MaxMsgs         \* bound: messages on either subject

ASSUME JourneyAssumption ==
  /\ IsFiniteSet(Channels) /\ Addrs # {} /\ NoAddr \notin Addrs
  /\ \A m \in Probes : m.ch \in Channels /\ m.addr \in Addrs \cup {NoAddr} /\ m.hasSub \in BOOLEAN
  /\ HasKube \in BOOLEAN
  /\ {HistoryLen, ChannelIdle, ProberTTL, IndexRefresh, CallTimeout} \subseteq Nat \ {0}
  /\ ActiveWindow \in Nat /\ CallTimeout + 1 < ActiveWindow /\ ActiveWindow < ChannelIdle
  /\ CallTimeout <= IndexRefresh

VARIABLES
  clock,
  stage,        \* "new", "starting", "running", "closing", "closed", "failed"
  subs,         \* subjects subscribed
  sampler,      \* "none", "waiting", "listing", "appending", "exited"
  tick,         \* the ticker's channel holds a tick
  sampledAt,    \* now of the sample in progress
  counts,       \* Journey.counts, 0 for a channel it lacks
  series,       \* Journey.series, a function on the channels it has
  lastSeen,     \* Journey.lastSeen, likewise
  lastSub,      \* channels in Journey.lastSub
  probers,      \* Journey.probers: [denied, lastSeen, name] by address
  totals,       \* [denied, tarpit, decoy, threats]: the counters
  idx,          \* Journey.idx: name by address, or NoIndex
  idxBuiltAt,
  sampled       \* history: sampled[ch], sum of all values ever appended

samplerVars == <<sampler, tick, sampledAt>>
boardVars == <<counts, series, lastSeen, lastSub, probers, totals, idx, idxBuiltAt>>
vars == <<clock, stage, subs, samplerVars, boardVars, sampled>>

NoIndex == << >>
Empty == [x \in {} |-> 0]

Init ==
  /\ clock = 0
  /\ stage = "new" /\ subs = {}
  /\ sampler = "none" /\ tick = FALSE /\ sampledAt = 0
  /\ counts = [ch \in Channels |-> 0]
  /\ series = Empty /\ lastSeen = Empty /\ lastSub = {}
  /\ probers = Empty
  /\ totals = [denied |-> 0, tarpit |-> 0, decoy |-> 0, threats |-> 0]
  /\ idx = NoIndex /\ idxBuiltAt = 0
  /\ sampled = [ch \in Channels |-> 0]

-----------------------------------------------------------------------------
(* Start and Close *)

\* Connected, and subscribed to the probes.
StartConnects ==
  /\ stage = "new"
  /\ stage' = "starting"
  /\ subs' = {"probes"}
  /\ UNCHANGED <<clock, samplerVars, boardVars, sampled>>

\* Subscribed to the threats too: the sampler is launched.
StartRuns ==
  /\ stage = "starting"
  /\ stage' = "running"
  /\ subs' = {"probes", "threats"}
  /\ sampler' = "waiting"
  /\ UNCHANGED <<clock, tick, sampledAt, boardVars, sampled>>

\* The connection or a subscription fails: what there is of them is undone.
StartFails ==
  /\ stage \in {"new", "starting"}
  /\ stage' = "failed"
  /\ subs' = {}
  /\ UNCHANGED <<clock, samplerVars, boardVars, sampled>>

\* close(j.stop)
CloseBegins ==
  /\ stage = "running"
  /\ stage' = "closing"
  /\ UNCHANGED <<clock, subs, samplerVars, boardVars, sampled>>

\* <-j.done, then the subscriptions are removed and the connection drained.
CloseEnds ==
  /\ stage = "closing"
  /\ sampler = "exited"
  /\ stage' = "closed"
  /\ subs' = {}
  /\ UNCHANGED <<clock, samplerVars, boardVars, sampled>>

-----------------------------------------------------------------------------
(* onMessage *)

Seen == totals.denied + totals.threats

OnThreat ==
  /\ "threats" \in subs /\ Seen < MaxMsgs
  /\ totals' = [totals EXCEPT !.threats = @ + 1]
  /\ UNCHANGED <<clock, stage, subs, samplerVars, counts, series, lastSeen, lastSub, probers, idx,
                 idxBuiltAt, sampled>>

\* f with f[x] = v, whether or not x was in its domain.
Put(f, x, v) == [y \in DOMAIN f \cup {x} |-> IF y = x THEN v ELSE f[y]]

Denials(a) == IF a \in DOMAIN probers THEN probers[a].denied ELSE 0
NameOf(a) == IF a \in DOMAIN probers THEN probers[a].name ELSE ""

\* A denial is counted for its channel and, if it has one, its prober; some
\* decisions are alarms as well.  What does not parse is ignored.
OnProbe(m) ==
  /\ "probes" \in subs /\ Seen < MaxMsgs
  /\ counts' = [counts EXCEPT ![m.ch] = @ + 1]
  /\ lastSeen' = Put(lastSeen, m.ch, clock)
  /\ lastSub' = IF m.hasSub THEN lastSub \cup {m.ch} ELSE lastSub
  /\ totals' = [totals EXCEPT !.denied = @ + 1,
                              !.tarpit = @ + (IF m.decision = "Tarpit" THEN 1 ELSE 0),
                              !.decoy = @ + (IF m.decision = "DecoyHit" THEN 1 ELSE 0)]
  /\ probers' = IF m.addr = NoAddr THEN probers
                ELSE Put(probers, m.addr, [denied |-> Denials(m.addr) + 1, lastSeen |-> clock,
                                           name |-> NameOf(m.addr)])
  /\ UNCHANGED <<clock, stage, subs, samplerVars, series, idx, idxBuiltAt, sampled>>

-----------------------------------------------------------------------------
(* The sampler *)

\* Mutant: the loop does not look at the stop channel.
NeverStops == FALSE

StopSeen == stage = "closing"

SamplerStops ==
  /\ sampler = "waiting"
  /\ StopSeen
  /\ sampler' = "exited"
  /\ UNCHANGED <<clock, stage, subs, tick, sampledAt, boardVars, sampled>>

IndexStale == HasKube /\ (idx = NoIndex \/ clock - idxBuiltAt > IndexRefresh)

\* A tick is taken; the lists are called first when the index is stale.
SampleBegins ==
  /\ sampler = "waiting"
  /\ tick
  /\ tick' = FALSE
  /\ sampledAt' = clock
  /\ sampler' = IF IndexStale THEN "listing" ELSE "appending"
  /\ UNCHANGED <<clock, stage, subs, boardVars, sampled>>

\* Mutant: a new index is for probers yet to be named.
KeepNames(index) == probers

\* Every prober there is named after the new index.
Renamed(index) == [a \in DOMAIN probers |-> [probers[a] EXCEPT !.name = index[a]]]

\* The lists have returned or failed, or timed out, which leaves an index in
\* which nothing, or less, is found.
IndexBuilt(found) ==
  /\ sampler = "listing"
  /\ LET index == [a \in Addrs |-> IF a \in found THEN "pod" ELSE "external"] IN
       /\ idx' = index
       /\ probers' = Renamed(index)
  /\ idxBuiltAt' = sampledAt
  /\ sampler' = "appending"
  /\ UNCHANGED <<clock, stage, subs, tick, sampledAt, counts, series, lastSeen, lastSub, totals,
                 sampled>>

\* Mutant: a channel is active in the very second it was seen in.
SeenNow == { ch \in DOMAIN lastSeen : lastSeen[ch] = sampledAt }

Active == { ch \in DOMAIN lastSeen : sampledAt - lastSeen[ch] <= ChannelIdle }

Trimmed(s) == IF Len(s) > HistoryLen THEN SubSeq(s, Len(s) - HistoryLen + 1, Len(s)) ELSE s

SeriesOf(ch) == IF ch \in DOMAIN series THEN series[ch] ELSE << >>

\* Mutant: nothing is ever idle enough to be dropped.
NoneIdle == {}

\* Channels with a line that have fallen silent: dropped entirely.
Idle == DOMAIN series \ Active

\* Probers heard of within the TTL; those without a name get one.
Kept == { a \in DOMAIN probers : sampledAt - probers[a].lastSeen <= ProberTTL }
Named(p, a) == IF p.name = "" /\ idx # NoIndex THEN [p EXCEPT !.name = idx[a]] ELSE p

SampleEnds ==
  /\ sampler = "appending"
  /\ series' = [ch \in (DOMAIN series \cup Active) \ Idle |->
                  IF ch \in Active THEN Trimmed(Append(SeriesOf(ch), counts[ch])) ELSE series[ch]]
  /\ lastSeen' = [ch \in DOMAIN lastSeen \ Idle |-> lastSeen[ch]]
  /\ lastSub' = lastSub \ Idle
  /\ counts' = [ch \in Channels |-> 0]
  /\ sampled' = [ch \in Channels |-> sampled[ch] + IF ch \in Active THEN counts[ch] ELSE 0]
  /\ probers' = [a \in Kept |-> Named(probers[a], a)]
  /\ sampler' = "waiting"
  /\ UNCHANGED <<clock, stage, subs, tick, sampledAt, totals, idx, idxBuiltAt>>

-----------------------------------------------------------------------------
(* snapshot: what /journey.json says, in one critical section *)

\* j.lastEventAt is the latest of lastSeen for as long as this matters: a
\* channel is forgotten after the window has passed.
Mode ==
  IF \E ch \in DOMAIN lastSeen : clock - lastSeen[ch] <= ActiveWindow THEN "denial" ELSE "idle"

Page ==
  [mode |-> Mode,
   channels |-> [ch \in DOMAIN series |-> series[ch][Len(series[ch])]],
   names |-> [a \in DOMAIN probers |->
                IF probers[a].name = "" THEN "external" ELSE probers[a].name]]

-----------------------------------------------------------------------------
\* A second passes, and the ticker leaves a tick unless one is waiting.  Start
\* subscribes without waiting, the sampler does not sit on a tick or on the
\* stop signal, and the lists end at their timeout.
SecondPasses ==
  /\ clock < MaxTime
  /\ stage \in {"running", "closing"}
  /\ sampler # "appending"
  /\ sampler = "waiting" => ~tick /\ ~StopSeen
  /\ sampler = "listing" => clock < sampledAt + CallTimeout
  /\ clock' = clock + 1
  /\ tick' = (sampler \in {"waiting", "listing"})
  /\ UNCHANGED <<stage, subs, sampler, sampledAt, boardVars, sampled>>

SamplerStep ==
  \/ SampleBegins \/ SampleEnds
  \/ \E found \in SUBSET Addrs : IndexBuilt(found)

Next ==
  \/ StartConnects \/ StartRuns \/ StartFails \/ CloseBegins \/ CloseEnds
  \/ OnThreat
  \/ \E m \in Probes : OnProbe(m)
  \/ SamplerStops \/ SamplerStep
  \/ SecondPasses

Spec == Init /\ [][Next]_vars

\* The sampler is scheduled and its lists time out; its select does not pass
\* over the stop channel for ever.  Close goes on once the sampler is gone.
FairSpec ==
  Spec /\ WF_vars(SamplerStep) /\ SF_vars(SamplerStops) /\ WF_vars(CloseEnds)

-----------------------------------------------------------------------------
(* Properties *)

\* Every denial is plotted exactly once: those counted in total are those
\* appended to a series plus those the next sample will append, although
\* callbacks count on while a sample waits for the cluster.
EveryDenialPlotted ==
  totals.denied = MapThenSumSet(LAMBDA ch : counts[ch] + sampled[ch], Channels)

\* A prober that has a name has the one the current index gives it, whichever
\* way refreshes, samples and messages interleave.
NamesFollowIndex ==
  \A a \in DOMAIN probers :
    /\ probers[a].name # "" => idx # NoIndex /\ probers[a].name = idx[a]
    /\ Page.names[a] \in (IF idx = NoIndex THEN {} ELSE {idx[a]}) \cup {"external"}

\* "so a silent channel doesn't linger as a frozen ghost line": while the
\* sampler runs, a channel that has a line or a payload was seen within the
\* idle window and one sample of the longest kind, and no line is longer than
\* the ring; and a page that says that nothing is being denied shows no rate
\* above zero, although the sample that clears it may have had to wait for the
\* cluster.
NoGhostLine ==
  sampler \notin {"none", "exited"} =>
    /\ \A ch \in DOMAIN series \cup lastSub :
         ch \in DOMAIN lastSeen /\ clock - lastSeen[ch] <= ChannelIdle + CallTimeout + 1
    /\ \A ch \in DOMAIN series : Len(series[ch]) \in 1..HistoryLen
    /\ Page.mode = "idle" => \A ch \in DOMAIN series : Page.channels[ch] = 0

\* Close returns, even while the sampler waits for the cluster.
CloseReturns == stage = "closing" ~> stage = "closed"
=============================================================================
