---------------------------- MODULE SiteQueries ----------------------------
(***************************************************************************)
(* The RPCs of internal/service that report on a site and change nothing:  *)
(* EoBHealth, TraceHealth, ClusterIdentity, Heartbeat, ResolveEndpoints    *)
(* and EastWestGraph.                                                      *)
(*                                                                         *)
(* Each is a sequence of calls to the API server, the stream backend or    *)
(* the defense bus, made one after the other: a call answers with what is  *)
(* there at that moment, fails, or is cut off by its deadline.  The site   *)
(* goes on changing between the calls and before the first of them.  got   *)
(* is what has been read; the fields of a response are operators over it.  *)
(*                                                                         *)
(* now counts the time since the RPC began.                                *)
(***************************************************************************)
EXTENDS Integers, Sequences, FiniteSets, FiniteSetsExt, SequencesExt, Functions

CONSTANTS
  Values,          \* Values[x]: what call x can find
  Usual,           \* Usual[x]: what it finds unless that changes
  Absent,          \* an object the API server does not know
  Wirings,         \* which of "kube", "streams", "bus" are configured
  Queries,         \* [rpc, endpoints, window, maxEdges]: requests
  Events,          \* messages of the defense bus, see Sampled
  k8sCallTimeout, heartbeatProbeTimeout, connectTimeout,
  defaultWindow, maxWindow, defaultMaxEdges,
  Unlimited,       \* the deadline of a call that has none: past all time
  MaxTime, MaxChanges, MaxEvents, MaxFailures   \* bounds

ASSUME TimesAssumption ==
  /\ {k8sCallTimeout, heartbeatProbeTimeout, connectTimeout, defaultWindow} \subseteq Nat \ {0}
  /\ maxWindow \in Nat /\ defaultWindow <= maxWindow
  /\ Unlimited \in Nat /\ Unlimited > MaxTime /\ defaultMaxEdges \in Nat \ {0}

Workloads == {"operator", "dashboard", "streamstore", "webhook", "trace_agent", "race_agent"}

IsList(list) == Len(list) \in Nat /\ list = [k \in 1..Len(list) |-> list[k]]

\* Of the nodes that should run a directive's agent, so many have it ready.
ASSUME ValuesAssumption ==
  /\ DOMAIN Usual = DOMAIN Values /\ \A x \in DOMAIN Values : Usual[x] \in Values[x]
  /\ \A x \in {"pods", "services", "nodes", "directives"} \cap DOMAIN Values :
       \A list \in Values[x] : IsList(list)
  /\ \A x \in Workloads \cap DOMAIN Values :
       \A w \in Values[x] \ {Absent} : w.ready \in Nat /\ w.desired \in Nat
  /\ \A w \in Values["operator"] \ {Absent} : IsList(w.containers)
  /\ \A list \in Values["directives"] : \A k \in DOMAIN list :
       list[k].desired \in Nat /\ list[k].ready \in 0..list[k].desired
  /\ \A x \in {"agents", "trace_pods", "race_pods"} \cap DOMAIN Values :
       \A pods \in Values[x] : IsFiniteSet(pods)

ASSUME QueriesAssumption ==
  \A q \in Queries :
    /\ q.rpc \in {"EoBHealth", "TraceHealth", "ClusterIdentity", "Heartbeat", "ResolveEndpoints",
                  "EastWestGraph"}
    /\ {q.window, q.maxEdges} \subseteq Int

VARIABLES
  wired, query,  \* of this call
  site,          \* what there is: site[x] \in Values[x]
  changes,       \* changes so far
  was,           \* history: was[x], values of site[x] since the RPC began
  pc,            \* "idle", "calling", "sampling", "assembling", "answered"
  pos,           \* index in Calls of the call in progress
  now, deadline,
  got,           \* results of the calls that answered
  failed,        \* calls that did not
  seen,          \* EastWestGraph: events counted
  edges,         \* the edges of its graph, a function to their counts
  heard,         \* history: the messages counted
  shown          \* the edges of its response, in order

cluster == <<wired, query, site, changes, was>>
graph == <<seen, edges, heard, shown>>
vars == <<cluster, pc, pos, now, deadline, got, failed, graph>>

-----------------------------------------------------------------------------
(* What an RPC calls, in order, and for how long *)

Plan(r) ==
  CASE r = "EoBHealth" ->
         << "directives", "operator", "dashboard", "streamstore", "webhook", "agents" >>
    [] r = "TraceHealth" -> << "trace_agent", "trace_pods", "race_agent", "race_pods" >>
    [] r = "ClusterIdentity" -> << "version", "operator" >>
    [] r = "Heartbeat" -> << "version", "directives", "operator", "streams" >>
    [] r = "ResolveEndpoints" -> << "pods", "services", "nodes" >>
    [] r = "EastWestGraph" -> << "bus", "pods", "services", "nodes" >>

Backend(x) == IF x \in {"streams", "bus"} THEN x ELSE "kube"

\* Without a bus there is no graph.
Calls == IF query.rpc = "EastWestGraph" /\ "bus" \notin wired THEN << >> ELSE Plan(query.rpc)

Wired(p) == Backend(Calls[p]) \in wired

\* The calls of these RPCs run under one context.
SharesContext == query.rpc \in {"EoBHealth", "TraceHealth", "ResolveEndpoints", "EastWestGraph"}

BeginsContext(x) == x \in {"bus", "directives", "trace_agent", "pods"}

\* Mutant: every call has a timeout of its own.
OwnTimeout(x) == now + k8sCallTimeout

\* ServerVersion is given no context, by neither RPC that calls it.  What
\* nats.Connect takes in all is connectTimeout: its option bounds each dial and
\* each handshake, and an address may resolve to several hosts.
DeadlineOf(x) ==
  CASE x = "version" -> Unlimited
    [] x = "bus" -> now + connectTimeout
    [] query.rpc = "Heartbeat" /\ x # "operator" -> now + heartbeatProbeTimeout
    [] SharesContext /\ ~BeginsContext(x) -> deadline
    [] OTHER -> now + k8sCallTimeout

Init ==
  /\ wired \in Wirings /\ query \in Queries
  /\ site = Usual /\ changes = 0 /\ was = [x \in DOMAIN Usual |-> {Usual[x]}]
  /\ pc = "idle" /\ pos = 0
  /\ now = 0 /\ deadline = 0
  /\ got = << >> /\ failed = {}
  /\ seen = 0 /\ edges = << >> /\ shown = << >> /\ heard = << >>

\* The first call from the p-th on whose backend is wired, or none.
NextCall(p, q) ==
  /\ q \in p .. Len(Calls) + 1
  /\ q <= Len(Calls) => Wired(q)
  /\ \A r \in p .. q - 1 : ~Wired(r)

\* That call is made, or there is none left.
Proceed(p) ==
  /\ NextCall(p, pos')
  /\ IF pos' <= Len(Calls)
     THEN pc' = "calling" /\ deadline' = DeadlineOf(Calls[pos'])
     ELSE /\ pc' = IF query.rpc = "EastWestGraph" /\ p > 1 THEN "assembling" ELSE "answered"
          /\ deadline' = now

Begin ==
  /\ pc = "idle"
  /\ was' = [x \in DOMAIN site |-> {site[x]}]
  /\ Proceed(1)
  /\ UNCHANGED <<wired, query, site, changes, now, got, failed, graph>>

\* m[k] = v of a map.
Put(m, k, v) == [x \in DOMAIN m \cup {k} |-> IF x = k THEN v ELSE m[x]]

Asking(x) == pc = "calling" /\ Calls[pos] = x

InTime == now < deadline

\* The pods of a DaemonSet are listed by its selector, if it could be read.
After(x, found) == IF x \in {"trace_agent", "race_agent"} /\ ~found THEN pos + 2 ELSE pos + 1

CallAnswers(x) ==
  /\ Asking(x) /\ x # "bus" /\ InTime
  /\ got' = Put(got, x, site[x])
  /\ Proceed(After(x, site[x] # Absent))
  /\ UNCHANGED <<cluster, now, failed, graph>>

\* An error, or the end of the call's context.  A selector that does not parse
\* is to its RPC what a failed list of pods is.
CallFails(x) ==
  /\ Asking(x) /\ x # "bus"
  /\ InTime => Cardinality(failed) < MaxFailures
  /\ failed' = failed \cup {x}
  /\ Proceed(After(x, FALSE))
  /\ UNCHANGED <<cluster, now, got, graph>>

Tick ==
  /\ pc \in {"calling", "sampling"} /\ InTime /\ now < MaxTime
  /\ now' = now + 1
  /\ UNCHANGED <<cluster, pc, pos, deadline, got, failed, graph>>

\* Anything in the site may change: what this RPC reads, and as far as it
\* matters, which it does not while the bus is sampled.
SiteChanges(x) ==
  /\ pc \in {"idle", "calling"} /\ changes < MaxChanges
  /\ x \in ToSet(Plan(query.rpc)) \cap DOMAIN Values
  /\ changes' = changes + 1
  /\ \E v \in Values[x] \ {site[x]} :
       /\ site' = [site EXCEPT ![x] = v]
       /\ was' = [was EXCEPT ![x] = @ \cup {v}]
  /\ UNCHANGED <<wired, query, pc, pos, now, deadline, got, failed, graph>>

-----------------------------------------------------------------------------
(* EastWestGraph: connect, sample for the window, resolve *)

window ==
  LET w == IF query.window <= 0 THEN defaultWindow ELSE query.window IN
  IF w > maxWindow THEN maxWindow ELSE w

maxEdges == IF query.maxEdges <= 0 THEN defaultMaxEdges ELSE query.maxEdges

BusConnects ==
  /\ Asking("bus") /\ InTime
  /\ pc' = "sampling"
  /\ deadline' = now + window
  /\ UNCHANGED <<cluster, pos, now, got, failed, graph>>

\* Connecting or subscribing fails, and the RPC with it.
BusFails ==
  /\ Asking("bus")
  /\ failed' = {"bus"}
  /\ pc' = "answered"
  /\ UNCHANGED <<cluster, pos, now, deadline, got, graph>>

\* An edge is from a pod or else a command, in a namespace, to an address.
EdgeOf(m) ==
  [ns |-> m.ns, src |-> IF m.pod = "" THEN m.comm ELSE m.pod, ip |-> m.ip, port |-> m.port]

\* A message that does not decode, or has no kind, is passed over; one without
\* a destination is counted as seen only.
HasDestination(m) == m.ip \notin {"", "0.0.0.0"}

Counted(e) == IF e \in DOMAIN edges THEN edges[e] + 1 ELSE 1

Sampled(m) ==
  /\ pc = "sampling" /\ InTime /\ seen < MaxEvents
  /\ m.decodes /\ m.kind # ""
  /\ seen' = seen + 1
  /\ heard' = Append(heard, m)
  /\ edges' = IF HasDestination(m) THEN Put(edges, EdgeOf(m), Counted(EdgeOf(m))) ELSE edges
  /\ UNCHANGED <<cluster, pc, pos, now, deadline, got, failed, shown>>

\* The window is over, or the connection is closed.
SampleEnds ==
  /\ pc = "sampling"
  /\ Proceed(pos + 1)
  /\ UNCHANGED <<cluster, now, got, failed, graph>>

\* Mutant: the comparison is the wrong way round.
LightestFirst(all) == \A i, j \in DOMAIN all : i < j => edges[all[i]] <= edges[all[j]]

HeaviestFirst(all) == \A i, j \in DOMAIN all : i < j => edges[all[i]] >= edges[all[j]]

\* The edges in the order of the map, sorted by count, ties in no order, and cut.
Assemble ==
  /\ pc = "assembling"
  /\ \E all \in Bijection(1..Cardinality(DOMAIN edges), DOMAIN edges) :
       /\ HeaviestFirst(all)
       /\ shown' = IF Len(all) > maxEdges THEN SubSeq(all, 1, maxEdges) ELSE all
  /\ pc' = "answered"
  /\ UNCHANGED <<cluster, pos, now, deadline, got, failed, seen, edges, heard>>

-----------------------------------------------------------------------------
(* Responses *)

Read(x) == x \in DOMAIN got

ClusterState ==
  CASE query.rpc = "EastWestGraph" ->
         IF "bus" \notin wired \/ "bus" \in failed THEN "no-defense-bus" ELSE "connected"
    [] OTHER -> IF "kube" \in wired THEN "connected" ELSE "no-cluster"

ReadyStatus(w) ==
  CASE w.desired = 0 -> "absent" [] w.desired # 0 /\ w.ready >= w.desired -> "ok" [] OTHER -> "degraded"

\* Mutant: whatever keeps an object from being read, it is not there.
AbsentOnError == "absent"

ErrorStatus == "error"

\* Deployments, StatefulSets, DaemonSets, and the webhook configuration, which
\* counts its webhooks as both ready and desired.
ComponentStatus(x) ==
  IF ~Read(x) THEN ErrorStatus ELSE IF got[x] = Absent THEN "absent" ELSE ReadyStatus(got[x])

Total(ds, field) ==
  LET sum[k \in 0..Len(ds)] == IF k = 0 THEN 0 ELSE sum[k - 1] + ds[k][field] IN sum[Len(ds)]

\* directiveStatus: the DaemonSets of the directives, each and all together.
DirectiveStatuses ==
  IF Read("directives")
  THEN [k \in DOMAIN got["directives"] |-> ReadyStatus(got["directives"][k])] ELSE << >>

AgentStatus ==
  LET all(field) == Total(got["directives"], field) IN
  CASE ~Read("directives") -> ErrorStatus
    [] Read("directives") /\ got["directives"] = << >> -> "absent"
    [] OTHER -> ReadyStatus([desired |-> all("desired"), ready |-> all("ready")])

\* Ready and total pods of each node; a pod without one is under "<pending>".
NodeOf(p) == IF p.node = "" THEN "<pending>" ELSE p.node
ByNode(pods) ==
  [n \in { NodeOf(p) : p \in pods } |->
     [total |-> Cardinality({ p \in pods : NodeOf(p) = n }),
      ready |-> Cardinality({ p \in pods : NodeOf(p) = n /\ p.ready })]]

MergeNodeSummaries(a, b) ==
  [n \in DOMAIN a \cup DOMAIN b |->
     LET of(m, field) == IF n \in DOMAIN m THEN m[n][field] ELSE 0 IN
     [total |-> of(a, "total") + of(b, "total"), ready |-> of(a, "ready") + of(b, "ready")]]

Summary(x) == IF Read(x) THEN ByNode(got[x]) ELSE << >>

AgentsPerNode ==
  IF query.rpc = "EoBHealth" THEN Summary("agents")
  ELSE MergeNodeSummaries(Summary("trace_pods"), Summary("race_pods"))

\* eobVersion: the operator's label, its manager's tag, its first image's tag.
VersionOf(dep) ==
  LET managers == { k \in DOMAIN dep.containers : dep.containers[k].name = "manager" }
      manager == dep.containers[Min(managers)]
  IN CASE dep.label # "" -> dep.label
       [] dep.label = "" /\ managers # {} /\ manager.tag # "" -> manager.tag
       [] OTHER -> IF dep.containers = << >> THEN "" ELSE dep.containers[1].tag

K8SVersion == IF Read("version") THEN got["version"] ELSE ""
EobVersion == IF Read("operator") /\ got["operator"] # Absent THEN VersionOf(got["operator"]) ELSE ""

KubeReachable == Read("version")
DirectiveCount == IF Read("directives") THEN Len(got["directives"]) ELSE 0
StreamsReachable == Read("streams")
StreamCount == IF Read("streams") THEN got["streams"] ELSE 0

-----------------------------------------------------------------------------
(* endpointIndex *)

ListOf(x) == IF Read(x) THEN got[x] ELSE << >>

\* Mutant: pods on the host network are looked up by their address alone.
AnyPort(p, ip, port) == p.ip = ip

\* On the host network a pod shares its node's address: its declared ports tell.
PodAt(p, ip, port) ==
  IF p.hostNetwork THEN p.ip = ip /\ port \in p.ports ELSE p.ip = ip

\* resolve: the first of pod, service, pod of the host network, node, or else
\* external.  A later entry of a list has replaced an earlier one there.
resolve(ip, port) ==
  LET at(x) == { k \in DOMAIN ListOf(x) : ListOf(x)[k].ip = ip }
      pods(host) == { k \in DOMAIN ListOf("pods") :
        ListOf("pods")[k].hostNetwork = host /\ PodAt(ListOf("pods")[k], ip, port) }
      Latest(kind, x, ks) == [kind |-> kind, name |-> ListOf(x)[Max(ks)].name]
  IN IF pods(FALSE) # {} THEN Latest("pod", "pods", pods(FALSE))
     ELSE IF at("services") # {} THEN Latest("service", "services", at("services"))
     ELSE IF pods(TRUE) # {} THEN Latest("pod", "pods", pods(TRUE))
     ELSE IF at("nodes") # {} THEN Latest("node", "nodes", at("nodes"))
     ELSE [kind |-> "external", name |-> ""]

\* The addresses a response names.
Addressed ==
  IF query.rpc = "ResolveEndpoints" THEN query.endpoints
  ELSE { [ip |-> e.ip, port |-> e.port] : e \in ToSet(shown) }

-----------------------------------------------------------------------------
Step ==
  \/ Begin
  \/ \E x \in DOMAIN Values : CallAnswers(x) \/ CallFails(x)
  \/ BusConnects \/ BusFails
  \/ \E m \in Events : Sampled(m)
  \/ SampleEnds \/ Assemble
  \/ Tick

Next == Step \/ \E x \in DOMAIN Values : SiteChanges(x)

Spec == Init /\ [][Next]_vars

-----------------------------------------------------------------------------
(* Properties *)

\* "Bounded so a slow apiserver does not stall": however many calls it makes,
\* a report on the cluster takes no longer than one timeout, and the graph no
\* longer than connecting, its window and one timeout.
AnswersInTime ==
  /\ query.rpc \in {"EoBHealth", "TraceHealth", "ResolveEndpoints"} => now <= k8sCallTimeout
  /\ query.rpc = "EastWestGraph" => now <= connectTimeout + maxWindow + k8sCallTimeout

\* A component is what it was at some moment of the call.  It is in error if its
\* own call failed, and then only: what could not be read is not passed for absent.
StatusWasTrue(x) ==
  /\ ComponentStatus(x) \in {"error", "absent", "degraded", "ok"}
  /\ ComponentStatus(x) = "error" <=> x \in failed
  /\ ComponentStatus(x) = "absent" => \E v \in was[x] : v = Absent \/ v.desired = 0
  /\ ComponentStatus(x) = "degraded" => \E v \in was[x] : v # Absent /\ v.ready < v.desired
  /\ ComponentStatus(x) = "ok" =>
       \E v \in was[x] : v # Absent /\ v.desired > 0 /\ v.ready >= v.desired

\* The directives are those of one list.  Their agents taken together, by the
\* sums, are what their statuses tell: degraded if one is, absent if all are.
AgentsWereTrue ==
  IF "directives" \in failed THEN AgentStatus = "error" /\ DirectiveStatuses = << >>
  ELSE \E ds \in was["directives"] :
         LET Short(k) == ds[k].ready < ds[k].desired
             Unwanted(k) == ds[k].desired = 0
         IN /\ DirectiveStatuses = [k \in DOMAIN ds |->
                 IF Unwanted(k) THEN "absent" ELSE IF Short(k) THEN "degraded" ELSE "ok"]
            /\ AgentStatus = IF \A k \in DOMAIN ds : Unwanted(k) THEN "absent"
                             ELSE IF \E k \in DOMAIN ds : Short(k) THEN "degraded" ELSE "ok"

\* The pods of a node, ready and in all, are those of one list, or of one list
\* of each DaemonSet; a list that was not read has none.
ListsOf(x) == IF Read(x) THEN was[x] ELSE {{}}

PodsAddUp(a, b) ==
  LET On(n, pods) == { p \in pods : NodeOf(p) = n }
      Ready(n, pods) == { p \in pods : NodeOf(p) = n /\ p.ready }
  IN /\ DOMAIN AgentsPerNode = { NodeOf(p) : p \in a } \cup { NodeOf(p) : p \in b }
     /\ \A n \in DOMAIN AgentsPerNode :
          /\ AgentsPerNode[n].total = Cardinality(On(n, a)) + Cardinality(On(n, b))
          /\ AgentsPerNode[n].ready = Cardinality(Ready(n, a)) + Cardinality(Ready(n, b))

\* The operator's version is its label, or else a tag of its manager's image or
\* its first one's.
VersionWasTrue ==
  \E v \in was["operator"] :
    IF v = Absent THEN EobVersion = ""
    ELSE IF v.label # "" THEN EobVersion = v.label
    ELSE \/ v.containers = << >> /\ EobVersion = ""
         \/ \E k \in DOMAIN v.containers :
              /\ k = 1 \/ v.containers[k].name = "manager"
              /\ EobVersion = v.containers[k].tag

\* What a health or identity response says was so at some moment of the call:
\* each status, the sums over directives and nodes, the versions and the counts;
\* and what it says for want of an answer, it says only of a backend that is not
\* wired or a call that failed.
Unanswered(x) == Backend(x) \notin wired \/ x \in failed

AnswersWereTrue ==
  pc = "answered" =>
    /\ query.rpc = "EoBHealth" /\ "kube" \in wired =>
         /\ \A x \in {"operator", "dashboard", "streamstore", "webhook"} : StatusWasTrue(x)
         /\ AgentsWereTrue
         /\ \E a \in ListsOf("agents") : PodsAddUp(a, {})
    /\ query.rpc = "TraceHealth" /\ "kube" \in wired =>
         /\ \A x \in {"trace_agent", "race_agent"} : StatusWasTrue(x)
         /\ \E a \in ListsOf("trace_pods"), b \in ListsOf("race_pods") : PodsAddUp(a, b)
    /\ query.rpc = "ClusterIdentity" =>
         IF Unanswered("version") THEN K8SVersion = "" ELSE K8SVersion \in was["version"]
    /\ query.rpc \in {"ClusterIdentity", "Heartbeat"} =>
         IF Unanswered("operator") THEN EobVersion = "" ELSE VersionWasTrue
    /\ query.rpc = "Heartbeat" =>
         /\ KubeReachable <=> ~Unanswered("version")
         /\ IF Unanswered("directives") THEN DirectiveCount = 0
            ELSE \E ds \in was["directives"] : DirectiveCount = Len(ds)
         /\ StreamsReachable <=> ~Unanswered("streams")
         /\ IF Unanswered("streams") THEN StreamCount = 0 ELSE StreamCount \in was["streams"]

\* An address is given a name only if at some moment of the call an object of
\* that name was listed with it; and one on the host network is taken for a
\* pod only by a port the pod declares.
NamesWereTrue ==
  pc = "answered" => \A a \in Addressed :
    LET r == resolve(a.ip, a.port)
        listed(x) == \E list \in was[x] : \E k \in DOMAIN list :
          /\ list[k].name = r.name /\ list[k].ip = a.ip
          /\ x = "pods" /\ list[k].hostNetwork => a.port \in list[k].ports
    IN CASE r.kind = "pod" -> listed("pods")
         [] r.kind = "service" -> listed("services")
         [] r.kind = "node" -> listed("nodes")
         [] OTHER -> r.name = ""

\* The response lists edges some message has, none twice and each with the
\* number of its messages, the heaviest first; it lists as many as were asked
\* for, or all there are, and no edge left out is heavier than one listed.
GraphAddsUp ==
  LET Connects == { i \in DOMAIN heard : HasDestination(heard[i]) }
      Heard == { EdgeOf(heard[i]) : i \in Connects }
      Times(e) == Cardinality({ i \in Connects : EdgeOf(heard[i]) = e })
  IN pc = "answered" /\ query.rpc = "EastWestGraph" /\ failed = {} =>
       /\ seen = Len(heard)
       /\ ToSet(shown) \subseteq Heard
       /\ \A i \in DOMAIN shown : edges[shown[i]] = Times(shown[i])
       /\ \A i, j \in DOMAIN shown :
            i < j => shown[i] # shown[j] /\ Times(shown[i]) >= Times(shown[j])
       /\ \A e \in ToSet(shown), f \in Heard \ ToSet(shown) : Times(e) >= Times(f)
       /\ Len(shown) = Min({maxEdges, Cardinality(Heard)})

\* "the worst-case latency is 2 x heartbeatProbeTimeout" (heartbeat.go:14-15).
HeartbeatIsQuick == query.rpc = "Heartbeat" => now <= 2 * heartbeatProbeTimeout
=============================================================================
